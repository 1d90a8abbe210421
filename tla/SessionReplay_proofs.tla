------------------------ MODULE SessionReplay_proofs ------------------------
(***************************************************************************)
(* Proofs about SessionReplay, for any number of events, turns, faults and *)
(* requests at once.  The argument: the upload in progress and the buffer, *)
(* read one after the other, end with the event emitted last, and what     *)
(* comes before them is in the bucket; an upload has made or found what    *)
(* its finalize request needs; and as long as the backend is not disturbed *)
(* one task at most holds totals that the row does not show.               *)
(***************************************************************************)
EXTENDS SessionReplay, SequenceTheorems, TLAPS

EventSeq(s, n) == s \in Seq(Nat) /\ \A i \in 1 .. Len(s) : s[i] \in 1 .. n

\* s counts up to last.
RunOf(s, last) == \A i \in 1 .. Len(s) : s[i] = last - Len(s) + i
Consecutive(s) == \A j \in 1 .. Len(s) : s[j] = s[1] + j - 1

\* x is in the bucket.
Stored(x) == \E i \in 1 .. Len(segments) : \E j \in 1 .. Len(segments[i]) : segments[i][j] = x

Upload == [phase : {"none", "presign", "put"}, events : Seq(Nat), error : BOOLEAN]

(* The following are about a buffer b and a matrix m after n events, so that *)
(* they can be said of what a step has recorded before it uploads.           *)

DataTypes(b, m, n) ==
  /\ n \in 0 .. MaxEvents
  /\ EventSeq(b, n)
  /\ m \in Seq(Seq(Nat)) /\ Len(m) \in {1, 2} /\ \A k \in 1 .. Len(m) : EventSeq(m[k], n)
  /\ uploads \in [Slot -> Upload]
  /\ \A u \in Slot : /\ EventSeq(uploads[u].events, n)
                     /\ uploads[u] = NoUpload \/ (uploads[u].phase # "none" /\ uploads[u].events # <<>>)
  /\ segments \in Seq(Seq(Nat))
  /\ \A q \in requests : q.n \in Nat /\ q.ended \in 1 .. n /\ q.id \in 1 .. Len(segments)

InOrder(b, n) ==
  mode = "sampled" /\ ~rec.disabled =>
    /\ RunOf(b, n) /\ RunOf(uploads[1].events, n - Len(b))
    /\ \A x \in 1 .. (n - Len(b) - Len(uploads[1].events)) : Stored(x)
    /\ \A i \in 1 .. Len(segments) : Consecutive(segments[i])

\* What an upload that is in progress may rely on.
Backed(b) ==
  /\ mode \in {"sampled", "onError"}
  /\ mode = "sampled" => uploads[2] = NoUpload /\ ~uploads[1].error
  /\ mode = "onError" => /\ b = <<>> /\ ~rec.disabled
                         /\ \A u \in Slot : uploads[u] # NoUpload => uploads[u].error
  /\ mode = "onError" /\ ~crossed => /\ uploads[1] = NoUpload \/ uploads[2] = NoUpload
                                     /\ \A u \in Slot : uploads[u] # NoUpload => pendingError
  /\ \A u \in Slot : /\ uploads[u].phase = "put" => identified
                     /\ uploads[u] # NoUpload /\ ~uploads[u].error => ~rec.disabled /\ minReached

Data(b, m, n) == DataTypes(b, m, n) /\ InOrder(b, n) /\ Backed(b)
DataInvariant == Data(buffer, matrix, emitted)

\* The flags r of a recorder; late says whether a start came during a stop.
Flags == [initialized : BOOLEAN, isRecording : BOOLEAN, disabled : BOOLEAN,
          stopping : {"no", "flushing", "pausing"}, hooked : BOOLEAN, live : Nat,
          deferred : Nat, failures : 0 .. MaxFlushErrors]
FlagsOK(r, late) ==
  /\ r \in Flags /\ (r.hooked => r.live > 0)
  /\ ~r.disabled => r.failures < MaxFlushErrors
  /\ ~late => /\ r.live <= 1 /\ (r.live = 1 => r.hooked /\ r.initialized)
              /\ r.stopping # "no" => r.live = 0

\* Totals of a session after n events.
Meta(n) == [n : Nat, ended : 0 .. n]
TaskRecord(n) == [step : {"idle", "upserting", "upserted"}, meta : Meta(n)]
TotalsInvariant ==
  /\ received \in Nat /\ disturbed \in BOOLEAN
  /\ cache \in Meta(emitted) /\ row \in Meta(emitted)
  /\ cache.n <= received /\ row.n <= received
  /\ task \in [Tasks -> TaskRecord(emitted)] /\ \A t \in Tasks : task[t].meta.n <= received
  /\ ~disturbed =>
       /\ \A s, t \in Tasks : task[s].step # "idle" /\ task[t].step # "idle" => s = t
       /\ ~Busy => row = cache /\ row.n = received
       /\ \A t \in Tasks : task[t].step = "upserting" =>
            row = cache /\ task[t].meta.n = received /\ row.ended <= task[t].meta.ended
       /\ \A t \in Tasks : task[t].step = "upserted" => row = task[t].meta /\ row.n = received

PlainTypes ==
  /\ consent \in BOOLEAN /\ script \in {"absent", "loading", "running"}
  /\ page \in {"on", "off"}

-----------------------------------------------------------------------------
(* Sequences of events.                                                    *)

LEMMA NoEvents ==
  /\ <<>> \in Seq(Nat) /\ Len(<<>>) = 0
  /\ \A n : EventSeq(<<>>, n) /\ RunOf(<<>>, n)
  BY DEF EventSeq, RunOf

LEMMA EventsAre ==
  ASSUME NEW n \in Nat, NEW s, EventSeq(s, n)
  PROVE  /\ s \in Seq(Nat) /\ Len(s) \in Nat /\ DOMAIN s = 1 .. Len(s)
         /\ EventSeq(s, n + 1)
         /\ s # <<>> => Len(s) >= 1 /\ s[1] \in 1 .. n /\ Last(s) \in 1 .. n
         /\ s \in Seq(1 .. n)
<1>1. s \in Seq(Nat) /\ Len(s) \in Nat /\ DOMAIN s = 1 .. Len(s) /\ \A i \in 1 .. Len(s) : s[i] \in 1 .. n
  BY LenProperties DEF EventSeq
<1>2. EventSeq(s, n + 1)
  BY <1>1 DEF EventSeq
<1>3. s # <<>> => Len(s) >= 1
  BY <1>1, EmptySeq
<1>4. s # <<>> => s[1] \in 1 .. n /\ Last(s) \in 1 .. n
  BY <1>1, <1>3 DEF Last
<1>5. s \in [1 .. Len(s) -> 1 .. n]
  BY <1>1, LenProperties
<1>6. s \in Seq(1 .. n)
  BY <1>1, <1>5, SeqDef
<1> QED
  BY <1>1, <1>2, <1>3, <1>4, <1>6

LEMMA EventAppended ==
  ASSUME NEW n \in Nat, NEW s, EventSeq(s, n)
  PROVE  /\ EventSeq(Append(s, n + 1), n + 1) /\ Len(Append(s, n + 1)) = Len(s) + 1
         /\ RunOf(s, n) => RunOf(Append(s, n + 1), n + 1)
<1> DEFINE a == Append(s, n + 1)
<1>1. /\ a \in Seq(Nat) /\ Len(a) = Len(s) + 1 /\ Len(s) \in Nat
      /\ \A i \in 1 .. Len(s) : a[i] = s[i]
      /\ a[Len(s) + 1] = n + 1
  BY AppendProperties, EventsAre
<1>2. \A i \in 1 .. Len(a) : i \in 1 .. Len(s) \/ i = Len(s) + 1
  BY <1>1
<1> HIDE DEF a
<1>3. EventSeq(a, n + 1)
  <2>1. ASSUME NEW i \in 1 .. Len(a) PROVE a[i] \in 1 .. n + 1
    <3>1. CASE i \in 1 .. Len(s)
      <4>1. s[i] \in 1 .. n /\ a[i] = s[i]
        BY <1>1, <3>1 DEF EventSeq
      <4> QED
        BY <4>1
    <3>2. CASE i = Len(s) + 1
      BY <1>1, <3>2
    <3> QED
      BY <1>2, <3>1, <3>2
  <2> QED
    BY <1>1, <2>1 DEF EventSeq
<1>4. RunOf(s, n) => RunOf(a, n + 1)
  BY <1>1, <1>2 DEF RunOf
<1> QED
  BY <1>1, <1>3, <1>4 DEF a

LEMMA EventsJoined ==
  ASSUME NEW n \in Nat, NEW s, NEW t, EventSeq(s, n), EventSeq(t, n)
  PROVE  /\ EventSeq(s \o t, n) /\ Len(s \o t) = Len(s) + Len(t)
         /\ RunOf(t, n) /\ RunOf(s, n - Len(t)) => RunOf(s \o t, n)
<1> DEFINE a == s \o t
<1>1. Len(s) \in Nat /\ Len(t) \in Nat /\ s \in Seq(Nat) /\ t \in Seq(Nat)
  BY EventsAre
<1>2. a \in Seq(Nat) /\ Len(a) = Len(s) + Len(t)
  BY <1>1, ConcatProperties
<1>3. \A i \in 1 .. Len(a) : \/ i \in 1 .. Len(s) /\ a[i] = s[i]
                             \/ i - Len(s) \in 1 .. Len(t) /\ a[i] = t[i - Len(s)]
  BY <1>1, <1>2, ConcatProperties
<1> HIDE DEF a
<1>4. EventSeq(a, n)
  BY <1>2, <1>3 DEF EventSeq
<1>5. ASSUME RunOf(t, n), RunOf(s, n - Len(t)) PROVE RunOf(a, n)
  <2> SUFFICES ASSUME NEW i \in 1 .. Len(a) PROVE a[i] = n - Len(a) + i
    BY DEF RunOf
  <2>1. CASE i \in 1 .. Len(s) /\ a[i] = s[i]
    BY <1>1, <1>2, <1>5, <2>1 DEF RunOf
  <2>2. CASE i - Len(s) \in 1 .. Len(t) /\ a[i] = t[i - Len(s)]
    BY <1>1, <1>2, <1>5, <2>2 DEF RunOf
  <2> QED
    BY <1>3, <2>1, <2>2
<1> QED
  BY <1>2, <1>4, <1>5 DEF a

LEMMA RunsAreConsecutive ==
  ASSUME NEW n \in Int, NEW s \in Seq(Nat), RunOf(s, n)
  PROVE  Consecutive(s)
<1> SUFFICES ASSUME NEW j \in 1 .. Len(s) PROVE s[j] = s[1] + j - 1
  BY DEF Consecutive
<1>1. 1 \in 1 .. Len(s) /\ Len(s) \in Nat
  OBVIOUS
<1>2. s[1] = n - Len(s) + 1 /\ s[j] = n - Len(s) + j
  BY <1>1 DEF RunOf
<1> QED
  BY <1>1, <1>2

-----------------------------------------------------------------------------
(* The flags of the recorder.                                              *)

LEMMA HaltedOK ==
  ASSUME NEW r, NEW late \in BOOLEAN, FlagsOK(r, late)
  PROVE  /\ FlagsOK(Halted(r), late) /\ (~late => Halted(r).live = 0)
         /\ Halted(r).disabled = r.disabled /\ Halted(r).stopping = r.stopping
<1> DEFINE l == IF r.hooked THEN r.live - 1 ELSE r.live
<1>1. r \in Flags /\ l \in Nat /\ (~late => l = 0)
  BY DEF FlagsOK, Flags
<1>2. Halted(r) = [r EXCEPT !.live = l, !.hooked = FALSE]
  BY DEF Halted
<1> HIDE DEF l
<1>3. Halted(r) \in Flags
  BY <1>1, <1>2 DEF Flags
<1> QED
  BY <1>1, <1>2, <1>3 DEF FlagsOK, Flags

LEMMA StoppedOK ==
  ASSUME NEW r, NEW late \in BOOLEAN, FlagsOK(r, late), ~late => r.live = 0
  PROVE  FlagsOK(Stopped(r), late) /\ Stopped(r).disabled = r.disabled
<1>1. Stopped(r) \in Flags
  BY DEF FlagsOK, Flags, Stopped
<1> QED
  BY <1>1 DEF FlagsOK, Flags, Stopped

LEMMA StoppingOK ==
  ASSUME NEW r, NEW late \in BOOLEAN, FlagsOK(r, late), ~late => r.live = 0,
         NEW stopping \in {"flushing", "pausing"}
  PROVE  /\ FlagsOK([r EXCEPT !.stopping = stopping], late)
         /\ [r EXCEPT !.stopping = stopping].disabled = r.disabled
<1>1. [r EXCEPT !.stopping = stopping] \in Flags
  BY DEF FlagsOK, Flags
<1> QED
  BY <1>1 DEF FlagsOK, Flags

LEMMA AfterFlushOK ==
  ASSUME NEW r, NEW b, NEW late \in BOOLEAN, FlagsOK(r, late)
  PROVE  FlagsOK(AfterFlush(r, b), late) /\ AfterFlush(r, b).disabled = r.disabled
<1>1. CASE r.stopping # "flushing"
  BY <1>1 DEF AfterFlush
<1>2. CASE r.stopping = "flushing"
  <2>1. ~late => r.live = 0
    BY <1>2 DEF FlagsOK
  <2> QED
    BY <1>2, <2>1, StoppedOK, StoppingOK DEF AfterFlush
<1> QED
  BY <1>1, <1>2

\* A flush that failed: the recorder goes on, or it gives up for good.
LEMMA FailureOK ==
  ASSUME NEW r, NEW late \in BOOLEAN, FlagsOK(r, late), ~r.disabled
  PROVE  /\ r.failures + 1 < MaxFlushErrors => FlagsOK([r EXCEPT !.failures = @ + 1], late)
         /\ FlagsOK([r EXCEPT !.failures = @ + 1, !.disabled = TRUE], late)
         /\ [r EXCEPT !.failures = @ + 1].disabled = FALSE
         /\ [r EXCEPT !.failures = @ + 1, !.disabled = TRUE].disabled = TRUE
         /\ [r EXCEPT !.failures = 0].disabled = FALSE
         /\ FlagsOK([r EXCEPT !.failures = 0], late)
<1>1. MaxFlushErrors \in Nat \ {0}
  BY RecorderAssumption DEF RecorderAssumption
<1>2. r.failures + 1 \in 0 .. MaxFlushErrors /\ r.failures \in Nat /\ 0 \in 0 .. MaxFlushErrors
  BY <1>1 DEF FlagsOK, Flags
<1>3. /\ [r EXCEPT !.failures = @ + 1] \in Flags
      /\ [r EXCEPT !.failures = @ + 1, !.disabled = TRUE] \in Flags
      /\ [r EXCEPT !.failures = 0] \in Flags
  BY <1>1, <1>2 DEF FlagsOK, Flags
<1> QED
  BY <1>1, <1>2, <1>3 DEF FlagsOK, Flags

\* A start runs rrweb unless it runs already.
LEMMA StartedOK ==
  ASSUME FlagsOK(rec, lateStart), lateStart \in BOOLEAN, Start
  PROVE  FlagsOK(rec', lateStart') /\ lateStart' \in BOOLEAN /\ rec'.disabled = rec.disabled
<1>1. /\ rec \in Flags /\ rec.deferred - 1 \in Nat /\ rec.live \in Nat /\ rec.live + 1 \in Nat
      /\ rec.initialized \in BOOLEAN
  BY DEF FlagsOK, Flags, Start
<1>2. CASE rec.initialized
  <2>1. rec' = [rec EXCEPT !.deferred = @ - 1] /\ lateStart' = lateStart
    BY <1>2 DEF Start
  <2>2. rec' \in Flags
    BY <1>1, <2>1 DEF Flags
  <2> QED
    BY <1>1, <2>1, <2>2 DEF FlagsOK, Flags
<1>3. CASE ~rec.initialized
  <2>1. /\ rec' = [rec EXCEPT !.deferred = @ - 1, !.initialized = TRUE,
                              !.isRecording = TRUE, !.hooked = TRUE, !.live = @ + 1]
        /\ lateStart' = (lateStart \/ rec.stopping # "no")
    BY <1>3 DEF Start
  <2>2. rec' \in Flags
    <3> DEFINE d == rec.deferred - 1
               l == rec.live + 1
    <3>1. d \in Nat /\ l \in Nat
      BY <1>1
    <3>2. rec' = [rec EXCEPT !.deferred = d, !.initialized = TRUE,
                             !.isRecording = TRUE, !.hooked = TRUE, !.live = l]
      BY <2>1
    <3> HIDE DEF d, l
    <3> QED
      BY <1>1, <3>1, <3>2 DEF Flags
  <2>3. ~lateStart' => rec.live = 0 /\ rec.stopping = "no"
    <3> SUFFICES ASSUME ~lateStart' PROVE rec.live = 0 /\ rec.stopping = "no"
      OBVIOUS
    <3>1. ~lateStart /\ rec.stopping = "no"
      BY <2>1
    <3>2. rec.live <= 1 /\ rec.live # 1
      BY <1>3, <3>1 DEF FlagsOK
    <3> QED
      BY <1>1, <3>1, <3>2
  <2> QED
    BY <1>1, <2>1, <2>2, <2>3 DEF FlagsOK, Flags
<1> QED
  BY <1>2, <1>3

LEMMA DeferredOK ==
  ASSUME NEW r, NEW late \in BOOLEAN, FlagsOK(r, late)
  PROVE  /\ FlagsOK([r EXCEPT !.deferred = @ + 1], late)
         /\ [r EXCEPT !.deferred = @ + 1].disabled = r.disabled
<1>1. [r EXCEPT !.deferred = @ + 1] \in Flags
  BY DEF FlagsOK, Flags
<1> QED
  BY <1>1 DEF FlagsOK, Flags

\* Whatever a stop flushes, it halts the recorder and gives up nothing.
LEMMA StopOK ==
  ASSUME NEW b, FlagsOK(rec, lateStart), lateStart \in BOOLEAN, StopRecording(b)
  PROVE  /\ FlagsOK(rec', lateStart) /\ rec'.disabled = rec.disabled
         /\ FlushOf(b) \/ (buffer' = b /\ UNCHANGED uploads)
<1>1. CASE rec.stopping # "no"
  BY <1>1 DEF StopRecording
<1>2. CASE rec.stopping = "no"
  <2>1. FlushOf(b) /\ rec' = (IF MoreToFlush(rec, b) THEN [Halted(rec) EXCEPT !.stopping = "flushing"]
                              ELSE Stopped(Halted(rec)))
    BY <1>2 DEF StopRecording
  <2>2. FlagsOK(Halted(rec), lateStart) /\ (~lateStart => Halted(rec).live = 0) /\ Halted(rec).disabled = rec.disabled
    BY HaltedOK
  <2>3. FlagsOK([Halted(rec) EXCEPT !.stopping = "flushing"], lateStart)
        /\ [Halted(rec) EXCEPT !.stopping = "flushing"].disabled = rec.disabled
    BY <2>2, StoppingOK
  <2>4. FlagsOK(Stopped(Halted(rec)), lateStart) /\ Stopped(Halted(rec)).disabled = rec.disabled
    BY <2>2, StoppedOK
  <2> QED
    BY <2>1, <2>3, <2>4
<1> QED
  BY <1>1, <1>2

-----------------------------------------------------------------------------
(* Recording.                                                              *)

LEMMA DataAre ==
  ASSUME NEW b, NEW m, NEW n, DataTypes(b, m, n)
  PROVE  /\ n \in Nat /\ Len(b) \in Nat /\ b \in Seq(Nat)
         /\ \A u \in Slot : /\ uploads[u] \in Upload /\ uploads[u].events \in Seq(Nat)
                            /\ Len(uploads[u].events) \in Nat
                            /\ EventSeq(uploads[u].events, n)
                            /\ uploads[u] = NoUpload => Len(uploads[u].events) = 0
         /\ Len(segments) \in Nat
<1>1. n \in Nat
  BY RecorderAssumption DEF RecorderAssumption, DataTypes
<1>2. Len(b) \in Nat /\ b \in Seq(Nat)
  BY <1>1, EventsAre DEF DataTypes
<1>3. ASSUME NEW u \in Slot
      PROVE  /\ uploads[u] \in Upload /\ uploads[u].events \in Seq(Nat)
             /\ Len(uploads[u].events) \in Nat /\ EventSeq(uploads[u].events, n)
             /\ uploads[u] = NoUpload => Len(uploads[u].events) = 0
  <2>1. uploads[u] \in Upload /\ EventSeq(uploads[u].events, n)
    BY DEF DataTypes
  <2>2. NoUpload.events = <<>>
    BY DEF NoUpload
  <2> QED
    BY <1>1, <2>1, <2>2, EventsAre, NoEvents
<1>4. Len(segments) \in Nat
  BY LenProperties DEF DataTypes
<1> QED
  BY <1>1, <1>2, <1>3, <1>4

\* What a recorder has is valid after one more event.
LEMMA TypesWiden ==
  ASSUME NEW b, NEW m, NEW n, DataTypes(b, m, n), n < MaxEvents
  PROVE  /\ n + 1 \in 0 .. MaxEvents /\ EventSeq(b, n + 1)
         /\ \A k \in 1 .. Len(m) : EventSeq(m[k], n + 1)
         /\ \A u \in Slot : EventSeq(uploads[u].events, n + 1)
         /\ \A q \in requests : q.ended \in 1 .. n + 1
<1>1. n \in Nat /\ MaxEvents \in Nat
  BY DataAre, RecorderAssumption DEF RecorderAssumption
<1>2. n + 1 \in 0 .. MaxEvents /\ \A q \in requests : q.ended \in 1 .. n + 1
  BY <1>1 DEF DataTypes
<1> QED
  BY <1>1, <1>2, EventsAre DEF DataTypes

LEMMA SampledEvent ==
  ASSUME NEW b, NEW m, NEW n, Data(b, m, n), n < MaxEvents, mode = "sampled"
  PROVE  Data(Append(b, n + 1), m, n + 1)
<1> DEFINE a == Append(b, n + 1)
<1>1. n \in Nat /\ Len(b) \in Nat /\ EventSeq(b, n)
  BY DataAre DEF Data, DataTypes
<1>2. EventSeq(a, n + 1) /\ Len(a) = Len(b) + 1 /\ (RunOf(b, n) => RunOf(a, n + 1))
  BY <1>1, EventAppended
<1> HIDE DEF a
<1>3. DataTypes(a, m, n + 1)
  BY <1>2, TypesWiden DEF Data, DataTypes
<1>4. (n + 1) - Len(a) = n - Len(b)
  BY <1>1, <1>2
<1>5. InOrder(a, n + 1)
  BY <1>2, <1>4 DEF Data, InOrder
<1>6. Backed(a)
  BY DEF Data, Backed
<1> QED
  BY <1>3, <1>5, <1>6 DEF Data, a

LEMMA OnErrorEvent ==
  ASSUME NEW b, NEW n, Data(b, matrix, n), n < MaxEvents, mode = "onError", emitted = n,
         NEW checkout \in BOOLEAN
  PROVE  Data(b, AddToMatrix(checkout), n + 1)
<1> DEFINE m == IF checkout THEN <<Last(matrix), <<>>>> ELSE matrix
           e == Append(m[Len(m)], n + 1)
<1>1. n \in Nat /\ matrix \in Seq(Seq(Nat)) /\ Len(matrix) \in {1, 2}
      /\ \A k \in 1 .. Len(matrix) : EventSeq(matrix[k], n)
  BY DataAre DEF Data, DataTypes
<1>2. m \in Seq(Seq(Nat)) /\ Len(m) \in {1, 2} /\ \A k \in 1 .. Len(m) : EventSeq(m[k], n)
  <2>1. CASE checkout
    <3>1. Last(matrix) \in Seq(Nat) /\ EventSeq(Last(matrix), n)
      BY <1>1 DEF Last
    <3>2. m = <<Last(matrix), <<>>>>
      BY <2>1
    <3> HIDE DEF m
    <3>3. m \in Seq(Seq(Nat)) /\ Len(m) = 2 /\ m[1] = Last(matrix) /\ m[2] = <<>>
      BY <3>1, <3>2
    <3> QED
      BY <3>1, <3>3, NoEvents
  <2>2. CASE ~checkout
    BY <1>1, <2>2
  <2> QED
    BY <2>1, <2>2
<1>3. AddToMatrix(checkout) = [m EXCEPT ![Len(m)] = e]
  BY DEF AddToMatrix
<1> HIDE DEF m
<1>4. EventSeq(m[Len(m)], n) /\ Len(m) \in 1 .. Len(m)
  BY <1>2
<1>5. EventSeq(e, n + 1)
  BY <1>1, <1>4, EventAppended
<1> HIDE DEF e
<1>6. e \in Seq(Nat)
  BY <1>5 DEF EventSeq
<1> DEFINE a == [m EXCEPT ![Len(m)] = e]
<1>7. /\ a \in Seq(Seq(Nat)) /\ Len(a) = Len(m)
      /\ \A k \in 1 .. Len(m) : a[k] = IF k = Len(m) THEN e ELSE m[k]
  BY <1>2, <1>4, <1>6, ExceptSeq
<1> HIDE DEF a
<1>8. \A k \in 1 .. Len(m) : EventSeq(m[k], n + 1)
  BY <1>1, <1>2, EventsAre
<1>9. \A k \in 1 .. Len(a) : EventSeq(a[k], n + 1)
  BY <1>5, <1>7, <1>8
<1>10. DataTypes(b, a, n + 1)
  BY <1>2, <1>7, <1>9, TypesWiden DEF Data, DataTypes
<1>11. InOrder(b, n + 1) /\ Backed(b)
  BY DEF Data, InOrder, Backed
<1> QED
  BY <1>3, <1>10, <1>11 DEF Data, a

\* The custom event of a handler.
LEMMA CustomEvent ==
  ASSUME DataInvariant, AddCustomEvent
  PROVE  Data(AddedTo(buffer), matrix', emitted')
<1>1. mode \in {"sampled", "onError"}
  BY DEF DataInvariant, Data, Backed
<1>2. CASE ~Adds
  BY <1>2 DEF AddCustomEvent, AddedTo, DataInvariant
<1>3. CASE Adds /\ mode = "sampled"
  BY <1>3, SampledEvent DEF AddCustomEvent, AddedTo, Adds, DataInvariant
<1>4. CASE Adds /\ mode = "onError"
  BY <1>4, OnErrorEvent DEF AddCustomEvent, AddedTo, Adds, DataInvariant
<1> QED
  BY <1>1, <1>2, <1>3, <1>4

-----------------------------------------------------------------------------
(* Flushing and uploading.                                                 *)

\* Steps that leave events and uploads alone.
LEMMA DataStays ==
  ASSUME NEW b, NEW m, NEW n, Data(b, m, n), buffer' = b, matrix' = m, emitted' = n,
         UNCHANGED <<mode, uploads, segments, pendingError, crossed>>, rec'.disabled = rec.disabled,
         requests' \subseteq requests, minReached => minReached', identified => identified'
  PROVE  DataInvariant'
<1>1. DataTypes(buffer, matrix, emitted)'
  BY DEF Data, DataTypes
<1>2. InOrder(buffer, emitted)'
  BY DEF Data, InOrder, Stored
<1>3. Backed(buffer)'
  BY DEF Data, Backed
<1> QED
  BY <1>1, <1>2, <1>3 DEF DataInvariant, Data

\* A flush of b moves it into the upload.
LEMMA FlushKeeps ==
  ASSUME NEW b, NEW m, NEW n, Data(b, m, n), matrix' = m, emitted' = n,
         FlushOf(b) \/ (buffer' = b /\ UNCHANGED uploads), rec'.disabled = rec.disabled,
         UNCHANGED <<mode, segments, requests, minReached, identified, crossed>>,
         pendingError => pendingError'
  PROVE  DataInvariant'
<1>1. n \in Nat /\ Len(b) \in Nat /\ EventSeq(b, n) /\ b \in Seq(Nat)
  BY DataAre DEF Data, DataTypes
<1>2. CASE buffer' = b /\ uploads' = uploads
  <2>1. DataTypes(buffer, matrix, emitted)' /\ InOrder(buffer, emitted)'
    BY <1>2 DEF Data, DataTypes, InOrder, Stored
  <2>2. Backed(buffer)'
    BY <1>2 DEF Data, Backed
  <2> QED
    BY <2>1, <2>2 DEF DataInvariant, Data
<1>3. CASE Flushable(b) /\ FlushOf(b)
  <2> DEFINE up == [phase |-> "presign", events |-> b, error |-> FALSE]
  <2>1. ~rec.disabled /\ b # <<>> /\ uploads[1] = NoUpload /\ minReached
    BY <1>3 DEF Flushable
  <2>2. buffer' = <<>> /\ uploads' = [uploads EXCEPT ![1] = up]
    BY <1>3 DEF FlushOf, StartUpload, NoUpload
  <2>3. up \in Upload /\ up.events = b /\ ~up.error /\ up.phase = "presign"
    BY <1>1 DEF Upload
  <2> HIDE DEF up
  <2>4. /\ uploads' \in [Slot -> Upload] /\ uploads'[1] = up
        /\ \A u \in Slot \ {1} : uploads'[u] = uploads[u]
    BY <2>2, <2>3 DEF Data, DataTypes, Slot
  <2>5. mode = "sampled" /\ uploads[2] = NoUpload
    BY <2>1 DEF Data, Backed
  <2>6. DataTypes(buffer, matrix, emitted)'
    BY <1>1, <2>1, <2>2, <2>3, <2>4, NoEvents DEF Data, DataTypes
  <2>7. InOrder(buffer, emitted)'
    <3>1. RunOf(b, n) /\ \A x \in 1 .. (n - Len(b) - 0) : Stored(x)
      BY <2>1, <2>5, NoEvents DEF Data, InOrder, NoUpload
    <3>2. \A x \in 1 .. (n - 0 - Len(b)) : Stored(x)'
      <4>1. n - 0 - Len(b) = n - Len(b) - 0
        BY <1>1
      <4>2. \A x : Stored(x) => Stored(x)'
        BY DEF Stored
      <4> QED
        BY <3>1, <4>1, <4>2
    <3>3. n - 0 = n
      BY <1>1
    <3>4. \A i \in 1 .. Len(segments') : Consecutive(segments'[i])
      BY <2>1, <2>5 DEF Data, InOrder
    <3> QED
      BY <2>2, <2>3, <2>4, <3>1, <3>2, <3>3, <3>4, NoEvents DEF InOrder
  <2>8. Backed(buffer)'
    BY <2>1, <2>2, <2>3, <2>4, <2>5 DEF Data, Backed, Slot
  <2> QED
    BY <2>6, <2>7, <2>8 DEF DataInvariant, Data
<1> QED
  BY <1>2, <1>3 DEF FlushOf

\* An upload that is stored extends what the bucket has.
LEMMA SegmentStored ==
  ASSUME segments \in Seq(Seq(Nat)), NEW e \in Seq(Nat), segments' = Append(segments, e)
  PROVE  /\ segments' \in Seq(Seq(Nat)) /\ Len(segments') = Len(segments) + 1 /\ Len(segments) \in Nat
         /\ \A x : Stored(x) => Stored(x)'
         /\ \A j \in 1 .. Len(e) : Stored(e[j])'
         /\ Consecutive(e) /\ (\A i \in 1 .. Len(segments) : Consecutive(segments[i]))
              => \A i \in 1 .. Len(segments') : Consecutive(segments'[i])
<1>1. /\ segments' \in Seq(Seq(Nat)) /\ Len(segments') = Len(segments) + 1 /\ Len(segments) \in Nat
      /\ \A i \in 1 .. Len(segments) : segments'[i] = segments[i] /\ i \in 1 .. Len(segments')
      /\ segments'[Len(segments) + 1] = e /\ Len(segments) + 1 \in 1 .. Len(segments')
  BY AppendProperties, LenProperties
<1>2. \A i \in 1 .. Len(segments') : i \in 1 .. Len(segments) \/ i = Len(segments) + 1
  BY <1>1
<1>3. \A x : Stored(x) => Stored(x)'
  BY <1>1 DEF Stored
<1>4. \A j \in 1 .. Len(e) : Stored(e[j])'
  BY <1>1 DEF Stored
<1>5. Consecutive(e) /\ (\A i \in 1 .. Len(segments) : Consecutive(segments[i]))
              => \A i \in 1 .. Len(segments') : Consecutive(segments'[i])
  BY <1>1, <1>2
<1> QED
  BY <1>1, <1>3, <1>4, <1>5

LEMMA UploadStored ==
  ASSUME DataInvariant, mode = "sampled", ~rec.disabled,
         segments' = Append(segments, uploads[1].events)
  PROVE  /\ \A x \in 1 .. (emitted - Len(buffer)) : Stored(x)'
         /\ \A i \in 1 .. Len(segments') : Consecutive(segments'[i])
<1> DEFINE e == uploads[1].events
           c == emitted - Len(buffer)
<1>1. /\ emitted \in Nat /\ Len(buffer) \in Nat /\ e \in Seq(Nat) /\ Len(e) \in Nat
      /\ segments \in Seq(Seq(Nat))
  BY DataAre DEF DataInvariant, Data, DataTypes, Slot
<1>2. /\ RunOf(e, c) /\ \A x \in 1 .. (c - Len(e)) : Stored(x)
      /\ \A i \in 1 .. Len(segments) : Consecutive(segments[i])
  BY DEF DataInvariant, Data, InOrder
<1>3. c \in Int /\ segments' = Append(segments, e)
  BY <1>1
<1> HIDE DEF e, c
<1>4. Consecutive(e)
  BY <1>1, <1>2, <1>3, RunsAreConsecutive
<1>5. \A i \in 1 .. Len(segments') : Consecutive(segments'[i])
  BY <1>1, <1>2, <1>3, <1>4, SegmentStored
<1>6. ASSUME NEW x \in 1 .. c PROVE Stored(x)'
  <2>1. CASE x \in 1 .. (c - Len(e))
    BY <1>1, <1>2, <1>3, <2>1, SegmentStored
  <2>2. CASE x \notin 1 .. (c - Len(e))
    <3>1. x - (c - Len(e)) \in 1 .. Len(e)
      BY <1>1, <1>3, <2>2
    <3>2. e[x - (c - Len(e))] = c - Len(e) + (x - (c - Len(e)))
      BY <1>2, <3>1 DEF RunOf
    <3>3. e[x - (c - Len(e))] = x
      BY <1>1, <1>3, <3>2
    <3> QED
      BY <1>1, <1>3, <3>1, <3>3, SegmentStored
  <2> QED
    BY <2>1, <2>2
<1> QED
  BY <1>5, <1>6 DEF c

LEMMA PresignedKeeps ==
  ASSUME DataInvariant, NEW u \in Slot, Presigned(u)
  PROVE  DataInvariant'
<1>1. /\ uploads[u].phase = "presign" /\ uploads' = [uploads EXCEPT ![u].phase = "put"] /\ identified' = TRUE
      /\ UNCHANGED <<mode, rec, buffer, matrix, emitted, pendingError, minReached, segments, requests, crossed>>
  BY DEF Presigned
<1>2. uploads \in [Slot -> Upload] /\ uploads[u] # NoUpload
  BY <1>1 DEF DataInvariant, Data, DataTypes, NoUpload
<1>3. /\ uploads' \in [Slot -> Upload] /\ uploads'[u] # NoUpload
      /\ uploads'[u].events = uploads[u].events /\ uploads'[u].error = uploads[u].error
      /\ uploads'[u].phase = "put" /\ \A v \in Slot \ {u} : uploads'[v] = uploads[v]
  BY <1>1, <1>2 DEF Upload, NoUpload
<1>4. \A v \in Slot : /\ uploads'[v].events = uploads[v].events /\ uploads'[v].error = uploads[v].error
                      /\ uploads'[v] = NoUpload <=> uploads[v] = NoUpload
  BY <1>2, <1>3
<1>5. DataTypes(buffer, matrix, emitted)'
  BY <1>1, <1>3, <1>4 DEF DataInvariant, Data, DataTypes
<1>6. InOrder(buffer, emitted)'
  BY <1>1, <1>4 DEF DataInvariant, Data, InOrder, Stored, Slot
<1>7. Backed(buffer)'
  BY <1>1, <1>4 DEF DataInvariant, Data, Backed, Slot
<1> QED
  BY <1>5, <1>6, <1>7 DEF DataInvariant, Data

\* The end of an upload: its slot is free, and its events may be in the bucket.
LEMMA UploadEnds ==
  ASSUME DataInvariant, NEW u \in Slot, uploads[u] # NoUpload, uploads' = [uploads EXCEPT ![u] = NoUpload],
         segments' = segments \/ segments' = Append(segments, uploads[u].events)
  PROVE  /\ uploads[u].events \in Seq(Nat) /\ EventSeq(uploads[u].events, emitted)
         /\ uploads[u].events # <<>> /\ uploads[u].phase # "none"
         /\ uploads' \in [Slot -> Upload] /\ uploads'[u] = NoUpload
         /\ \A v \in Slot \ {u} : uploads'[v] = uploads[v]
         /\ segments' \in Seq(Seq(Nat)) /\ 1 .. Len(segments) \subseteq 1 .. Len(segments')
         /\ \A x : Stored(x) => Stored(x)'
<1>1. /\ uploads \in [Slot -> Upload] /\ segments \in Seq(Seq(Nat))
      /\ EventSeq(uploads[u].events, emitted) /\ uploads[u].events # <<>> /\ uploads[u].phase # "none"
  BY DEF DataInvariant, Data, DataTypes
<1>2. uploads[u].events \in Seq(Nat)
  BY <1>1 DEF EventSeq
<1>3. NoUpload \in Upload
  BY NoEvents DEF NoUpload, Upload
<1>4. segments' \in Seq(Seq(Nat)) /\ 1 .. Len(segments) \subseteq 1 .. Len(segments')
      /\ \A x : Stored(x) => Stored(x)'
  <2>1. CASE segments' = segments
    BY <1>1, <2>1 DEF Stored
  <2>2. CASE segments' = Append(segments, uploads[u].events)
    <3>1. /\ segments' \in Seq(Seq(Nat)) /\ Len(segments') = Len(segments) + 1 /\ Len(segments) \in Nat
          /\ \A x : Stored(x) => Stored(x)'
      BY <1>1, <1>2, <2>2, SegmentStored
    <3> QED
      BY <3>1
  <2> QED
    BY <2>1, <2>2
<1> QED
  BY <1>1, <1>2, <1>3, <1>4

\* The slot of an upload of the buffer.
LEMMA UploadKind ==
  ASSUME DataInvariant, NEW u \in Slot, uploads[u] # NoUpload
  PROVE  /\ ~rec.disabled
         /\ uploads[u].error => mode = "onError"
         /\ ~uploads[u].error => mode = "sampled" /\ u = 1 /\ minReached
         /\ mode = "sampled" => ~uploads[u].error
         /\ mode = "onError" /\ ~crossed => pendingError /\ \A v \in Slot \ {u} : uploads[v] = NoUpload
         /\ uploads[u].phase = "put" => identified
  BY DEF DataInvariant, Data, Backed, Slot

\* A segment that is stored is finalized, and once it is, so is its error.
LEMMA Finalized ==
  ASSUME DataInvariant, NEW u \in Slot, uploads[u].phase = "put", FinalizeSession(u),
         segments' = Append(segments, uploads[u].events)
  PROVE  /\ ~crossed => requests' # requests
         /\ \A q \in requests' : q.n \in Nat /\ q.ended \in 1 .. emitted /\ q.id \in 1 .. Len(segments')
<1> DEFINE e == uploads[u].events
           q == [id |-> Len(segments) + 1, n |-> Len(e), ended |-> Last(e)]
<1>1. uploads[u] # NoUpload
  BY DEF NoUpload
<1>2. EventSeq(e, emitted) /\ e # <<>> /\ emitted \in Nat /\ segments \in Seq(Seq(Nat)) /\ e \in Seq(Nat)
  BY <1>1, DataAre DEF DataInvariant, Data, DataTypes
<1>3. Len(e) \in Nat /\ Last(e) \in 1 .. emitted
  BY <1>2, EventsAre
<1>4. Len(segments) \in Nat /\ Len(segments') = Len(segments) + 1
  BY <1>2, SegmentStored
<1>5. \A r \in requests : r.n \in Nat /\ r.ended \in 1 .. emitted /\ r.id \in 1 .. Len(segments)
  BY DEF DataInvariant, Data, DataTypes
<1>6. requests' = requests \cup {q} \/ requests' = requests
  BY DEF FinalizeSession
<1>7. ~crossed => requests' = requests \cup {q}
  BY <1>1, UploadKind DEF FinalizeSession, DataInvariant, Data, Backed
<1>8. q.id = Len(segments) + 1 /\ q.n = Len(e) /\ q.ended = Last(e)
  OBVIOUS
<1> HIDE DEF e, q
<1>9. q.id \notin 1 .. Len(segments) /\ q.id \in 1 .. Len(segments')
  BY <1>4, <1>8
<1>10. q \notin requests
  BY <1>5, <1>9
<1>11. \A r \in requests : r.id \in 1 .. Len(segments')
  BY <1>4, <1>5
<1> QED
  BY <1>3, <1>5, <1>6, <1>7, <1>8, <1>9, <1>10, <1>11

LEMMA UploadedKeeps ==
  ASSUME DataInvariant, FlagsOK(rec, lateStart), lateStart \in BOOLEAN, NEW u \in Slot, Uploaded(u)
  PROVE  DataInvariant' /\ FlagsOK(rec', lateStart)
<1>1. /\ uploads[u].phase = "put" /\ segments' = Append(segments, uploads[u].events) /\ FinalizeSession(u)
      /\ uploads' = [uploads EXCEPT ![u] = NoUpload]
      /\ UNCHANGED <<mode, buffer, emitted, identified, minReached, crossed>>
  BY DEF Uploaded, StoreSegment
<1>2. uploads[u] # NoUpload
  BY <1>1 DEF NoUpload
<1>3. /\ uploads[u].events \in Seq(Nat) /\ EventSeq(uploads[u].events, emitted)
      /\ uploads' \in [Slot -> Upload] /\ uploads'[u] = NoUpload
      /\ \A v \in Slot \ {u} : uploads'[v] = uploads[v]
      /\ segments' \in Seq(Seq(Nat)) /\ (\A x : Stored(x) => Stored(x)')
  BY <1>1, <1>2, UploadEnds
<1>4. ~rec.disabled
  BY <1>2, UploadKind
<1>5. FlagsOK(rec', lateStart) /\ ~rec'.disabled
  <2>1. CASE uploads[u].error
    BY <1>4, <2>1 DEF Uploaded
  <2>2. CASE ~uploads[u].error
    <3> DEFINE r == [rec EXCEPT !.failures = 0]
    <3>1. rec' = AfterFlush(r, buffer)
      BY <2>2 DEF Uploaded
    <3>2. FlagsOK(r, lateStart) /\ r.disabled = FALSE
      BY <1>4, FailureOK
    <3> HIDE DEF r
    <3> QED
      BY <3>1, <3>2, AfterFlushOK
  <2> QED
    BY <2>1, <2>2
<1>6. matrix' = matrix \/ matrix' = <<<<>>>>
  BY DEF Uploaded
<1>7. /\ matrix' \in Seq(Seq(Nat)) /\ Len(matrix') \in {1, 2}
      /\ \A k \in 1 .. Len(matrix') : EventSeq(matrix'[k], emitted)
  <2>1. CASE matrix' = matrix
    BY <2>1 DEF DataInvariant, Data, DataTypes
  <2>2. CASE matrix' = <<<<>>>>
    <3>1. matrix' \in Seq(Seq(Nat)) /\ Len(matrix') = 1 /\ matrix'[1] = <<>>
      BY <2>2, NoEvents
    <3> QED
      BY <3>1, NoEvents
  <2> QED
    BY <1>6, <2>1, <2>2
<1>8. \A q \in requests' : q.n \in Nat /\ q.ended \in 1 .. emitted /\ q.id \in 1 .. Len(segments')
  BY <1>1, Finalized
<1>9. NoUpload.events = <<>> /\ NoUpload.phase = "none" /\ ~NoUpload.error
  BY DEF NoUpload
<1>10. DataTypes(buffer, matrix, emitted)'
  <2>1. emitted' \in 0 .. MaxEvents /\ EventSeq(buffer', emitted')
    BY <1>1 DEF DataInvariant, Data, DataTypes
  <2>2. \A v \in Slot : /\ EventSeq(uploads'[v].events, emitted')
                        /\ uploads'[v] = NoUpload \/ (uploads'[v].phase # "none" /\ uploads'[v].events # <<>>)
    BY <1>1, <1>3, <1>9, NoEvents DEF DataInvariant, Data, DataTypes
  <2> QED
    BY <1>1, <1>3, <1>7, <1>8, <2>1, <2>2 DEF DataTypes
<1>11. InOrder(buffer, emitted)'
  <2> SUFFICES ASSUME mode = "sampled"
               PROVE  /\ RunOf(buffer, emitted) /\ RunOf(uploads'[1].events, emitted - Len(buffer))
                      /\ \A x \in 1 .. (emitted - Len(buffer) - Len(uploads'[1].events)) : Stored(x)'
                      /\ \A i \in 1 .. Len(segments') : Consecutive(segments'[i])
    BY <1>1 DEF InOrder
  <2>1. u = 1
    BY <1>2, UploadKind
  <2>2. RunOf(buffer, emitted)
    BY <1>4 DEF DataInvariant, Data, InOrder
  <2>3. uploads'[1].events = <<>>
    BY <1>3, <1>9, <2>1
  <2>4. /\ \A x \in 1 .. (emitted - Len(buffer)) : Stored(x)'
        /\ \A i \in 1 .. Len(segments') : Consecutive(segments'[i])
    BY <1>1, <1>4, <2>1, UploadStored
  <2>5. emitted - Len(buffer) - 0 = emitted - Len(buffer)
    BY DataAre DEF DataInvariant, Data
  <2> QED
    BY <2>2, <2>3, <2>4, <2>5, NoEvents
<1>12. Backed(buffer)'
  <2>1. mode = "onError" /\ ~crossed => \A v \in Slot : uploads'[v] = NoUpload
    BY <1>2, <1>3, UploadKind
  <2>2. \A v \in Slot : uploads'[v] # NoUpload => v # u /\ uploads'[v] = uploads[v]
    BY <1>3
  <2> QED
    BY <1>1, <1>3, <1>4, <1>5, <1>9, <2>1, <2>2 DEF DataInvariant, Data, Backed, Slot
<1> QED
  BY <1>5, <1>10, <1>11, <1>12 DEF DataInvariant, Data

LEMMA UploadFailsKeeps ==
  ASSUME DataInvariant, FlagsOK(rec, lateStart), lateStart \in BOOLEAN,
         NEW u \in Slot, NEW stored \in BOOLEAN, UploadFails(u, stored)
  PROVE  DataInvariant' /\ FlagsOK(rec', lateStart)
<1> DEFINE e == uploads[u].events
<1>1. /\ uploads[u] # NoUpload /\ (segments' = segments \/ segments' = Append(segments, e))
      /\ uploads' = [uploads EXCEPT ![u] = NoUpload]
      /\ UNCHANGED <<mode, matrix, emitted, identified, minReached, requests, crossed>>
  BY DEF UploadFails, StoreSegment
<1>2. /\ e \in Seq(Nat) /\ EventSeq(e, emitted)
      /\ uploads' \in [Slot -> Upload] /\ uploads'[u] = NoUpload
      /\ \A v \in Slot \ {u} : uploads'[v] = uploads[v]
      /\ segments' \in Seq(Seq(Nat)) /\ 1 .. Len(segments) \subseteq 1 .. Len(segments')
      /\ \A x : Stored(x) => Stored(x)'
  BY <1>1, UploadEnds
<1>3. NoUpload.events = <<>> /\ NoUpload.phase = "none" /\ ~NoUpload.error
  BY DEF NoUpload
<1>4. /\ ~rec.disabled /\ (uploads[u].error => mode = "onError")
      /\ ~uploads[u].error => mode = "sampled" /\ u = 1
      /\ mode = "onError" /\ ~crossed => \A v \in Slot : uploads'[v] = NoUpload
  BY <1>1, <1>2, UploadKind
<1>5. emitted \in Nat /\ Len(buffer) \in Nat /\ EventSeq(buffer, emitted) /\ Len(e) \in Nat
  BY DataAre DEF DataInvariant, Data, DataTypes
<1>6. ASSUME EventSeq(buffer', emitted) PROVE DataTypes(buffer, matrix, emitted)'
  <2>1. /\ emitted' \in 0 .. MaxEvents
        /\ matrix' \in Seq(Seq(Nat)) /\ Len(matrix') \in {1, 2}
        /\ \A k \in 1 .. Len(matrix') : EventSeq(matrix'[k], emitted')
    BY <1>1 DEF DataInvariant, Data, DataTypes
  <2>2. \A v \in Slot : /\ EventSeq(uploads'[v].events, emitted')
                        /\ uploads'[v] = NoUpload \/ (uploads'[v].phase # "none" /\ uploads'[v].events # <<>>)
    BY <1>1, <1>2, <1>3, NoEvents DEF DataInvariant, Data, DataTypes
  <2>3. \A q \in requests' : q.n \in Nat /\ q.ended \in 1 .. emitted' /\ q.id \in 1 .. Len(segments')
    BY <1>1, <1>2 DEF DataInvariant, Data, DataTypes
  <2> QED
    BY <1>1, <1>2, <1>6, <2>1, <2>2, <2>3 DEF DataTypes
<1>7. \A v \in Slot : uploads'[v] # NoUpload => v # u /\ uploads'[v] = uploads[v]
  BY <1>2
<1>8. CASE uploads[u].error
  <2>1. UNCHANGED <<rec, buffer>> /\ pendingError' = FALSE
    BY <1>8 DEF UploadFails
  <2>2. Backed(buffer)'
    BY <1>1, <1>3, <1>4, <1>7, <1>8, <2>1 DEF DataInvariant, Data, Backed, Slot
  <2>3. InOrder(buffer, emitted)'
    BY <1>1, <1>4, <1>8, <2>1 DEF InOrder, DataInvariant, Data, Backed
  <2> QED
    BY <1>5, <1>6, <2>1, <2>2, <2>3 DEF DataInvariant, Data
<1>9. CASE ~uploads[u].error
  <2>1. FlushError(e) /\ mode = "sampled" /\ u = 1
    BY <1>4, <1>9 DEF UploadFails
  <2>2. \A v \in Slot : uploads'[v] = NoUpload
    BY <1>2, <2>1 DEF DataInvariant, Data, Backed, Slot
  <2>3. Backed(buffer)'
    BY <1>1, <1>3, <2>1, <2>2 DEF Backed, Slot
  <2>4. CASE rec.failures + 1 < MaxFlushErrors
    <3> DEFINE r == [rec EXCEPT !.failures = @ + 1]
    <3>1. buffer' = e \o buffer /\ rec' = AfterFlush(r, e \o buffer)
      BY <2>1, <2>4 DEF FlushError
    <3>2. FlagsOK(r, lateStart) /\ r.disabled = FALSE
      BY <1>4, <2>4, FailureOK
    <3> HIDE DEF r
    <3>3. FlagsOK(rec', lateStart) /\ ~rec'.disabled
      BY <3>1, <3>2, AfterFlushOK
    <3>4. EventSeq(buffer', emitted) /\ Len(buffer') = Len(e) + Len(buffer)
      BY <1>2, <1>5, <3>1, EventsJoined
    <3>5. /\ RunOf(buffer, emitted) /\ RunOf(e, emitted - Len(buffer))
          /\ \A x \in 1 .. (emitted - Len(buffer) - Len(e)) : Stored(x)
          /\ \A i \in 1 .. Len(segments) : Consecutive(segments[i])
      BY <1>4, <2>1 DEF DataInvariant, Data, InOrder
    <3>6. RunOf(buffer', emitted)
      BY <1>2, <1>5, <3>1, <3>5, EventsJoined
    <3>7. emitted - Len(buffer') - 0 = emitted - Len(buffer) - Len(e)
      BY <1>5, <3>4
    <3>8. \A i \in 1 .. Len(segments') : Consecutive(segments'[i])
      BY <1>1, <1>4, <2>1, <3>5, UploadStored
    <3>9. uploads'[1].events = <<>>
      BY <1>3, <2>2 DEF Slot
    <3>10. InOrder(buffer, emitted)'
      BY <1>1, <1>2, <3>5, <3>6, <3>7, <3>8, <3>9, NoEvents DEF InOrder
    <3> QED
      BY <1>6, <2>3, <3>3, <3>4, <3>10 DEF DataInvariant, Data
  <2>5. CASE ~(rec.failures + 1 < MaxFlushErrors)
    <3> DEFINE r == [rec EXCEPT !.failures = @ + 1, !.disabled = TRUE]
    <3>1. buffer' = <<>> /\ rec' = (IF rec.stopping = "no" THEN Stopped(Halted(r)) ELSE AfterFlush(r, <<>>))
      BY <2>1, <2>5 DEF FlushError
    <3>2. FlagsOK(r, lateStart) /\ r.disabled = TRUE
      BY <1>4, FailureOK
    <3> HIDE DEF r
    <3>3. FlagsOK(Stopped(Halted(r)), lateStart) /\ Stopped(Halted(r)).disabled = TRUE
      BY <3>2, HaltedOK, StoppedOK
    <3>4. FlagsOK(rec', lateStart) /\ rec'.disabled = TRUE
      BY <3>1, <3>2, <3>3, AfterFlushOK
    <3>5. InOrder(buffer, emitted)'
      BY <3>4 DEF InOrder
    <3> QED
      BY <1>6, <2>3, <3>1, <3>4, <3>5, NoEvents DEF DataInvariant, Data
  <2> QED
    BY <2>4, <2>5
<1> QED
  BY <1>8, <1>9

LEMMA ErrorFlushKeeps ==
  ASSUME DataInvariant, ErrorFlush
  PROVE  DataInvariant'
<1>1. UNCHANGED <<mode, rec, matrix, emitted, identified, minReached, segments, requests>>
  BY DEF ErrorFlush
<1>2. CASE mode = "sampled"
  <2>1. FlushOf(buffer) /\ pendingError' = TRUE /\ UNCHANGED crossed
    BY <1>2 DEF ErrorFlush
  <2> QED
    BY <1>1, <2>1, FlushKeeps DEF DataInvariant
<1>3. CASE UNCHANGED <<pendingError, buffer, uploads, crossed>>
  BY <1>1, <1>3, DataStays DEF DataInvariant
<1>4. CASE /\ mode = "onError" /\ MatrixEvents # <<>> /\ pendingError' = TRUE /\ UNCHANGED buffer
           /\ \E u \in Slot : uploads[u] = NoUpload /\ StartUpload(u, MatrixEvents, TRUE)
           /\ crossed' = (crossed \/ \E u \in Slot : uploads[u] # NoUpload)
  <2> DEFINE e == MatrixEvents
             up == [phase |-> "presign", events |-> e, error |-> TRUE]
  <2>1. PICK u \in Slot : uploads[u] = NoUpload /\ uploads' = [uploads EXCEPT ![u] = up]
    BY <1>4 DEF StartUpload, NoUpload
  <2>2. emitted \in Nat /\ Len(matrix) \in {1, 2} /\ \A k \in 1 .. Len(matrix) : EventSeq(matrix[k], emitted)
    BY DataAre DEF DataInvariant, Data, DataTypes
  <2>3. EventSeq(e, emitted)
    BY <2>2, EventsJoined DEF MatrixEvents
  <2>4. e # <<>>
    BY <1>4
  <2> HIDE DEF e
  <2>5. up \in Upload /\ up.events = e /\ up.error = TRUE /\ up.phase = "presign" /\ up # NoUpload
    BY <2>3 DEF Upload, EventSeq, NoUpload
  <2> HIDE DEF up
  <2>6. /\ uploads' \in [Slot -> Upload] /\ uploads'[u] = up
        /\ \A v \in Slot \ {u} : uploads'[v] = uploads[v]
    BY <2>1, <2>5 DEF DataInvariant, Data, DataTypes
  <2>7. DataTypes(buffer, matrix, emitted)'
    <3>1. \A v \in Slot : /\ EventSeq(uploads'[v].events, emitted)
                          /\ uploads'[v] = NoUpload \/ (uploads'[v].phase # "none" /\ uploads'[v].events # <<>>)
      BY <2>3, <2>4, <2>5, <2>6 DEF DataInvariant, Data, DataTypes
    <3> QED
      BY <1>1, <1>4, <2>6, <3>1 DEF DataInvariant, Data, DataTypes
  <2>8. InOrder(buffer, emitted)'
    BY <1>1, <1>4 DEF InOrder
  <2>9. ~crossed' => \A v \in Slot : uploads[v] = NoUpload
    BY <1>4
  <2>10. Backed(buffer)'
    BY <1>1, <1>4, <2>5, <2>6, <2>9 DEF DataInvariant, Data, Backed, Slot
  <2> QED
    BY <2>7, <2>8, <2>10 DEF DataInvariant, Data
<1> QED
  BY <1>2, <1>3, <1>4 DEF ErrorFlush

-----------------------------------------------------------------------------
(* The steps of the recorder.                                              *)

RecorderInvariant == PlainTypes /\ DataInvariant /\ FlagsOK(rec, lateStart) /\ lateStart \in BOOLEAN

LEMMA RecorderInit == Init => RecorderInvariant
<1> SUFFICES ASSUME Init PROVE RecorderInvariant
  OBVIOUS
<1>1. MaxFlushErrors \in Nat \ {0} /\ MaxEvents \in Nat
  BY RecorderAssumption DEF RecorderAssumption
<1>2. PlainTypes /\ lateStart \in BOOLEAN
  BY DEF Init, PlainTypes
<1>3. FlagsOK(rec, lateStart)
  BY <1>1 DEF Init, FlagsOK, Flags, NewRecorder
<1>4. /\ uploads \in [Slot -> Upload] /\ \A u \in Slot : uploads[u] = NoUpload
      /\ NoUpload.events = <<>> /\ ~NoUpload.error /\ NoUpload.phase = "none"
  BY NoEvents DEF Init, NoUpload, Upload
<1>5. segments = <<>> /\ segments \in Seq(Seq(Nat)) /\ Len(segments) = 0
  BY EmptySeq DEF Init
<1>6. /\ matrix \in Seq(Seq(Nat)) /\ Len(matrix) = 1 /\ matrix[1] = <<>>
  BY NoEvents DEF Init
<1>7. DataTypes(buffer, matrix, emitted)
  BY <1>1, <1>4, <1>5, <1>6, NoEvents DEF Init, DataTypes
<1>8. InOrder(buffer, emitted)
  BY <1>4, <1>5, NoEvents DEF Init, InOrder, Slot
<1>9. Backed(buffer)
  BY <1>4 DEF Init, Backed, NewRecorder, Slot
<1> QED
  BY <1>2, <1>3, <1>7, <1>8, <1>9 DEF RecorderInvariant, DataInvariant, Data

LEMMA EmitKeeps ==
  ASSUME DataInvariant, NEW checkout \in BOOLEAN, Emit(checkout)
  PROVE  DataInvariant'
<1>1. Data(buffer', matrix', emitted')
  <2>1. mode \in {"sampled", "onError"}
    BY DEF DataInvariant, Data, Backed
  <2>2. CASE mode = "sampled"
    BY <2>2, SampledEvent DEF Emit, DataInvariant
  <2>3. CASE mode = "onError"
    BY <2>3, OnErrorEvent DEF Emit, DataInvariant
  <2> QED
    BY <2>1, <2>2, <2>3
<1> QED
  BY <1>1, DataStays DEF Emit

LEMMA NavigateKeeps ==
  ASSUME RecorderInvariant, NEW to \in {"on", "off"}, Navigate(to)
  PROVE  RecorderInvariant'
<1>1. /\ DataInvariant /\ FlagsOK(rec, lateStart) /\ lateStart \in BOOLEAN
      /\ page' = to
      /\ UNCHANGED <<consent, script, mode, identified, dueError, pendingError, minReached,
                     segments, requests, faults, crossed, lateStart>>
  BY DEF RecorderInvariant, Navigate
<1>2. PlainTypes' /\ lateStart' \in BOOLEAN
  BY <1>1 DEF RecorderInvariant, PlainTypes
<1>3. CASE UNCHANGED <<rec, buffer, matrix, emitted, uploads>>
  <2>1. DataInvariant'
    BY <1>1, <1>3, DataStays DEF DataInvariant
  <2> QED
    BY <1>1, <1>2, <1>3, <2>1 DEF RecorderInvariant
<1>4. CASE rec' = [rec EXCEPT !.deferred = @ + 1] /\ UNCHANGED <<buffer, matrix, emitted, uploads>>
  <2>1. FlagsOK(rec', lateStart) /\ rec'.disabled = rec.disabled
    BY <1>1, <1>4, DeferredOK
  <2>2. DataInvariant'
    BY <1>1, <1>4, <2>1, DataStays DEF DataInvariant
  <2> QED
    BY <1>1, <1>2, <2>1, <2>2 DEF RecorderInvariant
<1>5. CASE AddCustomEvent /\ buffer' = AddedTo(buffer) /\ UNCHANGED <<rec, uploads>>
  <2>1. Data(buffer', matrix', emitted')
    BY <1>1, <1>5, CustomEvent
  <2>2. DataInvariant'
    BY <1>1, <1>5, <2>1, DataStays
  <2> QED
    BY <1>1, <1>2, <1>5, <2>2 DEF RecorderInvariant
<1>6. CASE AddCustomEvent /\ StopRecording(AddedTo(buffer))
  <2>1. PICK b : b = AddedTo(buffer)
    OBVIOUS
  <2>2. Data(b, matrix', emitted')
    BY <1>1, <1>6, <2>1, CustomEvent
  <2>3. /\ FlagsOK(rec', lateStart) /\ rec'.disabled = rec.disabled
        /\ FlushOf(b) \/ (buffer' = b /\ UNCHANGED uploads)
    BY <1>1, <1>6, <2>1, StopOK
  <2>4. DataInvariant'
    BY <1>1, <2>2, <2>3, FlushKeeps
  <2> QED
    BY <1>1, <1>2, <2>3, <2>4 DEF RecorderInvariant
<1> QED
  BY <1>3, <1>4, <1>5, <1>6 DEF Navigate

LEMMA StopsKeep ==
  ASSUME RecorderInvariant, Stop \/ StopStep \/ Flush \/ RevokeConsent
  PROVE  RecorderInvariant'
<1>1. /\ DataInvariant /\ FlagsOK(rec, lateStart) /\ lateStart \in BOOLEAN
      /\ UNCHANGED <<script, mode, page, matrix, emitted, identified, pendingError, minReached,
                     segments, requests, crossed, lateStart>>
      /\ consent' = consent \/ consent' = FALSE
  BY DEF RecorderInvariant, Stop, StopStep, Flush, RevokeConsent
<1>2. PlainTypes' /\ lateStart' \in BOOLEAN
  BY <1>1 DEF RecorderInvariant, PlainTypes
<1>3. CASE StopRecording(buffer)
  <2>1. /\ FlagsOK(rec', lateStart) /\ rec'.disabled = rec.disabled
        /\ FlushOf(buffer) \/ (buffer' = buffer /\ UNCHANGED uploads)
    BY <1>1, <1>3, StopOK
  <2> QED
    BY <1>1, <1>2, <2>1, FlushKeeps DEF RecorderInvariant, DataInvariant
<1>4. CASE UNCHANGED <<rec, buffer, uploads>>
  BY <1>1, <1>2, <1>4, DataStays DEF RecorderInvariant, DataInvariant
<1>5. CASE Flush
  BY <1>1, <1>2, <1>5, FlushKeeps DEF Flush, RecorderInvariant, DataInvariant
<1>6. CASE StopStep
  <2>1. ~lateStart => rec.live = 0
    BY <1>1, <1>6 DEF StopStep, FlagsOK
  <2>2. rec' = (IF MoreToFlush(rec, buffer) THEN [rec EXCEPT !.stopping = "flushing"] ELSE Stopped(rec))
        /\ FlushOf(buffer)
    BY <1>6 DEF StopStep
  <2>3. FlagsOK(rec', lateStart) /\ rec'.disabled = rec.disabled
    BY <1>1, <2>1, <2>2, StoppedOK, StoppingOK
  <2> QED
    BY <1>1, <1>2, <2>2, <2>3, FlushKeeps DEF RecorderInvariant, DataInvariant
<1> QED
  BY <1>3, <1>4, <1>5, <1>6 DEF Stop, RevokeConsent

LEMMA RecorderStep ==
  ASSUME RecorderInvariant, RecorderNext
  PROVE  RecorderInvariant'
<1>1. PlainTypes /\ DataInvariant /\ FlagsOK(rec, lateStart) /\ lateStart \in BOOLEAN
  BY DEF RecorderInvariant
<1>2. ASSUME NEW checkout \in BOOLEAN, Emit(checkout) PROVE RecorderInvariant'
  BY <1>1, <1>2, EmitKeeps DEF Emit, RecorderInvariant, PlainTypes
<1>3. CASE Start
  <2>1. DataInvariant'
    BY <1>1, <1>3, StartedOK, DataStays DEF Start, DataInvariant
  <2> QED
    BY <1>1, <1>3, <2>1, StartedOK DEF Start, RecorderInvariant, PlainTypes
<1>4. CASE MinDurationPasses
  <2>1. DataInvariant'
    BY <1>1, <1>4, DataStays DEF MinDurationPasses, DataInvariant
  <2> QED
    BY <1>1, <1>4, <2>1 DEF MinDurationPasses, RecorderInvariant, PlainTypes
<1>5. CASE UploadStep
  <2>1. PICK u \in Slot : Presigned(u) \/ Uploaded(u)
    BY <1>5 DEF UploadStep
  <2>2. CASE Presigned(u)
    BY <1>1, <2>2, PresignedKeeps DEF Presigned, RecorderInvariant, PlainTypes
  <2>3. CASE Uploaded(u)
    BY <1>1, <2>3, UploadedKeeps DEF Uploaded, RecorderInvariant, PlainTypes
  <2> QED
    BY <2>1, <2>2, <2>3
<1>6. ASSUME NEW u \in Slot, NEW stored \in BOOLEAN, UploadFails(u, stored) PROVE RecorderInvariant'
  BY <1>1, <1>6, UploadFailsKeeps DEF UploadFails, RecorderInvariant, PlainTypes
<1>7. CASE NotifyError
  <2>1. UNCHANGED <<consent, script, mode, page, rec, uploads, identified, pendingError,
                    minReached, segments, requests, crossed, lateStart>>
    BY <1>7 DEF NotifyError
  <2>2. Data(buffer', matrix', emitted')
    BY <1>1, <1>7, CustomEvent DEF NotifyError, DataInvariant
  <2>3. DataInvariant'
    BY <2>1, <2>2, DataStays
  <2> QED
    BY <1>1, <2>1, <2>3 DEF RecorderInvariant, PlainTypes
<1>8. CASE ErrorFlush
  BY <1>1, <1>8, ErrorFlushKeeps DEF ErrorFlush, RecorderInvariant, PlainTypes
<1>9. CASE GrantConsent
  <2>1. DataInvariant'
    BY <1>1, <1>9, DataStays DEF GrantConsent, DataInvariant
  <2>2. PlainTypes'
    BY <1>1, <1>9 DEF GrantConsent, PlainTypes
  <2> QED
    BY <1>1, <1>9, <2>1, <2>2 DEF GrantConsent, RecorderInvariant
<1>10. CASE ScriptRuns
  <2>1. FlagsOK(rec', lateStart) /\ rec'.disabled = rec.disabled
    BY <1>1, <1>10, DeferredOK DEF ScriptRuns
  <2>2. DataInvariant'
    BY <1>1, <1>10, <2>1, DataStays DEF ScriptRuns, DataInvariant
  <2> QED
    BY <1>1, <1>10, <2>1, <2>2 DEF ScriptRuns, RecorderInvariant, PlainTypes
<1> QED
  BY <1>2, <1>3, <1>4, <1>5, <1>6, <1>7, <1>8, <1>9, <1>10, StopsKeep, NavigateKeeps DEF RecorderNext

\* A step of the backend takes or loses requests and leaves the recorder alone.
LEMMA BackendKeeps ==
  ASSUME RecorderInvariant, BackendNext
  PROVE  RecorderInvariant' /\ emitted' = emitted
<1>1. PlainTypes /\ DataInvariant /\ FlagsOK(rec, lateStart) /\ lateStart \in BOOLEAN
  BY DEF RecorderInvariant
<1>2. /\ UNCHANGED <<consent, script, mode, page, rec, buffer, matrix, emitted, uploads,
                     identified, pendingError, minReached, segments, crossed, lateStart>>
      /\ requests' \subseteq requests
  BY DEF BackendNext, Receive, Upserted, CacheTotals, UpsertFails, RequestLost, BackendRestarts, recorderVars
<1>3. DataInvariant'
  BY <1>1, <1>2, DataStays DEF DataInvariant
<1> QED
  BY <1>1, <1>2, <1>3 DEF RecorderInvariant, PlainTypes

LEMMA EmittedGrows ==
  ASSUME RecorderInvariant, RecorderNext
  PROVE  emitted \in Nat /\ (emitted' = emitted \/ emitted' = emitted + 1)
<1>1. emitted \in Nat
  BY RecorderAssumption DEF RecorderAssumption, RecorderInvariant, DataInvariant, Data, DataTypes
<1>2. ASSUME NEW u \in Slot, Presigned(u) \/ Uploaded(u) PROVE emitted' = emitted
  BY <1>2 DEF Presigned, Uploaded
<1>3. ASSUME NEW to \in {"on", "off"}, Navigate(to) PROVE emitted' = emitted \/ emitted' = emitted + 1
  BY <1>3 DEF Navigate, AddCustomEvent
<1>4. ASSUME NEW u \in Slot, NEW stored \in BOOLEAN, UploadFails(u, stored) PROVE emitted' = emitted
  BY <1>4 DEF UploadFails
<1>5. ASSUME NEW checkout \in BOOLEAN, Emit(checkout) PROVE emitted' = emitted + 1
  BY <1>5 DEF Emit
<1>6. Start \/ Flush \/ Stop \/ StopStep \/ MinDurationPasses => emitted' = emitted
  BY DEF Start, Flush, Stop, StopStep, MinDurationPasses
<1>7. ErrorFlush \/ GrantConsent \/ RevokeConsent \/ ScriptRuns => emitted' = emitted
  BY DEF ErrorFlush, GrantConsent, RevokeConsent, ScriptRuns
<1>8. NotifyError => emitted' = emitted \/ emitted' = emitted + 1
  BY DEF NotifyError, AddCustomEvent
<1> QED
  BY <1>1, <1>2, <1>3, <1>4, <1>5, <1>6, <1>7, <1>8 DEF RecorderNext, UploadStep

-----------------------------------------------------------------------------
(* The totals of the session.                                              *)

LEMMA TotalsInit == ReplayInit => TotalsInvariant
<1> SUFFICES ASSUME ReplayInit PROVE TotalsInvariant
  OBVIOUS
<1>1. emitted = 0 /\ NoMeta \in Meta(0) /\ NoMeta.n = 0
  BY DEF ReplayInit, Init, Meta, NoMeta
<1>2. Idle \in TaskRecord(0) /\ Idle.step = "idle" /\ Idle.meta = NoMeta
  BY <1>1 DEF Idle, TaskRecord
<1>3. task \in [Tasks -> TaskRecord(0)] /\ \A t \in Tasks : task[t] = Idle
  BY <1>2 DEF ReplayInit
<1>4. \A t \in Tasks : task[t].step = "idle" /\ task[t].meta.n = 0
  BY <1>1, <1>2, <1>3
<1>5. cache = NoMeta /\ row = NoMeta /\ received = 0 /\ disturbed = FALSE
  BY DEF ReplayInit
<1>6. /\ received \in Nat /\ cache \in Meta(emitted) /\ row \in Meta(emitted)
      /\ cache.n <= received /\ row.n <= received /\ row = cache /\ row.n = received
  <2>1. received \in Nat /\ cache = row /\ row = NoMeta /\ received = 0
    BY <1>5
  <2>2. row \in Meta(emitted) /\ row.n = 0
    BY <1>1, <2>1
  <2> QED
    BY <2>1, <2>2
<1>9. disturbed \in BOOLEAN
  BY <1>5
<1>7. task \in [Tasks -> TaskRecord(emitted)]
  BY <1>1, <1>3
<1>8. \A t \in Tasks : task[t].meta.n <= received /\ task[t].step = "idle"
  BY <1>4, <1>5
<1> QED
  BY <1>6, <1>7, <1>8, <1>9 DEF TotalsInvariant

LEMMA TotalsStay ==
  ASSUME TotalsInvariant, UNCHANGED backendVars, emitted \in Nat, emitted' = emitted \/ emitted' = emitted + 1
  PROVE  TotalsInvariant'
<1>1. UNCHANGED <<cache, row, task, received, disturbed>>
  BY DEF backendVars
<1>2. 0 .. emitted \subseteq 0 .. emitted'
  OBVIOUS
<1>3. Meta(emitted) \subseteq Meta(emitted')
  BY <1>2 DEF Meta
<1>4. TaskRecord(emitted) \subseteq TaskRecord(emitted')
  BY <1>3 DEF TaskRecord
<1>5. cache' \in Meta(emitted') /\ row' \in Meta(emitted') /\ task' \in [Tasks -> TaskRecord(emitted')]
  BY <1>1, <1>3, <1>4 DEF TotalsInvariant
<1>6. Busy' = Busy
  BY <1>1 DEF Busy
<1> QED
  BY <1>1, <1>5, <1>6 DEF TotalsInvariant

\* Adding a request of the session gives totals that end no earlier.
LEMMA AddedTotals ==
  ASSUME NEW n \in Nat, NEW m \in Meta(n), NEW q, q.n \in Nat, q.ended \in 1 .. n
  PROVE  Added(m, q) \in Meta(n) /\ Added(m, q).n = m.n + q.n /\ m.ended <= Added(m, q).ended
  BY DEF Meta, Added, Later

LEMMA ReplacedTotals ==
  ASSUME NEW n \in Nat, NEW a \in Meta(n), NEW b \in Meta(n)
  PROVE  /\ Replaced(a, b) \in Meta(n) /\ Replaced(a, b) \in {a, b}
         /\ a.ended <= b.ended => Replaced(a, b) = b
  BY DEF Meta, Replaced

LEMMA ReceiveKeeps ==
  ASSUME TotalsInvariant, emitted \in Nat, NEW t \in Tasks, NEW q, q.n \in Nat, q.ended \in 1 .. emitted,
         Receive(t, q)
  PROVE  TotalsInvariant'
<1> DEFINE m == Added(cache, q)
           k == [step |-> "upserting", meta |-> m]
<1>1. /\ task[t].step = "idle" /\ task' = [task EXCEPT ![t] = k] /\ received' = received + q.n
      /\ disturbed' = (disturbed \/ Busy) /\ UNCHANGED <<emitted, cache, row>>
  BY DEF Receive
<1>2. /\ received \in Nat /\ disturbed \in BOOLEAN /\ cache \in Meta(emitted) /\ row \in Meta(emitted)
      /\ cache.n <= received /\ row.n <= received /\ cache.n \in Nat /\ row.n \in Nat
      /\ task \in [Tasks -> TaskRecord(emitted)]
      /\ \A s \in Tasks : task[s].meta.n <= received /\ task[s].meta.n \in Nat
  BY DEF TotalsInvariant, Meta, TaskRecord
<1>3. m \in Meta(emitted) /\ m.n = cache.n + q.n /\ cache.ended <= m.ended
  BY <1>2, AddedTotals
<1> HIDE DEF m
<1>4. k \in TaskRecord(emitted) /\ k.step = "upserting" /\ k.meta = m
  BY <1>3 DEF TaskRecord
<1> HIDE DEF k
<1>5. /\ task' \in [Tasks -> TaskRecord(emitted)] /\ task'[t] = k
      /\ \A s \in Tasks \ {t} : task'[s] = task[s]
  BY <1>1, <1>2, <1>4
<1>6. received' \in Nat /\ received <= received' /\ m.n <= received' /\ cache.n <= received' /\ row.n <= received'
  BY <1>1, <1>2, <1>3
<1>7. \A s \in Tasks : task'[s].meta.n <= received'
  <2> TAKE s \in Tasks
  <2>1. CASE s = t
    BY <1>4, <1>5, <1>6, <2>1
  <2>2. CASE s # t
    <3>1. task'[s].meta.n = task[s].meta.n
      BY <1>5, <2>2
    <3> QED
      BY <1>1, <1>2, <1>6, <3>1
  <2> QED
    BY <2>1, <2>2
<1>8. disturbed' \in BOOLEAN
  BY <1>1, <1>2 DEF Busy
<1>9. ASSUME ~disturbed'
      PROVE  /\ \A s, v \in Tasks : task'[s].step # "idle" /\ task'[v].step # "idle" => s = v
             /\ ~Busy' => row' = cache' /\ row'.n = received'
             /\ \A s \in Tasks : task'[s].step = "upserting" =>
                  row' = cache' /\ task'[s].meta.n = received' /\ row'.ended <= task'[s].meta.ended
             /\ \A s \in Tasks : task'[s].step = "upserted" => row' = task'[s].meta /\ row'.n = received'
  <2>1. ~disturbed /\ ~Busy
    BY <1>1, <1>9
  <2>2. row = cache /\ row.n = received /\ \A s \in Tasks : task[s].step = "idle"
    BY <2>1 DEF TotalsInvariant, Busy
  <2>3. \A s \in Tasks : s # t => task'[s].step = "idle"
    BY <1>5, <2>2
  <2>4. Busy'
    BY <1>4, <1>5 DEF Busy
  <2>5. m.n = received' /\ row'.ended <= m.ended /\ row' = cache'
    BY <1>1, <1>3, <2>2
  <2> QED
    BY <1>4, <1>5, <2>3, <2>4, <2>5
<1> QED
  BY <1>1, <1>2, <1>5, <1>6, <1>7, <1>8, <1>9 DEF TotalsInvariant

LEMMA UpsertedKeeps ==
  ASSUME TotalsInvariant, emitted \in Nat, NEW t \in Tasks, Upserted(t)
  PROVE  TotalsInvariant'
<1> DEFINE m == task[t].meta
<1>1. /\ task[t].step = "upserting" /\ row' = Replaced(row, m)
      /\ task' = [task EXCEPT ![t].step = "upserted"]
      /\ UNCHANGED <<emitted, cache, received, disturbed>>
  BY DEF Upserted, recorderVars
<1>2. /\ received \in Nat /\ disturbed \in BOOLEAN /\ cache \in Meta(emitted) /\ row \in Meta(emitted)
      /\ cache.n <= received /\ row.n <= received
      /\ task \in [Tasks -> TaskRecord(emitted)]
      /\ m \in Meta(emitted) /\ \A s \in Tasks : task[s].meta.n <= received
  BY DEF TotalsInvariant, TaskRecord
<1>3. /\ row' \in Meta(emitted) /\ row' \in {row, m} /\ (row.ended <= m.ended => row' = m)
  BY <1>1, <1>2, ReplacedTotals
<1>4. /\ task' \in [Tasks -> TaskRecord(emitted)]
      /\ task'[t].step = "upserted" /\ \A s \in Tasks : task'[s].meta = task[s].meta
      /\ \A s \in Tasks \ {t} : task'[s].step = task[s].step
  BY <1>1, <1>2 DEF TaskRecord
<1>5. row'.n <= received
  BY <1>2, <1>3
<1>6. ASSUME ~disturbed
      PROVE  /\ \A s, v \in Tasks : task'[s].step # "idle" /\ task'[v].step # "idle" => s = v
             /\ ~Busy' => row' = cache' /\ row'.n = received'
             /\ \A s \in Tasks : task'[s].step = "upserting" =>
                  row' = cache' /\ task'[s].meta.n = received' /\ row'.ended <= task'[s].meta.ended
             /\ \A s \in Tasks : task'[s].step = "upserted" => row' = task'[s].meta /\ row'.n = received'
  <2>1. /\ m.n = received /\ row.ended <= m.ended
        /\ \A s \in Tasks : s # t => task[s].step = "idle"
    BY <1>1, <1>6 DEF TotalsInvariant
  <2>2. row' = m
    BY <1>3, <2>1
  <2>3. \A s \in Tasks : s # t => task'[s].step = "idle"
    BY <1>4, <2>1
  <2>4. Busy'
    BY <1>4 DEF Busy
  <2> QED
    BY <1>1, <1>4, <2>1, <2>2, <2>3, <2>4
<1> QED
  BY <1>1, <1>2, <1>3, <1>4, <1>5, <1>6 DEF TotalsInvariant

\* A task that ends, with the totals it stores or without.
LEMMA TaskEnds ==
  ASSUME TotalsInvariant, emitted \in Nat, NEW t \in Tasks, task' = [task EXCEPT ![t] = Idle],
         UNCHANGED <<emitted, received>>, disturbed' \in BOOLEAN,
         cache' \in {cache, task[t].meta}, row' \in {row, task[t].meta},
         ~disturbed' => ~disturbed /\ task[t].step = "upserted" /\ cache' = task[t].meta /\ row' = row
  PROVE  TotalsInvariant'
<1> DEFINE m == task[t].meta
<1>1. /\ received \in Nat /\ cache \in Meta(emitted) /\ row \in Meta(emitted)
      /\ cache.n <= received /\ row.n <= received
      /\ task \in [Tasks -> TaskRecord(emitted)]
      /\ m \in Meta(emitted) /\ \A s \in Tasks : task[s].meta.n <= received
  BY DEF TotalsInvariant, TaskRecord
<1>2. Idle \in TaskRecord(emitted) /\ Idle.step = "idle" /\ Idle.meta.n = 0
  BY DEF Idle, TaskRecord, NoMeta, Meta
<1>3. /\ task' \in [Tasks -> TaskRecord(emitted)] /\ task'[t] = Idle
      /\ \A s \in Tasks \ {t} : task'[s] = task[s]
  BY <1>1, <1>2
<1>4. /\ cache' \in Meta(emitted) /\ row' \in Meta(emitted) /\ cache'.n <= received /\ row'.n <= received
  BY <1>1
<1>5. \A s \in Tasks : task'[s].meta.n <= received
  BY <1>1, <1>2, <1>3
<1>6. ASSUME ~disturbed'
      PROVE  row' = cache' /\ row'.n = received /\ \A s \in Tasks : task'[s].step = "idle"
  <2>1. row = m /\ row.n = received /\ \A s \in Tasks : s # t => task[s].step = "idle"
    BY <1>6 DEF TotalsInvariant
  <2> QED
    BY <1>2, <1>3, <1>6, <2>1
<1> QED
  BY <1>1, <1>3, <1>4, <1>5, <1>6 DEF TotalsInvariant

LEMMA RestartKeeps ==
  ASSUME TotalsInvariant, emitted \in Nat, BackendRestarts
  PROVE  TotalsInvariant'
<1>1. /\ cache' = NoMeta /\ task' = [t \in Tasks |-> Idle]
      /\ disturbed' = (disturbed \/ Busy \/ cache # NoMeta) /\ UNCHANGED <<emitted, row, received>>
  BY DEF BackendRestarts
<1>2. /\ NoMeta \in Meta(emitted) /\ NoMeta.n = 0
      /\ Idle \in TaskRecord(emitted) /\ Idle.step = "idle" /\ Idle.meta = NoMeta
  BY DEF Idle, TaskRecord, NoMeta, Meta
<1>3. task' \in [Tasks -> TaskRecord(emitted)] /\ \A t \in Tasks : task'[t] = Idle
  BY <1>1, <1>2
<1>4. received \in Nat /\ row \in Meta(emitted) /\ row.n <= received /\ disturbed' \in BOOLEAN
  BY <1>1 DEF TotalsInvariant, Busy
<1>5. ~disturbed' => row' = cache' /\ row'.n = received
  BY <1>1 DEF TotalsInvariant
<1>6. \A t \in Tasks : task'[t].step = "idle" /\ task'[t].meta.n = 0
  BY <1>2, <1>3
<1>7. cache'.n <= received /\ cache' \in Meta(emitted)
  BY <1>1, <1>2, <1>4
<1> QED
  BY <1>1, <1>3, <1>4, <1>5, <1>6, <1>7 DEF TotalsInvariant

LEMMA BackendTotals ==
  ASSUME RecorderInvariant, TotalsInvariant, BackendNext
  PROVE  TotalsInvariant'
<1>1. emitted \in Nat /\ \A q \in requests : q.n \in Nat /\ q.ended \in 1 .. emitted
  BY RecorderAssumption DEF RecorderAssumption, RecorderInvariant, DataInvariant, Data, DataTypes
<1>2. ASSUME NEW t \in Tasks, NEW q \in requests, Receive(t, q) PROVE TotalsInvariant'
  BY <1>1, <1>2, ReceiveKeeps
<1>3. ASSUME NEW t \in Tasks, Upserted(t) PROVE TotalsInvariant'
  BY <1>1, <1>3, UpsertedKeeps
<1>4. ASSUME NEW t \in Tasks, CacheTotals(t) PROVE TotalsInvariant'
  <2>1. disturbed' \in BOOLEAN
    BY <1>4 DEF CacheTotals, TotalsInvariant
  <2> QED
    BY <1>1, <1>4, <2>1, TaskEnds DEF CacheTotals, recorderVars
<1>5. ASSUME NEW t \in Tasks, NEW executed \in BOOLEAN, UpsertFails(t, executed) PROVE TotalsInvariant'
  <2>1. row' \in {row, task[t].meta}
    BY <1>5 DEF UpsertFails, Replaced
  <2> QED
    BY <1>1, <1>5, <2>1, TaskEnds DEF UpsertFails
<1>6. ASSUME NEW q \in requests, RequestLost(q) PROVE TotalsInvariant'
  <2>1. UNCHANGED <<emitted, cache, row, task, received>> /\ disturbed' = TRUE
    BY <1>6 DEF RequestLost
  <2> QED
    BY <2>1 DEF TotalsInvariant
<1> QED
  BY <1>1, <1>2, <1>3, <1>4, <1>5, <1>6, RestartKeeps DEF BackendNext

-----------------------------------------------------------------------------
(* The theorems.                                                           *)

ReplayInvariant == RecorderInvariant /\ TotalsInvariant

LEMMA ReplayInductive == ReplayInvariant /\ [Next]_vars => ReplayInvariant'
<1> SUFFICES ASSUME ReplayInvariant, [Next]_vars PROVE ReplayInvariant'
  OBVIOUS
<1>1. CASE RecorderNext /\ UNCHANGED backendVars
  BY <1>1, RecorderStep, EmittedGrows, TotalsStay DEF ReplayInvariant
<1>2. CASE BackendNext
  BY <1>2, BackendKeeps, BackendTotals DEF ReplayInvariant
<1>3. CASE UNCHANGED vars
  <2>1. /\ UNCHANGED <<consent, script, mode, page, rec, buffer, matrix, emitted, uploads, identified,
                       pendingError, minReached, segments, requests, crossed, lateStart>>
        /\ UNCHANGED backendVars
    BY <1>3 DEF vars, backendVars
  <2>2. DataInvariant'
    BY <2>1, DataStays DEF ReplayInvariant, RecorderInvariant, DataInvariant
  <2>3. emitted \in Nat
    BY DataAre DEF ReplayInvariant, RecorderInvariant, DataInvariant, Data
  <2> QED
    BY <2>1, <2>2, <2>3, TotalsStay DEF ReplayInvariant, RecorderInvariant, PlainTypes
<1> QED
  BY <1>1, <1>2, <1>3 DEF Next

\* What the recorder holds, what its uploads rely on and what the backend has
\* counted stay consistent, through failures, stops, navigations and restarts.
THEOREM ReplaySafe == Spec => []ReplayInvariant
<1>1. ReplayInit => ReplayInvariant
  BY RecorderInit, TotalsInit DEF ReplayInit, ReplayInvariant
<1> QED
  BY <1>1, ReplayInductive, PTL DEF Spec

LEMMA TypesHold == ReplayInvariant => TypeOK
<1> SUFFICES ASSUME ReplayInvariant PROVE TypeOK
  OBVIOUS
<1>1. PlainTypes /\ DataTypes(buffer, matrix, emitted) /\ Backed(buffer) /\ FlagsOK(rec, lateStart)
      /\ TotalsInvariant
  BY DEF ReplayInvariant, RecorderInvariant, DataInvariant, Data
<1>2. emitted \in Nat /\ emitted \in 0 .. MaxEvents
  BY <1>1, DataAre DEF DataTypes
<1>3. buffer \in Seq(1 .. emitted)
  BY <1>1, <1>2, EventsAre DEF DataTypes
<1>4. matrix \in Seq(Seq(1 .. emitted)) /\ Len(matrix) \in {1, 2}
  <2>1. matrix \in Seq(Seq(Nat)) /\ Len(matrix) \in {1, 2} /\ \A k \in 1 .. Len(matrix) : EventSeq(matrix[k], emitted)
    BY <1>1 DEF DataTypes
  <2>2. \A k \in 1 .. Len(matrix) : matrix[k] \in Seq(1 .. emitted)
    BY <1>2, <2>1, EventsAre
  <2>3. matrix \in [1 .. Len(matrix) -> Seq(1 .. emitted)] /\ Len(matrix) \in Nat
    BY <2>1, <2>2, LenProperties
  <2>4. matrix \in Seq(Seq(1 .. emitted))
    BY <2>3, SeqDef
  <2> QED
    BY <2>1, <2>4
<1>5. \A u \in Slot : uploads[u].phase \in {"none", "presign", "put"} /\ uploads[u].events \in Seq(1 .. emitted)
  <2> TAKE u \in Slot
  <2>1. uploads[u] \in Upload /\ EventSeq(uploads[u].events, emitted)
    BY <1>1 DEF DataTypes
  <2>2. uploads[u].phase \in {"none", "presign", "put"}
    BY <2>1 DEF Upload
  <2> QED
    BY <1>2, <2>1, <2>2, EventsAre
<1>6. rec \in Flags /\ (rec.hooked => rec.live > 0) /\ mode \in {"sampled", "onError"}
  BY <1>1 DEF FlagsOK, Backed
<1>7. cache \in [n : Nat, ended : 0 .. emitted] /\ disturbed \in BOOLEAN
  BY <1>1 DEF TotalsInvariant, Meta
<1> QED
  BY <1>1, <1>2, <1>3, <1>4, <1>5, <1>6, <1>7 DEF TypeOK, PlainTypes, Flags

\* The recorder and the backend keep their types, and the matrix its two segments.
THEOREM ReplayTypes == Spec => []TypeOK
  BY ReplaySafe, TypesHold, PTL

LEMMA HeldInOrder == ReplayInvariant => NothingSkipped
<1> SUFFICES ASSUME ReplayInvariant, mode = "sampled", ~rec.disabled
             PROVE  LET held == uploads[1].events \o buffer
                        stored == UNION {Range(segments[i]) : i \in DOMAIN segments}
                    IN /\ \A i \in DOMAIN held : held[i] = emitted - Len(held) + i
                       /\ 1 .. (emitted - Len(held)) \subseteq stored
                       /\ \A i \in DOMAIN segments : \A j \in DOMAIN segments[i] :
                            segments[i][j] = Head(segments[i]) + j - 1
  BY DEF NothingSkipped
<1> DEFINE held == uploads[1].events \o buffer
           stored == UNION {Range(segments[i]) : i \in DOMAIN segments}
<1>1. DataTypes(buffer, matrix, emitted) /\ InOrder(buffer, emitted)
  BY DEF ReplayInvariant, RecorderInvariant, DataInvariant, Data
<1>2. /\ RunOf(buffer, emitted) /\ RunOf(uploads[1].events, emitted - Len(buffer))
      /\ \A x \in 1 .. (emitted - Len(buffer) - Len(uploads[1].events)) : Stored(x)
      /\ \A i \in 1 .. Len(segments) : Consecutive(segments[i])
  BY <1>1 DEF InOrder
<1>3. /\ emitted \in Nat /\ EventSeq(buffer, emitted) /\ EventSeq(uploads[1].events, emitted)
      /\ Len(buffer) \in Nat /\ Len(uploads[1].events) \in Nat
  BY <1>1, DataAre DEF DataTypes, Slot
<1>4. /\ EventSeq(held, emitted) /\ Len(held) = Len(uploads[1].events) + Len(buffer)
      /\ RunOf(held, emitted)
  BY <1>2, <1>3, EventsJoined
<1>5. DOMAIN held = 1 .. Len(held)
  BY <1>3, <1>4, EventsAre
<1>6. /\ segments \in Seq(Seq(Nat)) /\ DOMAIN segments = 1 .. Len(segments)
      /\ \A i \in 1 .. Len(segments) : segments[i] \in Seq(Nat) /\ DOMAIN segments[i] = 1 .. Len(segments[i])
  BY <1>1, LenProperties DEF DataTypes
<1> HIDE DEF held
<1>7. \A i \in DOMAIN held : held[i] = emitted - Len(held) + i
  BY <1>4, <1>5 DEF RunOf
<1>8. ASSUME NEW x, Stored(x) PROVE x \in stored
  <2>1. PICK i \in 1 .. Len(segments) : \E j \in 1 .. Len(segments[i]) : segments[i][j] = x
    BY <1>8 DEF Stored
  <2>2. x \in Range(segments[i])
    BY <1>6, <2>1 DEF Range
  <2> QED
    BY <1>6, <2>1, <2>2
<1>9. 1 .. (emitted - Len(held)) \subseteq stored
  <2>1. emitted - Len(held) = emitted - Len(buffer) - Len(uploads[1].events)
    BY <1>3, <1>4
  <2> QED
    BY <1>2, <1>8, <2>1
<1>10. \A i \in DOMAIN segments : \A j \in DOMAIN segments[i] : segments[i][j] = Head(segments[i]) + j - 1
  <2> TAKE i \in DOMAIN segments
  <2> TAKE j \in DOMAIN segments[i]
  <2>1. segments[i] \in Seq(Nat) /\ j \in 1 .. Len(segments[i]) /\ i \in 1 .. Len(segments)
    BY <1>6
  <2>2. segments[i] # <<>> /\ segments[i][j] = segments[i][1] + j - 1
    BY <1>2, <2>1 DEF Consecutive
  <2>3. Head(segments[i]) = segments[i][1]
    BY <2>1, <2>2
  <2> QED
    BY <2>2, <2>3
<1> QED
  BY <1>7, <1>9, <1>10 DEF held

\* What is held is the tail of what was emitted, and everything before it is in
\* the bucket, for any number of events, failed uploads and stops.
THEOREM ReplayNothingSkipped == Spec => []NothingSkipped
  BY ReplaySafe, HeldInOrder, PTL

\* One recorder runs at most, and it can be stopped, unless a start slipped into
\* a stop that was still uploading.
THEOREM ReplayOneRecorder == Spec => []OneRecorder
<1>1. ReplayInvariant => OneRecorder
  BY DEF ReplayInvariant, RecorderInvariant, FlagsOK, OneRecorder
<1> QED
  BY <1>1, ReplaySafe, PTL

\* The row of a session shows no more than was received, and all of it once the
\* requests are handled without a disturbance, for any number of tasks.
THEOREM ReplayRowTotals == Spec => []RowTotals
<1>1. ReplayInvariant => RowTotals
  BY DEF ReplayInvariant, TotalsInvariant, RowTotals
<1> QED
  BY <1>1, ReplaySafe, PTL

\* A segment the browser saw stored is finalized, unless uploads of errors crossed.
THEOREM ReplayUploadedIsFinalized == Spec => UploadedIsFinalized
<1> DEFINE Step == \A u \in Slot : Uploaded(u) /\ ~crossed => requests' # requests
<1>1. ReplayInvariant => Step
  <2> SUFFICES ASSUME ReplayInvariant, NEW u \in Slot, Uploaded(u), ~crossed PROVE requests' # requests
    OBVIOUS
  <2>1. DataInvariant /\ uploads[u].phase = "put" /\ FinalizeSession(u)
        /\ segments' = Append(segments, uploads[u].events)
    BY DEF ReplayInvariant, RecorderInvariant, Uploaded, StoreSegment
  <2> QED
    BY <2>1, Finalized
<1>2. ReplayInvariant /\ [Next]_vars => [Step]_vars
  BY <1>1
<1>3. ReplayInit => ReplayInvariant
  BY RecorderInit, TotalsInit DEF ReplayInit, ReplayInvariant
<1> QED
  BY <1>2, <1>3, ReplaySafe, PTL DEF Spec, UploadedIsFinalized
=============================================================================
