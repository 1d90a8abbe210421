---------------------------- MODULE ChannelWriter ----------------------------
(***************************************************************************)
(* The background writers of monitor results, incidents, alert history and *)
(* notification history (backend/src/monitor/clickhouse_writer.rs): each   *)
(* has a bounded channel, a worker that inserts one batch after the other  *)
(* in chunks and never retries, and takes part in the flush that shutdown  *)
(* runs over all of them.  Producers keep enqueueing during the flush.     *)
(***************************************************************************)
EXTENDS Naturals, Sequences, FiniteSets, SequencesExt

CONSTANTS
  Writers,    \* the registered writers
  Capacity,   \* channel_capacity
  ChunkSize,  \* batch_size
  BatchSizes, \* rows an enqueue_rows call may bring
  MaxRows     \* bound: rows offered to one writer

ASSUME WriterAssumption ==
  /\ IsFiniteSet(Writers)
  /\ Capacity \in Nat \ {0}
  /\ ChunkSize \in Nat \ {0}
  /\ BatchSizes \subseteq Nat \ {0}
  /\ MaxRows \in Nat

VARIABLES
  offered,    \* offered[w]: rows offered to w so far, numbered from 1
  queue,      \* queue[w]: its channel: batches (sequences of rows) and Fence
  inserting,  \* inserting[w]: the rest of the batch the worker holds
  table,      \* table[w]: rows in ClickHouse, as they arrived
  refused,    \* history: refused[w]: rows enqueue_rows refused
  failed,     \* history: failed[w]: rows of batches the worker gave up or was lost with
  ended,      \* writers whose worker panicked
  flush,      \* flush_all_writers: off, fencing, waiting, done
  asked,      \* writers whose request() was called
  pending,    \* writers whose ack the flush awaits
  acked,      \* writers that acked their fence
  before      \* history: before[w]: offered[w] when w was asked

vars == <<offered, queue, inserting, table, refused, failed, ended, flush, asked, pending, acked, before>>
flushing == <<flush, asked, pending, before>>

Row == 1 .. MaxRows
Fence == <<>>

Init ==
  /\ offered = [w \in Writers |-> 0]
  /\ queue = [w \in Writers |-> <<>>]
  /\ inserting = [w \in Writers |-> <<>>]
  /\ table = [w \in Writers |-> <<>>]
  /\ refused = [w \in Writers |-> {}]
  /\ failed = [w \in Writers |-> {}]
  /\ ended = {}
  /\ flush = "off"
  /\ asked = {}
  /\ pending = {}
  /\ acked = {}
  /\ before = [w \in Writers |-> 0]

-----------------------------------------------------------------------------
(* The producers and the worker of writer w.                               *)

\* try_send succeeds: the channel has room and its receiver was not dropped.
Accepts(w) == Len(queue[w]) < Capacity /\ w \notin ended

\* enqueue_rows: try_send takes the batch or refuses all of it.
EnqueueRows(w, n) ==
  /\ offered[w] + n <= MaxRows
  /\ offered' = [offered EXCEPT ![w] = @ + n]
  /\ LET batch == [i \in 1 .. n |-> offered[w] + i]
     IN IF Accepts(w)
        THEN queue' = [queue EXCEPT ![w] = Append(@, batch)] /\ UNCHANGED refused
        ELSE refused' = [refused EXCEPT ![w] = @ \cup ToSet(batch)] /\ UNCHANGED queue
  /\ UNCHANGED <<inserting, table, failed, ended, acked, flushing>>

\* recv() returns a batch.
RecvRows(w) ==
  /\ inserting[w] = <<>> /\ queue[w] # <<>> /\ Head(queue[w]) # Fence
  /\ queue' = [queue EXCEPT ![w] = Tail(@)]
  /\ inserting' = [inserting EXCEPT ![w] = Head(queue[w])]
  /\ UNCHANGED <<offered, table, refused, failed, ended, acked, flushing>>

\* Fault: fences are acked behind the receive loop, when the channel is closed,
\* which the writer keeps open.
RecvFenceParked(w) ==
  /\ inserting[w] = <<>> /\ queue[w] # <<>> /\ Head(queue[w]) = Fence
  /\ queue' = [queue EXCEPT ![w] = Tail(@)]
  /\ UNCHANGED <<offered, inserting, table, refused, failed, ended, acked, flushing>>

\* Fault: batches are inserted in the background of the receive loop.
RecvFenceAhead(w) ==
  /\ queue[w] # <<>> /\ Head(queue[w]) = Fence
  /\ queue' = [queue EXCEPT ![w] = Tail(@)]
  /\ acked' = acked \cup {w}
  /\ UNCHANGED <<offered, inserting, table, refused, failed, ended, flushing>>

\* recv() returns the fence, and the worker acks it.
RecvFence(w) ==
  /\ inserting[w] = <<>> /\ queue[w] # <<>> /\ Head(queue[w]) = Fence
  /\ queue' = [queue EXCEPT ![w] = Tail(@)]
  /\ acked' = acked \cup {w}
  /\ UNCHANGED <<offered, inserting, table, refused, failed, ended, flushing>>

Chunk(rows) == SubSeq(rows, 1, IF Len(rows) < ChunkSize THEN Len(rows) ELSE ChunkSize)
Rest(rows) == SubSeq(rows, Len(Chunk(rows)) + 1, Len(rows))

\* Fault: the whole batch is inserted again with every chunk of it.
ChunkInsertedAgain(w) ==
  /\ inserting[w] # <<>>
  /\ table' = [table EXCEPT ![w] = @ \o inserting[w]]
  /\ inserting' = [inserting EXCEPT ![w] = Rest(@)]
  /\ UNCHANGED <<offered, queue, refused, failed, ended, acked, flushing>>

\* insert_rows: ClickHouse confirms a chunk.
ChunkInserted(w) ==
  /\ inserting[w] # <<>>
  /\ table' = [table EXCEPT ![w] = @ \o Chunk(inserting[w])]
  /\ inserting' = [inserting EXCEPT ![w] = Rest(@)]
  /\ UNCHANGED <<offered, queue, refused, failed, ended, acked, flushing>>

\* A chunk fails, executed by ClickHouse or not, and `?` leaves the batch.
ChunkFails(w) ==
  /\ inserting[w] # <<>>
  /\ table' \in {table, [table EXCEPT ![w] = @ \o Chunk(inserting[w])]}
  /\ failed' = [failed EXCEPT ![w] = @ \cup ToSet(inserting[w])]
  /\ inserting' = [inserting EXCEPT ![w] = <<>>]
  /\ UNCHANGED <<offered, queue, refused, ended, acked, flushing>>

Held(w) == ToSet(inserting[w]) \cup UNION {ToSet(queue[w][k]) : k \in 1 .. Len(queue[w])}

\* A panic in insert_rows ends the worker, which nothing restarts: its
\* receiver is dropped with the batches and fences in it.
WorkerPanics(w) ==
  /\ inserting[w] # <<>>
  /\ ended' = ended \cup {w}
  /\ failed' = [failed EXCEPT ![w] = @ \cup Held(w)]
  /\ inserting' = [inserting EXCEPT ![w] = <<>>]
  /\ queue' = [queue EXCEPT ![w] = <<>>]
  /\ UNCHANGED <<offered, table, refused, acked, flushing>>

-----------------------------------------------------------------------------
(* flush_all_writers.                                                      *)

StartFlush ==
  /\ flush = "off"
  /\ flush' = "fencing"
  /\ UNCHANGED <<offered, queue, inserting, table, refused, failed, ended, asked, pending, acked, before>>

\* request(): a channel that is full or has no receiver takes no fence, and its
\* writer is not awaited.
RequestFence(w) ==
  /\ flush = "fencing" /\ w \notin asked
  /\ asked' = asked \cup {w}
  /\ before' = [before EXCEPT ![w] = offered[w]]
  /\ IF Accepts(w)
     THEN /\ queue' = [queue EXCEPT ![w] = Append(@, Fence)]
          /\ pending' = pending \cup {w}
     ELSE UNCHANGED <<queue, pending>>
  /\ flush' = IF asked' = Writers THEN "waiting" ELSE "fencing"
  /\ UNCHANGED <<offered, inserting, table, refused, failed, ended, acked>>

\* Every awaited ack arrived, or its sender was dropped with the worker, which
\* is warned about; main returns.
FlushEnds ==
  /\ flush = "waiting" /\ pending \subseteq acked \cup ended
  /\ flush' = "done"
  /\ UNCHANGED <<offered, queue, inserting, table, refused, failed, ended, asked, pending, acked, before>>

\* SHUTDOWN_DEADLINE passes first: the process exits with what it holds.
DeadlinePasses ==
  /\ flush \in {"fencing", "waiting"}
  /\ flush' = "exited"
  /\ UNCHANGED <<offered, queue, inserting, table, refused, failed, ended, asked, pending, acked, before>>

-----------------------------------------------------------------------------
Running == flush \notin {"done", "exited"}

Worker(w) == Running /\ (RecvRows(w) \/ RecvFence(w) \/ ChunkInserted(w) \/ ChunkFails(w))
Flusher == StartFlush \/ (\E w \in Writers : RequestFence(w)) \/ FlushEnds

Next ==
  \/ Running /\ \E w \in Writers, n \in BatchSizes : EnqueueRows(w, n)
  \/ \E w \in Writers : Worker(w)
  \/ Running /\ \E w \in Writers : WorkerPanics(w)
  \/ Flusher
  \/ DeadlinePasses

\* The runtime schedules every worker, and the flush once it was started.
Fairness ==
  /\ \A w \in Writers : WF_vars(Worker(w))
  /\ WF_vars((\E w \in Writers : RequestFence(w)) \/ FlushEnds)

Spec == Init /\ [][Next]_vars
FairSpec == Spec /\ Fairness

-----------------------------------------------------------------------------
TypeOK ==
  /\ offered \in [Writers -> 0 .. MaxRows]
  /\ queue \in [Writers -> Seq(Seq(Row))] /\ \A w \in Writers : Len(queue[w]) <= Capacity
  /\ inserting \in [Writers -> Seq(Row)] /\ table \in [Writers -> Seq(Row)]
  /\ refused \in [Writers -> SUBSET Row]
  /\ failed \in [Writers -> SUBSET Row]
  /\ ended \subseteq Writers
  /\ flush \in {"off", "fencing", "waiting", "done", "exited"}
  /\ asked \subseteq Writers /\ pending \subseteq asked /\ acked \subseteq pending
  /\ before \in [Writers -> 0 .. MaxRows]

\* Every row offered to a writer is held by it, in the table, or was refused or
\* given up with a warning, or lost with its worker.
NoSilentLoss ==
  \A w \in Writers :
    1 .. offered[w] = Held(w) \cup ToSet(table[w]) \cup refused[w] \cup failed[w]

\* The fence contract as the worker keeps it: once it acks, no row offered
\* before the fence is on its way any more; it is in the table or warned about.
\* (A worker that acked may end later, with rows offered since.)
AckedIsSettled ==
  \A w \in acked : 1 .. before[w] \subseteq ToSet(table[w]) \cup refused[w] \cup failed[w]

\* Snapshots of one incident reach the table at most once and in the order in
\* which the orchestrator enqueued them, whatever failed in between.
StoredOnceInOrder ==
  \A w \in Writers : \A i, j \in 1 .. Len(table[w]) : i < j => table[w][i] < table[w][j]

\* The flush comes to an end while producers go on and workers end.
FlushTerminates == flush = "fencing" ~> flush \in {"done", "exited"}

-----------------------------------------------------------------------------
(* What the comment on flush_all_writers claims.                           *)

\* "once a writer acks, every batch enqueued into it before the fence is
\* durable in ClickHouse"
AckedIsDurable ==
  \A w \in acked : 1 .. before[w] \subseteq ToSet(table[w]) \cup refused[w]
=============================================================================
