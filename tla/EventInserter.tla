--------------------------- MODULE EventInserter ---------------------------
(***************************************************************************)
(* The ingest pipeline behind POST /event: EventProcessor hands an event   *)
(* to a bounded channel with try_send, one inserter task per table         *)
(* collects events into a batch it owns and flushes the batch to           *)
(* ClickHouse, retrying under one deduplication token, and main drains the *)
(* pipeline at shutdown.  (backend/src/db/mod.rs, processing/mod.rs,       *)
(* main.rs.)                                                               *)
(*                                                                         *)
(* A request the client gave up on may still be executed by the server;    *)
(* `abandoned' holds the tokens of such requests.  The server remembers    *)
(* the tokens of the last DedupWindow blocks it inserted                   *)
(* (non_replicated_deduplication_window, migrations 37 and 39) and ignores *)
(* a block whose token it remembers.                                       *)
(***************************************************************************)
EXTENDS Naturals, Sequences, FiniteSets

CONSTANTS
  Event,            \* events the HTTP handlers and the bot recorder produce
  UnknownType,      \* those whose type EventRow::from_processed cannot parse
  ChannelCapacity,  \* EVENT_CHANNEL_CAPACITY / BOT_CHANNEL_CAPACITY
  MaxRows,          \* INSERTER_MAX_ROWS
  RejectedAttempts, \* REJECTED_BATCH_ATTEMPTS
  DedupWindow,      \* blocks whose token the table remembers
  MaxStarts         \* bound: how often the process is started

ASSUME InserterAssumption ==
  /\ UnknownType \subseteq Event
  /\ ChannelCapacity \in Nat \ {0}
  /\ MaxRows \in Nat \ {0}
  /\ RejectedAttempts \in Nat \ {0}
  /\ DedupWindow \in Nat \ {0}
  /\ MaxStarts \in Nat \ {0}

VARIABLES
  phase,      \* the process: serving, stopping, draining, stopped or killed
  starts,     \* how often it was started
  channel,    \* events in the mpsc channel
  batch,      \* the rows run_inserter owns
  token,      \* index into `flushes' of the flush in progress, 0 when none
  rejected,   \* rejected_attempts of the flush in progress
  flushes,    \* every flush so far: its rows and what the server made of it
  abandoned,  \* flushes with a request the server may yet execute
  blocks,     \* blocks the table has inserted
  rows,       \* rows[e]: rows the table holds for event e
  accepted,   \* history: events try_send took
  refused,    \* history: events try_send did not take (counted drops)
  skipped,    \* history: events that did not convert to a row
  gaveUp,     \* history: events of batches dropped after rejections
  lost        \* history: events in memory when the process was killed

serverVars  == <<flushes, abandoned, blocks, rows>>
historyVars == <<accepted, refused, skipped, gaveUp, lost>>
vars == <<phase, starts, channel, batch, token, rejected, serverVars, historyVars>>

Phases == {"serving", "stopping", "draining", "stopped", "killed"}
Flushing == token # 0
InserterAlive == phase \in {"serving", "stopping", "draining"}

Init ==
  /\ phase = "serving"
  /\ starts = 1
  /\ channel = {}
  /\ batch = {}
  /\ token = 0
  /\ rejected = 0
  /\ flushes = <<>>
  /\ abandoned = {}
  /\ blocks = 0
  /\ rows = [e \in Event |-> 0]
  /\ accepted = {}
  /\ refused = {}
  /\ skipped = {}
  /\ gaveUp = {}
  /\ lost = {}

-----------------------------------------------------------------------------
(* The table and its deduplication.                                        *)

\* The table still remembers the token of flush t.
Remembered(t) ==
  /\ flushes[t].block # 0
  /\ blocks - flushes[t].block < DedupWindow

\* The server executes an insert of flush t: ignored when it remembers the
\* token, else one new block.
ServerInserts(t) ==
  IF Remembered(t)
  THEN UNCHANGED <<blocks, rows, flushes>>
  ELSE /\ blocks' = blocks + 1
       /\ rows' = [e \in Event |->
                     IF e \in flushes[t].rows THEN rows[e] + 1 ELSE rows[e]]
       /\ flushes' = [flushes EXCEPT ![t].block = blocks + 1]

\* The server executes a request its client gave up on.  It does so, or
\* drops it, before DedupWindow more blocks were inserted.
ServerInsertsLate(t) ==
  /\ t \in abandoned
  /\ blocks - flushes[t].since < DedupWindow
  /\ ServerInserts(t)
  /\ UNCHANGED <<phase, starts, channel, batch, token, rejected, abandoned, historyVars>>

ServerDrops(t) ==
  /\ t \in abandoned
  /\ abandoned' = abandoned \ {t}
  /\ UNCHANGED <<phase, starts, channel, batch, token, rejected,
                 flushes, blocks, rows, historyVars>>

-----------------------------------------------------------------------------
(* Producers.                                                              *)

\* event_tx.try_send / bot_tx.try_send: never waits, drops when full.
TrySend(e) ==
  /\ phase \in {"serving", "stopping"}
  /\ e \notin accepted \cup refused
  /\ \/ /\ Cardinality(channel) < ChannelCapacity
        /\ channel' = channel \cup {e}
        /\ accepted' = accepted \cup {e}
        /\ UNCHANGED refused
     \/ /\ Cardinality(channel) >= ChannelCapacity
        /\ refused' = refused \cup {e}
        /\ UNCHANGED <<channel, accepted>>
  /\ UNCHANGED <<phase, starts, batch, token, rejected, serverVars, skipped, gaveUp, lost>>

-----------------------------------------------------------------------------
(* run_inserter and flush.                                                 *)

\* flush() starts with a fresh token for the rows S of the batch.
StartFlush(S) ==
  /\ flushes' = Append(flushes, [rows |-> S, since |-> blocks, block |-> 0])
  /\ token' = Len(flushes) + 1
  /\ rejected' = 0

\* Fault: the event is handled but stays in the channel.
RecvWithoutPop(e) ==
  /\ InserterAlive
  /\ ~Flushing
  /\ e \in channel \ UnknownType
  /\ batch' = batch \cup {e}
  /\ IF Cardinality(batch') >= MaxRows
     THEN StartFlush(batch')
     ELSE UNCHANGED <<token, rejected, flushes>>
  /\ UNCHANGED <<phase, starts, channel, abandoned, blocks, rows, historyVars>>

\* rx.recv() yields an event; a full batch is flushed at once.
Recv(e) ==
  /\ InserterAlive
  /\ ~Flushing
  /\ e \in channel
  /\ channel' = channel \ {e}
  /\ \/ /\ e \in UnknownType
        /\ skipped' = skipped \cup {e}
        /\ UNCHANGED <<batch, token, rejected, flushes>>
     \/ /\ e \notin UnknownType
        /\ batch' = batch \cup {e}
        /\ IF Cardinality(batch') >= MaxRows
           THEN StartFlush(batch')
           ELSE UNCHANGED <<token, rejected, flushes>>
        /\ UNCHANGED skipped
  /\ UNCHANGED <<phase, starts, abandoned, blocks, rows, accepted, refused, gaveUp, lost>>

\* Fault: only full batches are flushed.
FlushFullOnly ==
  /\ InserterAlive
  /\ ~Flushing
  /\ Cardinality(batch) >= MaxRows
  /\ StartFlush(batch)
  /\ UNCHANGED <<phase, starts, channel, batch, abandoned, blocks, rows, historyVars>>

\* The period elapsed, or the channel is closed and empty: flush what there
\* is.  An empty batch makes flush() return at once.
FlushRest ==
  /\ InserterAlive
  /\ ~Flushing
  /\ batch # {}
  /\ StartFlush(batch)
  /\ UNCHANGED <<phase, starts, channel, batch, abandoned, blocks, rows, historyVars>>

EndFlush ==
  /\ batch' = {}
  /\ token' = 0
  /\ rejected' = 0

\* try_insert returns Ok: the server executed the insert and said so.
InsertConfirmed ==
  /\ InserterAlive
  /\ Flushing
  /\ ServerInserts(token)
  /\ EndFlush
  /\ UNCHANGED <<phase, starts, channel, abandoned, historyVars>>

\* Fault: every attempt draws a token of its own.
InsertFailsNewToken ==
  /\ InserterAlive
  /\ Flushing
  /\ Len(flushes) < 4
  /\ StartFlush(batch)
  /\ abandoned' = abandoned \cup {token}
  /\ UNCHANGED <<phase, starts, channel, batch, blocks, rows, historyVars>>

\* Fault: a transient error is not retried.
InsertFailsForgets ==
  /\ InserterAlive
  /\ Flushing
  /\ EndFlush
  /\ UNCHANGED <<phase, starts, channel, abandoned, flushes, blocks, rows, historyVars>>

\* A transient error: the request never arrived, or its outcome is unknown.
InsertFails ==
  /\ InserterAlive
  /\ Flushing
  /\ abandoned' \in {abandoned, abandoned \cup {token}}
  /\ UNCHANGED <<phase, starts, channel, batch, token, rejected,
                 flushes, blocks, rows, historyVars>>

\* A deterministic error: give the batch up after RejectedAttempts of them.
InsertRejected ==
  /\ InserterAlive
  /\ Flushing
  /\ IF rejected + 1 >= RejectedAttempts
     THEN /\ gaveUp' = gaveUp \cup batch
          /\ EndFlush
     ELSE /\ rejected' = rejected + 1
          /\ UNCHANGED <<batch, token, gaveUp>>
  /\ UNCHANGED <<phase, starts, channel, serverVars, accepted, refused, skipped, lost>>

-----------------------------------------------------------------------------
(* main: shutdown, crash, restart.                                         *)

\* SIGTERM: the listener closes, requests in flight are still served.
ShutdownSignal ==
  /\ phase = "serving"
  /\ phase' = "stopping"
  /\ UNCHANGED <<starts, channel, batch, token, rejected, serverVars, historyVars>>

\* axum::serve returned: the processor, and with it the last sender, is
\* dropped and main awaits the inserter.
HttpServerStopped ==
  /\ phase = "stopping"
  /\ phase' = "draining"
  /\ UNCHANGED <<starts, channel, batch, token, rejected, serverVars, historyVars>>

\* Fault: main does not wait for the channel to empty.
DrainIgnoresChannel ==
  /\ phase = "draining"
  /\ batch = {} /\ ~Flushing
  /\ phase' = "stopped"
  /\ UNCHANGED <<starts, channel, batch, token, rejected, serverVars, historyVars>>

\* The channel is closed and empty and the final flush is over: the inserter
\* returns, main logs "Ingest pipeline drained" and exits with status 0.
DrainComplete ==
  /\ phase = "draining"
  /\ channel = {} /\ batch = {} /\ ~Flushing
  /\ phase' = "stopped"
  /\ UNCHANGED <<starts, channel, batch, token, rejected, serverVars, historyVars>>

\* The process goes away with what it had in memory: the drain exceeded
\* SHUTDOWN_DEADLINE, the watchdog fired, the inserter panicked, or SIGKILL.
\* A request it was making may still be executed.
Killed ==
  /\ InserterAlive
  /\ phase' = "killed"
  /\ lost' = lost \cup channel \cup batch
  /\ channel' = {}
  /\ EndFlush
  /\ abandoned' \in {abandoned} \cup (IF Flushing THEN {abandoned \cup {token}} ELSE {})
  /\ UNCHANGED <<starts, flushes, blocks, rows, accepted, refused, skipped, gaveUp>>

Restart ==
  /\ phase \in {"stopped", "killed"}
  /\ starts < MaxStarts
  /\ phase' = "serving"
  /\ starts' = starts + 1
  /\ UNCHANGED <<channel, batch, token, rejected, serverVars, historyVars>>

-----------------------------------------------------------------------------
Server == \E t \in DOMAIN flushes : ServerInsertsLate(t) \/ ServerDrops(t)

Inserter ==
  \/ \E e \in Event : Recv(e)
  \/ FlushRest
  \/ InsertConfirmed
  \/ InsertFails
  \/ InsertRejected

Main ==
  \/ ShutdownSignal
  \/ HttpServerStopped
  \/ DrainComplete
  \/ Killed
  \/ Restart

Next ==
  \/ \E e \in Event : TrySend(e)
  \/ Inserter
  \/ Main
  \/ Server

\* The inserter task keeps running, and ClickHouse does not fail transiently
\* for ever: of infinitely many attempts one is confirmed or rejected.
Fairness ==
  /\ \A e \in Event : WF_vars(Recv(e))
  /\ WF_vars(FlushRest)
  /\ SF_vars(InsertConfirmed \/ InsertRejected)
  /\ WF_vars(DrainComplete)

Spec == Init /\ [][Next]_vars
FairSpec == Spec /\ Fairness

-----------------------------------------------------------------------------
Stored == {e \in Event : rows[e] > 0}
WrittenOff == skipped \cup gaveUp \cup lost

TypeOK ==
  /\ phase \in Phases
  /\ starts \in Nat
  /\ channel \subseteq Event
  /\ batch \subseteq Event
  /\ flushes \in Seq([rows : SUBSET Event, since : Nat, block : Nat])
  /\ token \in 0 .. Len(flushes)
  /\ rejected \in 0 .. RejectedAttempts - 1
  /\ abandoned \subseteq 1 .. Len(flushes)
  /\ blocks \in Nat
  /\ rows \in [Event -> Nat]
  /\ accepted \subseteq Event
  /\ refused \subseteq Event
  /\ skipped \subseteq Event
  /\ gaveUp \subseteq Event
  /\ lost \subseteq Event

\* No event is in the table twice, whatever mixture of timeouts, late
\* executions, give-ups and restarts its batch went through: "All attempts
\* share one dedup token, so a re-sent batch is ignored server-side."
AtMostOnce == \A e \in Event : rows[e] <= 1

\* No event goes missing without a trace: an accepted event is in memory, in
\* the table, or in one of the three classes the code writes off.
NoSilentLoss ==
  accepted \subseteq channel \cup batch \cup Stored \cup WrittenOff

\* The drain contract main relies on: once the inserter returned, everything
\* accepted is in the table, except what was skipped, given up after
\* rejections, or lost by an earlier run of the process.
DrainContract ==
  phase = "stopped" => accepted \subseteq Stored \cup WrittenOff

\* flush "clears the batch only once ClickHouse confirms it": a step that
\* removes rows from the batch leaves them in the table, gives them up at
\* the RejectedAttempts-th rejection, or kills the process.
BatchClearedOnlyWhenSettled ==
  [][batch \ batch' # {} =>
       \/ batch \subseteq Stored'
       \/ rejected = RejectedAttempts - 1 /\ batch \subseteq gaveUp'
       \/ phase' = "killed"]_vars

\* Every accepted event is stored or written off in the end: transient
\* failures are retried until they stop, a poison batch does not block the
\* batches behind it.
EveryEventSettles ==
  \A e \in Event : (e \in accepted) ~> (e \in Stored \cup WrittenOff)

\* The pipeline implements the ledger: at most one row per event, whole
\* batches at a time, nothing stored that was not accepted.
Ledger == INSTANCE EventLedger WITH writtenOff <- WrittenOff
ImplementsLedger == Ledger!LedgerSpec
=============================================================================
