------------------------- MODULE NotificationEngine -------------------------
(***************************************************************************)
(* Push notifications (backend/src/notifications/engine.rs): notify()      *)
(* claims the event key in delivery_log, sends to every integration of the *)
(* dashboard with retries, records the results in notification_history and *)
(* gives the claim up when nothing was sent.  A start seeds delivery_log   *)
(* from the rows of the last 30 days.                                      *)
(*                                                                         *)
(* Only DeliveryStrategy::Once is used by the program.  The two monitor    *)
(* runners call notify() for different keys at the same time, and again    *)
(* for a key as long as the incident's mail is not confirmed.  All steps   *)
(* happen within the 30 days that claims and rows are kept.                *)
(***************************************************************************)
EXTENDS Naturals, Sequences, FiniteSets, FiniteSetsExt, SequencesExt

CONSTANTS
  Keys,             \* event keys of one dashboard
  Integrations,     \* its integrations
  MaxRetries,       \* MAX_RETRIES
  HistoryCapacity,  \* CHANNEL_CAPACITY of the history writer
  MaxStarts         \* bound: process starts

ASSUME EngineAssumption ==
  /\ IsFiniteSet(Keys) /\ IsFiniteSet(Integrations)
  /\ MaxRetries \in Nat \ {0}
  /\ HistoryCapacity \in Nat \ {0}
  /\ MaxStarts \in Nat \ {0}

VARIABLES
  up,            \* the process runs
  starts,        \* how often it was started
  enabled,       \* integrations in the cache
  deliveryLog,   \* claimed event keys
  calls,         \* calls[k]: the integrations notify() is sending k to, {} if not called
  result,        \* result[k][i]: sending, sent or failed
  attempts,      \* attempts[k][i]: attempts of the call in progress
  historyQueue,  \* history rows of status sent on their way
  history,       \* event keys with a row of status sent in the table
  confirmed,     \* history variable: keys a provider confirmed to this process
  pushed         \* history variable: keys some provider confirmed ever

engineVars == <<up, starts, enabled, deliveryLog, calls, result, attempts, historyQueue, history,
                confirmed, pushed>>

Idle == [i \in Integrations |-> "idle"]
NoAttempts == [i \in Integrations |-> 0]

EngineInit ==
  /\ up = TRUE
  /\ starts = 1
  /\ enabled = Integrations
  /\ deliveryLog = {}
  /\ calls = [k \in Keys |-> {}]
  /\ result = [k \in Keys |-> Idle]
  /\ attempts = [k \in Keys |-> NoAttempts]
  /\ historyQueue = <<>>
  /\ history = {}
  /\ confirmed = {}
  /\ pushed = {}

-----------------------------------------------------------------------------
(* notify().                                                               *)

\* With integrations and without a claim on the key: claim it, start sending.
\* (Otherwise notify() returns 0 and changes nothing.)
Notify(k) ==
  /\ up /\ calls[k] = {} /\ enabled # {} /\ k \notin deliveryLog
  /\ deliveryLog' = deliveryLog \cup {k}
  /\ calls' = [calls EXCEPT ![k] = enabled]
  /\ result' = [result EXCEPT ![k] = [i \in Integrations |-> IF i \in enabled THEN "sending" ELSE "idle"]]
  /\ UNCHANGED <<up, starts, enabled, attempts, historyQueue, history, confirmed, pushed>>

\* The provider takes the notification.
SendSucceeds(k, i) ==
  /\ up /\ result[k][i] = "sending"
  /\ attempts' = [attempts EXCEPT ![k][i] = @ + 1]
  /\ result' = [result EXCEPT ![k][i] = "sent"]
  /\ confirmed' = confirmed \cup {k}
  /\ pushed' = pushed \cup {k}
  /\ UNCHANGED <<up, starts, enabled, deliveryLog, calls, historyQueue, history>>

\* A transient error is retried until attempt MAX_RETRIES, others end at once.
SendFails(k, i, transient) ==
  /\ up /\ result[k][i] = "sending"
  /\ attempts' = [attempts EXCEPT ![k][i] = @ + 1]
  /\ result' = IF transient /\ attempts'[k][i] # MaxRetries
               THEN result
               ELSE [result EXCEPT ![k][i] = "failed"]
  /\ UNCHANGED <<up, starts, enabled, deliveryLog, calls, historyQueue, history, confirmed, pushed>>

Sent(k) == {i \in calls[k] : result[k][i] = "sent"}

\* Fault: the claim of a call that failed is kept.
ClaimKept(k) == deliveryLog' = deliveryLog

\* Fault: the claim is given up unless every integration took it.
ClaimUnlessAllSent(k) ==
  deliveryLog' = IF Sent(k) # calls[k] THEN deliveryLog \ {k} ELSE deliveryLog

\* sent == 0 removes the key.
ClaimSettled(k) ==
  deliveryLog' = IF Sent(k) = {} THEN deliveryLog \ {k} ELSE deliveryLog

\* join_all returned: one row per integration, dropped when the channel is
\* full; rows of failures are read by nobody here.
NotifyReturns(k) ==
  /\ up /\ calls[k] # {} /\ \A i \in calls[k] : result[k][i] # "sending"
  /\ ClaimSettled(k)
  /\ historyQueue' = LET rows == [n \in 1 .. Cardinality(Sent(k)) |-> k]
                         room == HistoryCapacity - Len(historyQueue)
                     IN historyQueue \o SubSeq(rows, 1, IF Len(rows) < room THEN Len(rows) ELSE room)
  /\ calls' = [calls EXCEPT ![k] = {}]
  /\ result' = [result EXCEPT ![k] = Idle]
  /\ attempts' = [attempts EXCEPT ![k] = NoAttempts]
  /\ UNCHANGED <<up, starts, enabled, history, confirmed, pushed>>

-----------------------------------------------------------------------------
(* The history writer, the integration cache, crash and restart.           *)

RowInserted ==
  /\ up /\ historyQueue # <<>>
  /\ historyQueue' = Tail(historyQueue)
  /\ history' = history \cup {Head(historyQueue)}
  /\ UNCHANGED <<up, starts, enabled, deliveryLog, calls, result, attempts, confirmed, pushed>>

RowDropped ==
  /\ up /\ historyQueue # <<>>
  /\ historyQueue' = Tail(historyQueue)
  /\ UNCHANGED <<up, starts, enabled, deliveryLog, calls, result, attempts, history, confirmed,
                 pushed>>

\* The user enables or disables an integration and the cache notices.
IntegrationToggled(i) ==
  /\ enabled' = IF i \in enabled THEN enabled \ {i} ELSE enabled \cup {i}
  /\ UNCHANGED <<up, starts, deliveryLog, calls, result, attempts, historyQueue, history, confirmed,
                 pushed>>

Crash ==
  /\ up /\ starts < MaxStarts
  /\ up' = FALSE
  /\ deliveryLog' = {}
  /\ calls' = [k \in Keys |-> {}]
  /\ result' = [k \in Keys |-> Idle]
  /\ attempts' = [k \in Keys |-> NoAttempts]
  /\ historyQueue' = <<>>
  /\ confirmed' = {}
  /\ UNCHANGED <<starts, enabled, history, pushed>>

\* Fault: a start begins with an empty log.
SeedNothing == deliveryLog' = {}

\* load_recent_event_keys, NotificationEngine::new.
Seed == deliveryLog' = history

Restart ==
  /\ ~up
  /\ up' = TRUE
  /\ starts' = starts + 1
  /\ Seed
  /\ UNCHANGED <<enabled, calls, result, attempts, historyQueue, history, confirmed, pushed>>

-----------------------------------------------------------------------------
EngineNext ==
  \/ \E k \in Keys : Notify(k) \/ NotifyReturns(k)
  \/ \E k \in Keys, i \in Integrations :
       SendSucceeds(k, i) \/ \E transient \in BOOLEAN : SendFails(k, i, transient)
  \/ RowInserted
  \/ RowDropped
  \/ \E i \in Integrations : IntegrationToggled(i)
  \/ Crash
  \/ Restart

EngineSpec == EngineInit /\ [][EngineNext]_engineVars

-----------------------------------------------------------------------------
EngineTypeOK ==
  /\ up \in BOOLEAN
  /\ starts \in 1 .. MaxStarts
  /\ enabled \subseteq Integrations
  /\ deliveryLog \subseteq Keys
  /\ calls \in [Keys -> SUBSET Integrations]
  /\ result \in [Keys -> [Integrations -> {"idle", "sending", "sent", "failed"}]]
  /\ attempts \in [Keys -> [Integrations -> 0 .. MaxRetries]]
  /\ historyQueue \in Seq(Keys) /\ Len(historyQueue) <= HistoryCapacity
  /\ history \subseteq Keys
  /\ confirmed \subseteq Keys
  /\ pushed \subseteq Keys

\* A claim that outlives its call silences the event for 30 days: it is there
\* only because some integration got the notification.
NoLeakedClaim ==
  \A k \in deliveryLog : calls[k] = {} => k \in pushed

\* "Never re-sends for the same key", while the process lives: a call that
\* reached some integration is the last one that sends, also to those that failed.
OncePerRun ==
  [][\A k \in Keys : calls[k] = {} /\ k \in confirmed => calls'[k] = {}]_engineVars

\* ... and over restarts once the row is durable: no crash, drop of another
\* row or change of integrations makes the key be sent again.
DurableIsFinal ==
  [][\A k \in history : calls'[k] # {} => calls[k] # {}]_engineVars
=============================================================================
