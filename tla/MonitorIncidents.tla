-------------------------- MODULE MonitorIncidents --------------------------
(***************************************************************************)
(* The life of the incidents of one monitor check: IncidentEvaluator opens *)
(* and resolves them from probe outcomes, IncidentOrchestrator persists a  *)
(* snapshot of each change and then mails the alert, NotificationTracker   *)
(* remembers which incident was alerted, and a restarted process takes all *)
(* of it up again from the rows of analytics.monitor_incidents.            *)
(* (backend/src/monitor: runner.rs, service.rs, incident/, alert/.)        *)
(*                                                                         *)
(* The HTTP runner handles one outcome at a time.  The TLS runner and the  *)
(* row writer run beside it on other threads: what the HTTP runner does    *)
(* between two accesses to a shared map is a step, and so is each retain   *)
(* of a prune.  Push notifications are NotificationEngine's.               *)
(***************************************************************************)
EXTENDS Naturals, Sequences

CONSTANTS
  Threshold,       \* alert.failure_threshold of the check
  Recovery,        \* recovery_success_threshold
  QueueCapacity,   \* INCIDENT_CHANNEL_CAPACITY
  AlertSettings,   \* values alert.enabled && on_down / on_recovery may take
  MayDelist,       \* whether the user may disable the check
  MaxIncidents,    \* bound: incidents opened
  MaxStarts        \* bound: process starts

ASSUME IncidentAssumption ==
  /\ Threshold \in Nat \ {0}
  /\ Recovery \in Nat \ {0}
  /\ QueueCapacity \in Nat \ {0}
  /\ AlertSettings \subseteq BOOLEAN
  /\ MayDelist \in BOOLEAN
  /\ MaxIncidents \in Nat \ {0}
  /\ MaxStarts \in Nat \ {0}

VARIABLES
  up,            \* the process runs
  starts,        \* how often it was started
  listed,        \* the check is in the monitor cache
  pc,            \* what the HTTP runner does next with an outcome, see Steps
  event,         \* the IncidentEvent it handles: incident and the state it entered
  pruning,       \* the map the TLS runner is about to prune, "none" if it is not pruning
  failures,      \* consecutive_failures reported by the backoff scheduler
  incident,      \* MonitorIncidentState: id (0 none), state, successes
  tracker,       \* NotificationTimestamps: last_down set?, last_down_incident
  queue,         \* rows between enqueue_rows and ClickHouse
  table,         \* table[i]: the latest row of incident i, NoRow if none
  opened,        \* incidents opened so far; the next id is opened + 1
  streak,        \* history: probes that succeeded since the last one that failed, of an open incident
  mailed,        \* history: incidents whose down alert a process saw confirmed
  forgotten      \* history: those since lost in a crash or hit by a prune, see Held

control == <<up, starts, listed, pc, event, pruning>>
history == <<streak, mailed, forgotten>>
vars == <<control, failures, incident, tracker, queue, table, opened, history>>

Incident == 1 .. MaxIncidents
NoRow == [state |-> "none", downAt |-> FALSE]
NoIncident == [id |-> 0, state |-> "resolved", successes |-> 0]
NoAlerts == [down |-> FALSE, downFor |-> 0]
NoEvent == [id |-> 0, state |-> "resolved"]

\* An outcome is probed, evaluated, persisted (read from the evaluator, then
\* completed from the tracker and queued), and checked against settings and
\* tracker before the alert is sent.
Steps == {"idle", "probing", "snapshot", "row", "notify", "alert"}
Open == incident.state = "ongoing" /\ incident.id # 0

Init ==
  /\ up = TRUE
  /\ starts = 1
  /\ listed = TRUE
  /\ pc = "idle"
  /\ event = NoEvent
  /\ pruning = "none"
  /\ failures = 0
  /\ incident = NoIncident
  /\ tracker = NoAlerts
  /\ queue = <<>>
  /\ table = [i \in Incident |-> NoRow]
  /\ opened = 0
  /\ streak = 0
  /\ mailed = {}
  /\ forgotten = {}

-----------------------------------------------------------------------------
(* The HTTP runner.                                                        *)

\* A tick finds the check in its snapshot and due, and spawns the probe.
StartProbe ==
  /\ up /\ pc = "idle" /\ listed
  /\ pc' = "probing"
  /\ UNCHANGED <<up, starts, listed, event, pruning, failures, incident, tracker, queue, table,
                 opened, history>>

\* The backoff counts the failure, and restarts the count when it escalates,
\* which is beyond every threshold.
CountFailure ==
  failures' \in IF failures < Threshold THEN {failures + 1} ELSE {Threshold, 0}

\* Fault: a failure during an open incident does not restart the successes.
EvaluateFailureKeepsSuccesses ==
  incident' = IF Open
              THEN incident
              ELSE [id |-> opened + 1, state |-> "ongoing", successes |-> 0]

\* Fault: an incident id is reused by the next outage.
EvaluateFailureReusesId ==
  incident' = [id        |-> IF incident.id # 0 THEN incident.id ELSE opened + 1,
               state     |-> "ongoing",
               successes |-> 0]

\* mark_ongoing, under a new id unless the incident is open already.
EvaluateFailure ==
  incident' = [id        |-> IF Open THEN incident.id ELSE opened + 1,
               state     |-> "ongoing",
               successes |-> 0]

\* The evaluator returned an event, which is persisted first.
EventReturned ==
  /\ pc' = "snapshot"
  /\ event' = [id |-> incident'.id, state |-> incident'.state]

\* evaluate_failure below the threshold of a new incident.
FailureTolerated ==
  /\ up /\ pc = "probing"
  /\ CountFailure
  /\ ~Open /\ failures' < Threshold
  /\ pc' = "idle"
  /\ streak' = 0
  /\ UNCHANGED <<up, starts, listed, event, pruning, incident, tracker, queue, table, opened,
                 mailed, forgotten>>

\* evaluate_failure, which holds the entry of the check throughout.
FailureEvaluated ==
  /\ up /\ pc = "probing"
  /\ CountFailure
  /\ Open \/ failures' >= Threshold
  /\ Open \/ opened < MaxIncidents
  /\ EvaluateFailure
  /\ opened' = IF incident'.id > opened THEN incident'.id ELSE opened
  /\ EventReturned
  /\ streak' = 0
  /\ UNCHANGED <<up, starts, listed, pruning, tracker, queue, table,
                 mailed, forgotten>>

\* evaluate_recovery without enough successes, or with nothing to resolve.
SuccessNoted ==
  /\ up /\ pc = "probing"
  /\ failures' = 0
  /\ ~Open \/ incident.successes + 1 < Recovery
  /\ incident' = IF Open THEN [incident EXCEPT !.successes = @ + 1] ELSE incident
  /\ pc' = "idle"
  /\ streak' = IF Open /\ streak < Recovery THEN streak + 1 ELSE streak
  /\ UNCHANGED <<up, starts, listed, event, pruning, tracker, queue, table, opened,
                 mailed, forgotten>>

\* evaluate_recovery with enough successes.
IncidentResolved ==
  /\ up /\ pc = "probing"
  /\ failures' = 0
  /\ Open /\ incident.successes + 1 >= Recovery
  /\ incident' = [incident EXCEPT !.state = "resolved", !.successes = @ + 1]
  /\ EventReturned
  /\ streak' = IF streak < Recovery THEN streak + 1 ELSE streak
  /\ UNCHANGED <<up, starts, listed, pruning, tracker, queue, table, opened,
                 mailed, forgotten>>

\* persist_incident_snapshot reads the evaluator, where a prune may have left
\* nothing; otherwise it is in the state of the event.
SnapshotTaken ==
  /\ up /\ pc = "snapshot"
  /\ pc' = IF incident.id # 0 THEN "row" ELSE "notify"
  /\ UNCHANGED <<up, starts, listed, event, pruning, failures, incident, tracker, queue, table,
                 opened, history>>

\* The row carries the tracker's per-check timestamps; enqueue_rows drops it
\* when the channel is full.
RowEnqueued ==
  /\ up /\ pc = "row"
  /\ queue' = IF Len(queue) < QueueCapacity
              THEN Append(queue, [id |-> event.id, state |-> event.state, downAt |-> tracker.down])
              ELSE queue
  /\ pc' = "notify"
  /\ UNCHANGED <<up, starts, listed, event, pruning, failures, incident, tracker, table, opened,
                 history>>

\* The guards of send_down_alert: the settings, then should_notify_down; those
\* of send_recovery_alert: the settings.
AlertDue(alerts) == alerts /\ (event.state = "ongoing" => tracker.downFor # event.id)

AlertDecided(alerts) ==
  /\ up /\ pc = "notify"
  /\ pc' = IF AlertDue(alerts) THEN "alert" ELSE "idle"
  /\ event' = IF AlertDue(alerts) THEN event ELSE NoEvent
  /\ UNCHANGED <<up, starts, listed, pruning, failures, incident, tracker, queue, table, opened,
                 history>>

EndAlert == pc' = "idle" /\ event' = NoEvent

Mailed(i) ==
  /\ mailed' = mailed \cup {i}
  /\ forgotten' = forgotten \ {i}

\* Fault: mark_notified_down is forgotten.
DownAlertSentUnmarked ==
  /\ up /\ pc = "alert" /\ event.state = "ongoing"
  /\ EndAlert
  /\ Mailed(event.id)
  /\ UNCHANGED <<up, starts, listed, pruning, failures, incident, tracker, queue, table, opened,
                 streak>>

\* dispatch() succeeded: mark_notified_down.
DownAlertSent ==
  /\ up /\ pc = "alert" /\ event.state = "ongoing"
  /\ EndAlert
  /\ Mailed(event.id)
  /\ tracker' = [down |-> TRUE, downFor |-> event.id]
  /\ UNCHANGED <<up, starts, listed, pruning, failures, incident, queue, table, opened,
                 streak>>

\* Fault: an alert that failed is marked as well.
DownAlertFailsMarked ==
  /\ up /\ pc = "alert" /\ event.state = "ongoing"
  /\ EndAlert
  /\ tracker' = [down |-> TRUE, downFor |-> event.id]
  /\ UNCHANGED <<up, starts, listed, pruning, failures, incident, queue, table, opened, history>>

\* dispatch() returned false, or there are no recipients.  The next failure
\* tries again; whether a failed mail arrived after all is not counted.
DownAlertFails ==
  /\ up /\ pc = "alert" /\ event.state = "ongoing"
  /\ EndAlert
  /\ UNCHANGED <<up, starts, listed, pruning, failures, incident, tracker, queue, table, opened,
                 history>>

\* The recovery alert is tried once, whatever becomes of it; last_recovery is
\* written and never read for a decision.
RecoveryAlertTried ==
  /\ up /\ pc = "alert" /\ event.state = "resolved"
  /\ EndAlert
  /\ UNCHANGED <<up, starts, listed, pruning, failures, incident, tracker, queue, table, opened,
                 history>>

-----------------------------------------------------------------------------
(* Beside the HTTP runner.                                                 *)

\* The worker of the channel writer inserts the next row, or fails to and
\* drops it.  The table keeps the row with the latest last_event_at.
RowInserted ==
  /\ up /\ queue # <<>>
  /\ queue' = Tail(queue)
  /\ table' = [table EXCEPT ![Head(queue).id] =
                  [state |-> Head(queue).state, downAt |-> Head(queue).downAt]]
  /\ UNCHANGED <<control, failures, incident, tracker, opened, history>>

RowDropped ==
  /\ up /\ queue # <<>>
  /\ queue' = Tail(queue)
  /\ UNCHANGED <<control, failures, incident, tracker, table, opened, history>>

\* The user disables or enables the check and the cache notices.
ListingChanges ==
  /\ MayDelist
  /\ listed' = ~listed
  /\ UNCHANGED <<up, starts, pc, event, pruning, failures, incident, tracker, queue, table, opened,
                 history>>

\* The HTTP runner prunes by the ids that are listed, between outcomes: its
\* backoff, the evaluator and the tracker.  No one looks at them in between
\* but the TLS runner, which could only prune them as well.
PruneInactive ==
  /\ up /\ ~listed /\ pc = "idle"
  /\ failures' = 0
  /\ incident' = NoIncident
  /\ tracker' = NoAlerts
  /\ UNCHANGED <<control, queue, table, opened, history>>

\* The TLS runner does so beside the HTTP runner, retain by retain, by ids it
\* has taken before; the check may be listed again meanwhile.
TlsPruneBegins ==
  /\ up /\ ~listed /\ pruning = "none"
  /\ pruning' = "evaluator"
  /\ UNCHANGED <<up, starts, listed, pc, event, failures, incident, tracker, queue, table, opened,
                 history>>

\* IncidentEvaluator::prune_inactive.
EvaluatorPruned ==
  /\ up /\ pruning = "evaluator"
  /\ pruning' = "tracker"
  /\ incident' = NoIncident
  /\ UNCHANGED <<up, starts, listed, pc, event, failures, tracker, queue, table, opened, history>>

\* The incidents that the evaluator holds open, or that the HTTP runner is
\* still to check against the tracker.
Held == {i \in Incident : \/ Open /\ incident.id = i
                          \/ pc \in {"snapshot", "row", "notify"} /\ event.id = i}

\* NotificationTracker::prune_inactive.
TrackerPruned ==
  /\ up /\ pruning = "tracker"
  /\ pruning' = "none"
  /\ tracker' = NoAlerts
  /\ forgotten' = forgotten \cup (Held \cap mailed)
  /\ UNCHANGED <<up, starts, listed, pc, event, failures, incident, queue, table, opened,
                 streak, mailed>>

-----------------------------------------------------------------------------
(* Crash and restart.                                                      *)

\* The bound on starts bounds the crashes: each is followed by a restart.
Crash ==
  /\ up /\ starts < MaxStarts
  /\ up' = FALSE
  /\ EndAlert
  /\ pruning' = "none"
  /\ failures' = 0
  /\ incident' = NoIncident
  /\ tracker' = NoAlerts
  /\ queue' = <<>>
  /\ streak' = 0
  /\ forgotten' = mailed
  /\ UNCHANGED <<starts, listed, table, opened, mailed>>

Seeds == {i \in Incident : table[i].state = "ongoing"}

\* warm_from_incidents: the seeds are applied in the order of their random
\* ids, so any of them, i, may end up as the incident of the check, and the
\* last one with a notified_down_at as the one that was alerted.
WarmFrom(i) ==
  /\ i \in Seeds
  /\ incident' = [id |-> i, state |-> "ongoing", successes |-> 0]
  /\ LET marked == {j \in Seeds : table[j].downAt}
     IN tracker' \in IF marked = {}
                     THEN {NoAlerts}
                     ELSE {[down |-> TRUE, downFor |-> j] :
                             j \in IF i \in marked THEN {i} ELSE marked}

\* IncidentOrchestrator::new.
Restart ==
  /\ ~up
  /\ up' = TRUE
  /\ starts' = starts + 1
  /\ \/ Seeds = {} /\ UNCHANGED <<incident, tracker>>
     \/ \E i \in Incident : WarmFrom(i)
  /\ UNCHANGED <<listed, pc, event, pruning, failures, queue, table, opened, history>>

-----------------------------------------------------------------------------
Runner ==
  \/ StartProbe
  \/ FailureTolerated
  \/ FailureEvaluated
  \/ SuccessNoted
  \/ IncidentResolved
  \/ SnapshotTaken
  \/ RowEnqueued
  \/ \E alerts \in AlertSettings : AlertDecided(alerts)
  \/ DownAlertSent
  \/ DownAlertFails
  \/ RecoveryAlertTried

Next ==
  \/ Runner
  \/ RowInserted
  \/ RowDropped
  \/ ListingChanges
  \/ PruneInactive
  \/ TlsPruneBegins
  \/ EvaluatorPruned
  \/ TrackerPruned
  \/ Crash
  \/ Restart

\* The runner keeps ticking, the writer's worker keeps running, and the mail
\* provider does not fail for ever.
Fairness ==
  /\ WF_vars(Runner)
  /\ WF_vars(RowInserted \/ RowDropped)
  /\ SF_vars(DownAlertSent)

Spec == Init /\ [][Next]_vars
FairSpec == Spec /\ Fairness

-----------------------------------------------------------------------------
TypeOK ==
  /\ up \in BOOLEAN
  /\ starts \in 1 .. MaxStarts
  /\ listed \in BOOLEAN
  /\ pc \in Steps
  /\ event \in [id : 0 .. opened, state : {"ongoing", "resolved"}]
  /\ pruning \in {"none", "evaluator", "tracker"}
  /\ failures \in 0 .. Threshold
  /\ incident \in [id : 0 .. opened, state : {"ongoing", "resolved"}, successes : 0 .. Recovery]
  /\ tracker \in [down : BOOLEAN, downFor : 0 .. opened]
  /\ queue \in Seq([id : 1 .. opened, state : {"ongoing", "resolved"}, downAt : BOOLEAN])
  /\ Len(queue) <= QueueCapacity
  /\ table \in [Incident -> [state : {"none", "ongoing", "resolved"}, downAt : BOOLEAN]]
  /\ opened \in 0 .. MaxIncidents
  /\ streak \in 0 .. Recovery
  /\ mailed \subseteq 1 .. opened
  /\ forgotten \subseteq mailed

EvaluatesTo(s) == pc = "probing" /\ pc' = "snapshot" /\ event'.state = s

\* An incident is resolved only by Recovery successful probes in a row, which
\* a failure, a restart or a prune in between starts over: no "false 'all
\* clear' notifications from a single lucky request".
RecoveryConfirmed == [][EvaluatesTo("resolved") => streak' >= Recovery]_vars

\* A row that says resolved is final: no snapshot queued before or after it,
\* by this process or the next one, makes the table show the incident open.
ResolvedRowIsFinal ==
  [][\A i \in Incident : table[i].state = "resolved" => table'[i].state = "resolved"]_vars

StartsDownAlert(i) == pc = "notify" /\ pc' = "alert" /\ event.state = "ongoing" /\ event.id = i

\* Once the provider confirmed the down alert of an incident, the process
\* starts no other for it, however often the check fails, is pruned or listed
\* again: except one after each prune of the tracker that hits the incident
\* between its evaluation and should_notify_down, or held open beside a prune
\* that is behind.
DownAlertOncePerRun ==
  [][\A i \in mailed : StartsDownAlert(i) => i \in forgotten]_vars

\* An incident the process holds open is nowhere on its way to, or in, the
\* table as resolved: neither a row queued before a prune nor one taken up by
\* a restart contradicts it.
OpenIsNotResolvedElsewhere ==
  Open => /\ table[incident.id].state # "resolved"
          /\ \A n \in 1 .. Len(queue) : queue[n].id = incident.id => queue[n].state = "ongoing"

\* An open incident that is not marked as alerted is mailed, although the
\* provider refuses now and then, unless it is resolved, pruned, lost in a
\* crash or no longer probed.
DownAlertEventually ==
  \A i \in Incident :
    (Open /\ incident.id = i /\ tracker.downFor # i)
      ~> (i \in mailed \/ ~Open \/ incident.id # i \/ ~listed)

-----------------------------------------------------------------------------
(* Claims of the code's comments and documents that restarts break.        *)

\* evaluator.rs: "This guarantees that once an incident is resolved, a future
\* outage creates a new incident_id."
ResolvedIsNeverReopened ==
  \A i \in Incident :
    [](event.id = i /\ event.state = "resolved" => [](Open => incident.id # i))

\* monitoring.mdx: when an incident opens "A Down alert email is sent (if
\* enabled)": an incident counts as notified only if its mail went out.
NotifiedMeansMailed == tracker.downFor # 0 => tracker.downFor \in mailed

\* notification_tracker.rs: "Tracks notification state to prevent duplicates":
\* the prune of the TLS runner, between the evaluation of a failure and
\* should_notify_down, makes the HTTP runner send a confirmed alert again.
ConfirmedIsNotRepeated == [][\A i \in mailed : ~StartsDownAlert(i)]_vars
=============================================================================
