----------------------- MODULE MonitorIncidents_proofs -----------------------
(***************************************************************************)
(* Proofs about MonitorIncidents, for any thresholds, channel capacity and *)
(* number of incidents and starts.  The argument: what the process holds   *)
(* about an incident, in the evaluator or in the hands of the HTTP runner, *)
(* is backed by what happened (its successes by the streak, a confirmed    *)
(* alert by the tracker, unless a prune hit it), and no row of an incident *)
(* that is open or about to be stored as such says that it is resolved, in *)
(* the channel or in the table.                                            *)
(***************************************************************************)
EXTENDS MonitorIncidents, SequenceTheorems, TLAPS

Row == [id : 1 .. opened, state : {"ongoing", "resolved"}, downAt : BOOLEAN]

\* The n-th row in the channel is a row of incident i in state s.
Queued(n, i, s) == n \in 1 .. Len(queue) /\ queue[n].id = i /\ queue[n].state = s

\* A crash leaves nothing but the table.
DownIsEmpty ==
  ~up => /\ starts < MaxStarts
         /\ pc = "idle" /\ event = NoEvent /\ queue = <<>> /\ mailed = forgotten
         /\ incident = NoIncident /\ tracker = NoAlerts

\* The successes of an open incident were in a row, and not yet enough.
Streaks == Open => incident.successes <= streak /\ incident.successes < Recovery

\* What the HTTP runner handles is what the evaluator holds, or it was pruned.
EventInHand ==
  pc \notin {"idle", "probing"} =>
    /\ event.id # 0
    /\ event.state = "ongoing" => (Open => incident.id = event.id)
    /\ event.state = "resolved" => ~Open

\* The tracker remembers a confirmed alert as long as it may be asked for it.
Remembered == \A i \in mailed \ forgotten : i \in Held => tracker.downFor = i

\* Rows of an incident arrive in the order of its states.
RowOrder ==
  /\ \A i \in Incident : table[i].state # "none" => i <= opened
  /\ \A i \in Incident, n \in 1 .. Len(queue) :
       table[i].state = "resolved" => ~Queued(n, i, "ongoing")
  /\ \A i \in Incident, m, n \in 1 .. Len(queue) :
       m < n /\ Queued(m, i, "resolved") => ~Queued(n, i, "ongoing")

\* The incident is open, or about to be stored as open.
Live(i) == \/ Open /\ incident.id = i
           \/ pc \in {"snapshot", "row"} /\ event.state = "ongoing" /\ event.id = i

LiveIsOpen ==
  \A i \in Incident : Live(i) =>
    /\ table[i].state # "resolved"
    /\ \A n \in 1 .. Len(queue) : ~Queued(n, i, "resolved")

IncidentInvariant ==
  TypeOK /\ DownIsEmpty /\ Streaks /\ EventInHand /\ Remembered /\ RowOrder /\ LiveIsOpen

-----------------------------------------------------------------------------
LEMMA IncidentsInit == Init => IncidentInvariant
<1> SUFFICES ASSUME Init PROVE IncidentInvariant
  OBVIOUS
<1>1. ~Open /\ queue = <<>> /\ Len(queue) = 0 /\ \A i \in Incident : table[i].state = "none"
  BY DEF Init, Open, NoIncident, NoRow
<1>2. TypeOK
  <2>1. table \in [Incident -> [state : {"none", "ongoing", "resolved"}, downAt : BOOLEAN]]
    BY DEF Init, NoRow
  <2>2. /\ incident \in [id : 0 .. opened, state : {"ongoing", "resolved"}, successes : 0 .. Recovery]
        /\ tracker \in [down : BOOLEAN, downFor : 0 .. opened]
        /\ event \in [id : 0 .. opened, state : {"ongoing", "resolved"}]
    BY IncidentAssumption DEF Init, NoIncident, NoAlerts, NoEvent, IncidentAssumption
  <2>3. queue \in Seq([id : 1 .. opened, state : {"ongoing", "resolved"}, downAt : BOOLEAN])
    BY <1>1
  <2> QED
    BY <1>1, <2>1, <2>2, <2>3, IncidentAssumption DEF Init, TypeOK, Steps, IncidentAssumption
<1> QED
  BY <1>1, <1>2 DEF Init, IncidentInvariant, DownIsEmpty, Streaks, EventInHand, Remembered, RowOrder,
                    LiveIsOpen, Live

\* What the worker of the writer takes from the channel is its first row.
LEMMA RowTaken ==
  ASSUME TypeOK, queue # <<>>, queue' = Tail(queue), opened' = opened
  PROVE  /\ queue' \in Seq(Row) /\ Len(queue') <= QueueCapacity
         /\ Head(queue) = queue[1] /\ queue[1] \in Row /\ 1 \in 1 .. Len(queue)
         /\ \A n \in 1 .. Len(queue') : n + 1 \in 2 .. Len(queue) /\ queue'[n] = queue[n + 1]
<1>1. queue \in Seq(Row) /\ Len(queue) <= QueueCapacity /\ QueueCapacity \in Nat
  BY IncidentAssumption DEF TypeOK, Row, IncidentAssumption
<1>2. Len(queue) \in Nat \ {0} /\ Head(queue) = queue[1] /\ queue[1] \in Row
  BY <1>1
<1>3. queue' \in Seq(Row) /\ Len(queue') = Len(queue) - 1
  BY <1>1
<1>4. \A n \in 1 .. Len(queue') : queue'[n] = queue[n + 1]
  BY <1>1, <1>3
<1> QED
  BY <1>1, <1>2, <1>3, <1>4

\* A row that is enqueued is the last one, or lost.
LEMMA RowAppended ==
  ASSUME TypeOK, RowEnqueued, event.id # 0
  PROVE  /\ queue' \in Seq(Row) /\ Len(queue') <= QueueCapacity
         /\ \A n \in 1 .. Len(queue') :
              \/ n \in 1 .. Len(queue) /\ queue'[n] = queue[n]
              \/ n = Len(queue) + 1 /\ queue'[n].id = event.id /\ queue'[n].state = event.state
<1> DEFINE row == [id |-> event.id, state |-> event.state, downAt |-> tracker.down]
<1>1. queue \in Seq(Row) /\ Len(queue) <= QueueCapacity /\ QueueCapacity \in Nat
  BY IncidentAssumption DEF TypeOK, Row, IncidentAssumption
<1>2. row \in Row
  BY DEF Row, TypeOK
<1>3. queue' = (IF Len(queue) < QueueCapacity THEN Append(queue, row) ELSE queue)
  BY DEF RowEnqueued
<1>4. row.id = event.id /\ row.state = event.state
  OBVIOUS
<1> HIDE DEF row
<1>5. CASE Len(queue) < QueueCapacity
  BY <1>1, <1>2, <1>3, <1>4, <1>5
<1>6. CASE ~(Len(queue) < QueueCapacity)
  BY <1>1, <1>3, <1>6
<1> QED
  BY <1>5, <1>6

-----------------------------------------------------------------------------
(* Steps that write no row.                                                *)

\* No incident is opened, no row moves, and nothing becomes live or held.
Rowless ==
  /\ UNCHANGED <<queue, table, opened, mailed>>
  /\ \A i \in Incident : Live(i)' => Live(i)

LEMMA RowsStay ==
  ASSUME IncidentInvariant, Rowless
  PROVE  RowOrder' /\ LiveIsOpen'
<1>1. RowOrder'
  BY DEF Rowless, IncidentInvariant, RowOrder, Queued
<1>2. LiveIsOpen'
  BY DEF Rowless, IncidentInvariant, LiveIsOpen, Queued
<1> QED
  BY <1>1, <1>2

LEMMA ProbeSteps ==
  ASSUME IncidentInvariant, StartProbe \/ FailureTolerated \/ SuccessNoted
  PROVE  IncidentInvariant'
<1>1. CASE StartProbe
  <2>1. Rowless
    BY <1>1 DEF StartProbe, Rowless, history, Open, Live
  <2>2. TypeOK' /\ DownIsEmpty' /\ Streaks' /\ EventInHand' /\ Remembered'
    BY <1>1 DEF StartProbe, history, Open, Held, IncidentInvariant, TypeOK, Steps, DownIsEmpty, Streaks,
                EventInHand, Remembered
  <2> QED
    BY <2>1, <2>2, RowsStay DEF IncidentInvariant
<1>2. CASE FailureTolerated
  <2>1. UNCHANGED <<queue, table, opened, mailed, forgotten, tracker>> /\ ~Open' /\ pc' = "idle"
    BY <1>2 DEF FailureTolerated, Open
  <2>2. Rowless
    BY <2>1 DEF Rowless, Live
  <2>3. failures' \in 0 .. Threshold
    BY <1>2, IncidentAssumption DEF FailureTolerated, CountFailure, IncidentAssumption, IncidentInvariant, TypeOK
  <2>4. TypeOK'
    BY <1>2, <2>3, IncidentAssumption
    DEF FailureTolerated, IncidentInvariant, TypeOK, Steps, IncidentAssumption
  <2>5. DownIsEmpty' /\ Streaks' /\ EventInHand' /\ Remembered'
    BY <1>2, <2>1 DEF FailureTolerated, IncidentInvariant, DownIsEmpty, Streaks, EventInHand, Remembered, Held
  <2> QED
    BY <2>2, <2>4, <2>5, RowsStay DEF IncidentInvariant
<1>3. CASE SuccessNoted
  <2>1. incident \in [id : 0 .. opened, state : {"ongoing", "resolved"}, successes : 0 .. Recovery]
    BY DEF IncidentInvariant, TypeOK
  <2>2. Recovery \in Nat \ {0} /\ streak \in 0 .. Recovery
    BY IncidentAssumption DEF IncidentAssumption, IncidentInvariant, TypeOK
  <2>3. /\ incident'.id = incident.id /\ incident'.state = incident.state
        /\ Open => incident'.successes = incident.successes + 1 /\ incident'.successes < Recovery
        /\ ~Open => incident' = incident
        /\ incident' \in [id : 0 .. opened, state : {"ongoing", "resolved"}, successes : 0 .. Recovery]
    BY <1>3, <2>1, <2>2 DEF SuccessNoted, Open
  <2>4. /\ UNCHANGED <<queue, table, opened, mailed, forgotten, tracker>> /\ pc' = "idle"
        /\ Open' <=> Open
    BY <1>3, <2>3 DEF SuccessNoted, Open
  <2>5. Rowless
    BY <2>3, <2>4 DEF Rowless, Live
  <2>6. streak' \in 0 .. Recovery /\ (Open => streak' = streak + 1 \/ streak' = Recovery)
    BY <1>3, <2>2 DEF SuccessNoted
  <2>7. TypeOK'
    BY <1>3, <2>2, <2>3, <2>6, IncidentAssumption
    DEF SuccessNoted, IncidentInvariant, TypeOK, Steps, IncidentAssumption
  <2>8. Streaks'
    BY <2>1, <2>2, <2>3, <2>4, <2>6 DEF IncidentInvariant, Streaks
  <2>9. DownIsEmpty' /\ EventInHand' /\ Remembered'
    BY <1>3, <2>3, <2>4 DEF SuccessNoted, IncidentInvariant, DownIsEmpty, EventInHand, Remembered, Held
  <2> QED
    BY <2>5, <2>7, <2>8, <2>9, RowsStay DEF IncidentInvariant
<1> QED
  BY <1>1, <1>2, <1>3

LEMMA EvaluationSteps ==
  ASSUME IncidentInvariant, FailureEvaluated \/ IncidentResolved
  PROVE  /\ IncidentInvariant'
         /\ IncidentResolved => streak' >= Recovery
<1>1. /\ Recovery \in Nat \ {0} /\ MaxIncidents \in Nat \ {0} /\ opened \in 0 .. MaxIncidents
      /\ incident \in [id : 0 .. opened, state : {"ongoing", "resolved"}, successes : 0 .. Recovery]
      /\ streak \in 0 .. Recovery
      /\ mailed \subseteq 1 .. opened /\ forgotten \subseteq mailed
  BY IncidentAssumption DEF IncidentAssumption, IncidentInvariant, TypeOK
<1>2. /\ UNCHANGED <<up, starts, listed, pruning, tracker, queue, table, mailed, forgotten>>
      /\ up /\ pc' = "snapshot" /\ event' = [id |-> incident'.id, state |-> incident'.state]
  BY DEF FailureEvaluated, IncidentResolved, EventReturned
<1>3. CASE FailureEvaluated
  <2>1. /\ incident' = [id |-> IF Open THEN incident.id ELSE opened + 1, state |-> "ongoing", successes |-> 0]
        /\ incident'.id = (IF Open THEN incident.id ELSE opened + 1)
        /\ incident'.state = "ongoing" /\ incident'.successes = 0
    BY <1>3 DEF FailureEvaluated, EvaluateFailure
  <2>2. /\ opened' = (IF Open THEN opened ELSE opened + 1)
        /\ opened' \in 0 .. MaxIncidents /\ incident'.id \in 1 .. opened'
    BY <1>1, <1>3, <2>1 DEF FailureEvaluated, Open
  <2>3. event'.id = incident'.id /\ event'.state = "ongoing"
    BY <1>2, <2>1
  <2>4. TypeOK'
    <3>1. incident' \in [id : 0 .. opened', state : {"ongoing", "resolved"}, successes : 0 .. Recovery]
      BY <1>1, <2>1, <2>2
    <3>2. event' \in [id : 0 .. opened', state : {"ongoing", "resolved"}]
      BY <1>2, <2>1, <2>2
    <3>3. 0 .. opened \subseteq 0 .. opened' /\ 1 .. opened \subseteq 1 .. opened'
      BY <1>1, <2>2
    <3>4. queue' \in Seq([id : 1 .. opened', state : {"ongoing", "resolved"}, downAt : BOOLEAN])
      <4>1. Row \subseteq Row'
        BY <3>3 DEF Row
      <4>2. queue \in Seq(Row)
        BY DEF IncidentInvariant, TypeOK, Row
      <4>3. queue \in Seq(Row')
        BY <4>1, <4>2
      <4> QED
        BY <1>2, <4>3 DEF Row
    <3>5. tracker' \in [down : BOOLEAN, downFor : 0 .. opened'] /\ mailed' \subseteq 1 .. opened'
          /\ forgotten' \subseteq mailed'
      BY <1>1, <1>2, <3>3 DEF IncidentInvariant, TypeOK
    <3>6. failures' \in 0 .. Threshold /\ streak' \in 0 .. Recovery
      BY <1>1, <1>3, IncidentAssumption
      DEF FailureEvaluated, CountFailure, IncidentAssumption, IncidentInvariant, TypeOK
    <3> QED
      BY <1>2, <2>2, <3>1, <3>2, <3>4, <3>5, <3>6 DEF IncidentInvariant, TypeOK, Steps
  <2>5. /\ table[incident'.id].state # "resolved"
        /\ \A n \in 1 .. Len(queue) : ~Queued(n, incident'.id, "resolved")
    <3>1. CASE Open
      BY <1>1, <2>1, <2>2, <3>1 DEF IncidentInvariant, LiveIsOpen, Live, Incident
    <3>2. CASE ~Open
      <4>1. incident'.id = opened + 1 /\ incident'.id \in Incident
        BY <1>1, <2>1, <2>2, <3>2 DEF Incident
      <4>2. \A n \in 1 .. Len(queue) : queue[n].id \in 1 .. opened
        <5>1. queue \in Seq(Row) /\ \A row \in Row : row.id \in 1 .. opened
          BY DEF IncidentInvariant, TypeOK, Row
        <5> QED
          BY <5>1
      <4>3. /\ \A i \in Incident : table[i].state # "none" => i <= opened
            /\ table \in [Incident -> [state : {"none", "ongoing", "resolved"}, downAt : BOOLEAN]]
        BY DEF IncidentInvariant, RowOrder, TypeOK
      <4> QED
        BY <1>1, <4>1, <4>2, <4>3 DEF Queued
    <3> QED
      BY <3>1, <3>2
  <2>6. LiveIsOpen'
    BY <1>2, <2>3, <2>5 DEF LiveIsOpen, Live, Queued
  <2>7. RowOrder'
    BY <1>1, <1>2, <2>2 DEF IncidentInvariant, RowOrder, Queued, Incident
  <2>8. Streaks' /\ DownIsEmpty'
    BY <1>1, <1>2, <1>3, <2>1 DEF FailureEvaluated, Streaks, DownIsEmpty
  <2>9. EventInHand'
    BY <1>2, <2>2, <2>3 DEF EventInHand
  <2>10. Remembered'
    <3>1. \A i \in Held' : i = incident'.id
      BY <1>2, <2>3 DEF Held
    <3>2. incident'.id \in mailed => Open /\ incident.id = incident'.id /\ incident.id \in Held
      BY <1>1, <2>1 DEF Held, Incident
    <3> QED
      BY <1>2, <3>1, <3>2 DEF IncidentInvariant, Remembered
  <2>11. ~IncidentResolved
    BY <2>1 DEF IncidentResolved
  <2> QED
    BY <2>4, <2>6, <2>7, <2>8, <2>9, <2>10, <2>11 DEF IncidentInvariant
<1>4. CASE IncidentResolved
  <2>1. /\ incident' = [incident EXCEPT !.state = "resolved", !.successes = @ + 1]
        /\ incident'.id = incident.id /\ incident.id # 0 /\ incident'.state = "resolved" /\ Open /\ ~Open'
        /\ opened' = opened
    BY <1>1, <1>4 DEF IncidentResolved, Open
  <2>2. /\ incident.successes + 1 >= Recovery /\ incident.successes <= streak
        /\ incident.successes < Recovery
        /\ streak' = (IF streak < Recovery THEN streak + 1 ELSE streak)
    BY <1>4 DEF IncidentResolved, IncidentInvariant, Streaks
  <2>3. streak' = Recovery
    BY <1>1, <2>2
  <2>4. event'.id = incident.id /\ event'.state = "resolved"
    BY <1>2, <2>1
  <2>5. TypeOK'
    <3>1. incident' \in [id : 0 .. opened', state : {"ongoing", "resolved"}, successes : 0 .. Recovery]
      <4>1. incident.successes + 1 \in 0 .. Recovery
        BY <1>1, <2>2
      <4>2. incident' = [id |-> incident.id, state |-> "resolved", successes |-> incident.successes + 1]
        BY <1>1, <2>1
      <4> QED
        BY <1>1, <2>1, <4>1, <4>2
    <3>2. event' \in [id : 0 .. opened', state : {"ongoing", "resolved"}]
      BY <1>1, <1>2, <2>1
    <3>3. failures' \in 0 .. Threshold /\ streak' \in 0 .. Recovery
      BY <1>1, <1>4, <2>3, IncidentAssumption DEF IncidentResolved, IncidentAssumption
    <3> QED
      BY <1>2, <2>1, <3>1, <3>2, <3>3 DEF IncidentInvariant, TypeOK, Steps
  <2>6. Rowless
    BY <1>2, <2>1, <2>4 DEF Rowless, Live
  <2>7. Streaks' /\ DownIsEmpty' /\ EventInHand'
    BY <1>2, <2>1, <2>4 DEF Streaks, DownIsEmpty, EventInHand
  <2>8. Remembered'
    <3>1. \A i \in Held' : i \in Held
      BY <1>2, <2>1, <2>4 DEF Held
    <3> QED
      BY <1>2, <3>1 DEF IncidentInvariant, Remembered
  <2> QED
    BY <1>1, <2>3, <2>5, <2>6, <2>7, <2>8, RowsStay DEF IncidentInvariant
<1> QED
  BY <1>3, <1>4

LEMMA AlertSteps ==
  ASSUME IncidentInvariant,
         \/ SnapshotTaken \/ DownAlertSent \/ DownAlertFails \/ RecoveryAlertTried
         \/ \E alerts \in AlertSettings : AlertDecided(alerts)
  PROVE  IncidentInvariant'
<1>1. CASE SnapshotTaken \/ \E alerts \in AlertSettings : AlertDecided(alerts)
  <2>1. /\ UNCHANGED <<up, starts, listed, pruning, failures, incident, tracker, queue, table, opened, history>>
        /\ pc \in {"snapshot", "notify"} /\ up
        /\ \/ event' = event /\ pc' \in {"row", "notify", "alert"}
              /\ (pc' = "row" => pc = "snapshot")
           \/ event' = NoEvent /\ pc' = "idle"
    BY <1>1 DEF SnapshotTaken, AlertDecided
  <2>2. event' \in [id : 0 .. opened, state : {"ongoing", "resolved"}]
    BY <2>1, IncidentAssumption DEF NoEvent, IncidentInvariant, TypeOK, IncidentAssumption
  <2>3. TypeOK'
    BY <2>1, <2>2 DEF history, IncidentInvariant, TypeOK, Steps
  <2>4. Rowless
    BY <2>1 DEF Rowless, Live, Open, history
  <2>5. DownIsEmpty' /\ Streaks' /\ EventInHand' /\ Remembered'
    BY <2>1 DEF history, Open, Held, IncidentInvariant, DownIsEmpty, Streaks, EventInHand, Remembered
  <2> QED
    BY <2>3, <2>4, <2>5, RowsStay DEF IncidentInvariant
<1>2. CASE DownAlertSent
  <2>1. event.id \in 1 .. opened /\ (Open => incident.id = event.id)
    BY <1>2 DEF DownAlertSent, IncidentInvariant, TypeOK, EventInHand
  <2>2. tracker' \in [down : BOOLEAN, downFor : 0 .. opened] /\ tracker'.downFor = event.id
    BY <1>2, <2>1 DEF DownAlertSent
  <2>3. /\ UNCHANGED <<up, starts, listed, pruning, failures, incident, queue, table, opened, streak>>
        /\ mailed' = mailed \cup {event.id} /\ forgotten' = forgotten \ {event.id}
        /\ pc' = "idle" /\ event' = NoEvent /\ up
    BY <1>2 DEF DownAlertSent, EndAlert, Mailed
  <2>4. event' \in [id : 0 .. opened, state : {"ongoing", "resolved"}]
    BY <2>3, IncidentAssumption DEF NoEvent, IncidentInvariant, TypeOK, IncidentAssumption
  <2>5. TypeOK'
    BY <2>1, <2>2, <2>3, <2>4 DEF IncidentInvariant, TypeOK, Steps
  <2>6. RowOrder' /\ LiveIsOpen'
    BY <2>3 DEF IncidentInvariant, RowOrder, LiveIsOpen, Live, Open, Queued
  <2>7. DownIsEmpty' /\ Streaks' /\ EventInHand' /\ Remembered'
    BY <2>1, <2>2, <2>3
    DEF Open, Held, IncidentInvariant, DownIsEmpty, Streaks, EventInHand, Remembered
  <2> QED
    BY <2>5, <2>6, <2>7 DEF IncidentInvariant
<1>3. CASE DownAlertFails \/ RecoveryAlertTried
  <2>1. /\ UNCHANGED <<up, starts, listed, pruning, failures, incident, tracker, queue, table, opened, history>>
        /\ pc' = "idle" /\ event' = NoEvent /\ up
    BY <1>3 DEF DownAlertFails, RecoveryAlertTried, EndAlert
  <2>2. event' \in [id : 0 .. opened, state : {"ongoing", "resolved"}]
    BY <2>1, IncidentAssumption DEF NoEvent, IncidentInvariant, TypeOK, IncidentAssumption
  <2>3. TypeOK'
    BY <2>1, <2>2 DEF history, IncidentInvariant, TypeOK, Steps
  <2>4. Rowless
    BY <2>1 DEF Rowless, Live, Open, history
  <2>5. DownIsEmpty' /\ Streaks' /\ EventInHand' /\ Remembered'
    BY <2>1 DEF history, Open, Held, IncidentInvariant, DownIsEmpty, Streaks, EventInHand, Remembered
  <2> QED
    BY <2>3, <2>4, <2>5, RowsStay DEF IncidentInvariant
<1> QED
  BY <1>1, <1>2, <1>3

\* A prune forgets, and what it forgets of a held incident is counted.
LEMMA PruneSteps ==
  ASSUME IncidentInvariant,
         ListingChanges \/ PruneInactive \/ TlsPruneBegins \/ EvaluatorPruned \/ TrackerPruned
  PROVE  IncidentInvariant'
<1>1. CASE ListingChanges \/ TlsPruneBegins
  <2>1. /\ UNCHANGED <<up, starts, pc, event, failures, incident, tracker, queue, table, opened, history>>
        /\ listed' \in BOOLEAN /\ pruning' \in {"none", "evaluator", "tracker"}
    BY <1>1 DEF ListingChanges, TlsPruneBegins, IncidentInvariant, TypeOK
  <2>2. Rowless
    BY <2>1 DEF Rowless, Live, Open, history
  <2>3. TypeOK' /\ DownIsEmpty' /\ Streaks' /\ EventInHand' /\ Remembered'
    BY <2>1 DEF history, Open, Held, IncidentInvariant, TypeOK, DownIsEmpty, Streaks, EventInHand, Remembered
  <2> QED
    BY <2>2, <2>3, RowsStay DEF IncidentInvariant
<1>2. CASE PruneInactive \/ EvaluatorPruned
  <2>1. /\ UNCHANGED <<up, starts, listed, pc, event, queue, table, opened, history>> /\ up
        /\ incident' = NoIncident /\ ~Open'
        /\ pruning' \in {"none", "evaluator", "tracker"} /\ failures' \in 0 .. Threshold
        /\ tracker' \in {tracker, NoAlerts} /\ (tracker' # tracker => pc = "idle")
    BY <1>2, IncidentAssumption
    DEF PruneInactive, EvaluatorPruned, control, NoIncident, Open, IncidentInvariant, TypeOK, IncidentAssumption
  <2>2. /\ incident' \in [id : 0 .. opened, state : {"ongoing", "resolved"}, successes : 0 .. Recovery]
        /\ tracker' \in [down : BOOLEAN, downFor : 0 .. opened]
    <3>1. opened \in Nat /\ Recovery \in Nat /\ tracker \in [down : BOOLEAN, downFor : 0 .. opened]
      BY IncidentAssumption DEF IncidentInvariant, TypeOK, IncidentAssumption
    <3>2. NoIncident \in [id : 0 .. opened, state : {"ongoing", "resolved"}, successes : 0 .. Recovery]
      BY <3>1 DEF NoIncident
    <3>3. NoAlerts \in [down : BOOLEAN, downFor : 0 .. opened]
      BY <3>1 DEF NoAlerts
    <3> QED
      BY <2>1, <3>1, <3>2, <3>3
  <2>3. TypeOK'
    BY <2>1, <2>2 DEF history, IncidentInvariant, TypeOK
  <2>4. Rowless
    BY <2>1 DEF Rowless, Live, history
  <2>5. DownIsEmpty' /\ Streaks' /\ EventInHand'
    BY <2>1 DEF history, IncidentInvariant, DownIsEmpty, Streaks, EventInHand
  <2>6. Remembered'
    BY <2>1 DEF history, Held, IncidentInvariant, Remembered
  <2> QED
    BY <2>3, <2>4, <2>5, <2>6, RowsStay DEF IncidentInvariant
<1>3. CASE TrackerPruned
  <2>1. /\ UNCHANGED <<up, starts, listed, pc, event, failures, incident, queue, table, opened, streak, mailed>>
        /\ up /\ pruning' = "none" /\ tracker' = NoAlerts /\ forgotten' = forgotten \cup (Held \cap mailed)
    BY <1>3 DEF TrackerPruned
  <2>2. tracker' \in [down : BOOLEAN, downFor : 0 .. opened]
    BY <2>1, IncidentAssumption DEF NoAlerts, IncidentInvariant, TypeOK, IncidentAssumption
  <2>3. TypeOK'
    BY <2>1, <2>2 DEF IncidentInvariant, TypeOK
  <2>4. Rowless
    BY <2>1 DEF Rowless, Live, Open
  <2>5. Held' = Held
    BY <2>1 DEF Held, Open
  <2>6. DownIsEmpty' /\ Streaks' /\ EventInHand' /\ Remembered'
    BY <2>1, <2>5 DEF Open, IncidentInvariant, DownIsEmpty, Streaks, EventInHand, Remembered
  <2> QED
    BY <2>3, <2>4, <2>6, RowsStay DEF IncidentInvariant
<1> QED
  BY <1>1, <1>2, <1>3

-----------------------------------------------------------------------------
(* Steps that write or move a row.                                         *)

\* A row is appended in the order of its incident's states.
LEMMA EnqueueStep ==
  ASSUME IncidentInvariant, RowEnqueued
  PROVE  IncidentInvariant'
<1>1. /\ UNCHANGED <<up, starts, listed, event, pruning, failures, incident, tracker, table, opened, history>>
      /\ up /\ pc = "row" /\ pc' = "notify" /\ event.id # 0 /\ event.id \in Incident
      /\ event.state \in {"ongoing", "resolved"}
      /\ event.state = "resolved" => ~Open
      /\ event.state = "ongoing" => Live(event.id)
  BY IncidentAssumption
  DEF RowEnqueued, IncidentInvariant, EventInHand, TypeOK, Incident, Live, IncidentAssumption
<1>2. /\ queue' \in Seq(Row) /\ Len(queue') <= QueueCapacity
      /\ \A n \in 1 .. Len(queue') :
           \/ n \in 1 .. Len(queue) /\ queue'[n] = queue[n]
           \/ n = Len(queue) + 1 /\ queue'[n].id = event.id /\ queue'[n].state = event.state
  BY <1>1, RowAppended DEF IncidentInvariant
<1>3. Len(queue) \in Nat /\ Len(queue') \in Nat
  BY <1>2 DEF IncidentInvariant, TypeOK
<1>4. event.state = "ongoing" =>
        /\ table[event.id].state # "resolved"
        /\ \A n \in 1 .. Len(queue) : ~(queue[n].id = event.id /\ queue[n].state = "resolved")
  BY <1>1 DEF IncidentInvariant, LiveIsOpen, Queued
<1>5. TypeOK'
  BY <1>1, <1>2 DEF IncidentInvariant, TypeOK, Row, Steps, history
<1>6. RowOrder'
  <2>1. \A i \in Incident, n \in 1 .. Len(queue') :
          table[i].state = "resolved" => ~(queue'[n].id = i /\ queue'[n].state = "ongoing")
    BY <1>2, <1>4 DEF IncidentInvariant, RowOrder, Queued
  <2>2. \A i \in Incident, m, n \in 1 .. Len(queue') :
          m < n /\ queue'[m].id = i /\ queue'[m].state = "resolved" =>
            ~(queue'[n].id = i /\ queue'[n].state = "ongoing")
    BY <1>2, <1>3, <1>4 DEF IncidentInvariant, RowOrder, Queued
  <2> QED
    BY <1>1, <2>1, <2>2 DEF IncidentInvariant, RowOrder, Queued
<1>7. LiveIsOpen'
  <2> SUFFICES ASSUME NEW i \in Incident, Open, incident.id = i
               PROVE  /\ table[i].state # "resolved"
                      /\ \A n \in 1 .. Len(queue') : ~(queue'[n].id = i /\ queue'[n].state = "resolved")
    BY <1>1 DEF LiveIsOpen, Live, Open, Queued
  <2>1. /\ table[i].state # "resolved"
        /\ \A n \in 1 .. Len(queue) : ~(queue[n].id = i /\ queue[n].state = "resolved")
    BY DEF IncidentInvariant, LiveIsOpen, Live, Queued
  <2>2. event.state # "resolved"
    BY <1>1
  <2> QED
    BY <1>2, <2>1, <2>2
<1>8. DownIsEmpty' /\ Streaks' /\ EventInHand' /\ Remembered'
  BY <1>1 DEF history, Open, Held, IncidentInvariant, DownIsEmpty, Streaks, EventInHand, Remembered
<1> QED
  BY <1>5, <1>6, <1>7, <1>8 DEF IncidentInvariant

LEMMA WriterSteps ==
  ASSUME IncidentInvariant, RowInserted \/ RowDropped
  PROVE  /\ IncidentInvariant'
         /\ \A i \in Incident : table[i].state = "resolved" => table'[i].state = "resolved"
<1> DEFINE row == Head(queue)
<1>1. /\ queue' \in Seq(Row) /\ Len(queue') <= QueueCapacity
      /\ row = queue[1] /\ row \in Row /\ 1 \in 1 .. Len(queue) /\ Len(queue) \in Nat
      /\ \A n \in 1 .. Len(queue') : n + 1 \in 2 .. Len(queue) /\ queue'[n] = queue[n + 1]
  <2>1. TypeOK /\ queue # <<>> /\ queue' = Tail(queue) /\ opened' = opened
    BY DEF RowInserted, RowDropped, IncidentInvariant
  <2>2. Len(queue) \in Nat
    BY DEF IncidentInvariant, TypeOK
  <2> QED
    BY <2>1, <2>2, RowTaken
<1>2. UNCHANGED <<control, failures, incident, tracker, opened, history>> /\ up
  BY DEF RowInserted, RowDropped
<1>3. /\ opened \in 0 .. MaxIncidents /\ MaxIncidents \in Nat \ {0}
      /\ table \in [Incident -> [state : {"none", "ongoing", "resolved"}, downAt : BOOLEAN]]
  BY IncidentAssumption DEF IncidentAssumption, IncidentInvariant, TypeOK
<1>4. row.id \in Incident /\ row.id <= opened /\ row.state \in {"ongoing", "resolved"} /\ row.downAt \in BOOLEAN
  BY <1>1, <1>3 DEF Row, Incident
<1>5. table' \in {table, [table EXCEPT ![row.id] = [state |-> row.state, downAt |-> row.downAt]]}
  BY DEF RowInserted, RowDropped
<1> HIDE DEF row
<1>6. /\ table' \in [Incident -> [state : {"none", "ongoing", "resolved"}, downAt : BOOLEAN]]
      /\ \A i \in Incident : table'[i] = table[i] \/ (i = row.id /\ table'[i].state = row.state)
  BY <1>3, <1>4, <1>5
<1>7. TypeOK'
  BY <1>1, <1>2, <1>6 DEF IncidentInvariant, TypeOK, Row, control, history
<1>8. \A i \in Incident : table[i].state = "resolved" => table'[i].state = "resolved"
  BY <1>1, <1>4, <1>6 DEF IncidentInvariant, RowOrder, Queued
<1>9. RowOrder'
  <2>1. \A i \in Incident : table'[i].state # "none" => i <= opened'
    BY <1>2, <1>4, <1>6 DEF IncidentInvariant, RowOrder
  <2>2. \A i \in Incident, n \in 1 .. Len(queue') :
          table'[i].state = "resolved" => ~(queue'[n].id = i /\ queue'[n].state = "ongoing")
    <3> SUFFICES ASSUME NEW i \in Incident, NEW n \in 1 .. Len(queue'), table'[i].state = "resolved",
                        queue'[n].id = i, queue'[n].state = "ongoing"
                 PROVE  FALSE
      OBVIOUS
    <3>1. n + 1 \in 1 .. Len(queue) /\ 1 < n + 1 /\ Queued(n + 1, i, "ongoing")
      BY <1>1 DEF Queued
    <3>2. CASE table[i].state = "resolved"
      BY <3>1, <3>2 DEF IncidentInvariant, RowOrder
    <3>3. CASE i = row.id /\ row.state = "resolved"
      BY <1>1, <3>1, <3>3 DEF IncidentInvariant, RowOrder, Queued
    <3> QED
      BY <1>6, <3>2, <3>3
  <2>3. \A i \in Incident, m, n \in 1 .. Len(queue') :
          m < n /\ queue'[m].id = i /\ queue'[m].state = "resolved" =>
            ~(queue'[n].id = i /\ queue'[n].state = "ongoing")
    <3> SUFFICES ASSUME NEW i \in Incident, NEW m \in 1 .. Len(queue'), NEW n \in 1 .. Len(queue'),
                        m < n, queue'[m].id = i, queue'[m].state = "resolved"
                 PROVE  ~(queue'[n].id = i /\ queue'[n].state = "ongoing")
      OBVIOUS
    <3>1. m + 1 \in 1 .. Len(queue) /\ n + 1 \in 1 .. Len(queue) /\ m + 1 < n + 1
      BY <1>1
    <3>2. Queued(m + 1, i, "resolved")
      BY <1>1, <3>1 DEF Queued
    <3>3. ~Queued(n + 1, i, "ongoing")
      BY <3>1, <3>2 DEF IncidentInvariant, RowOrder
    <3> QED
      BY <1>1, <3>1, <3>3 DEF Queued
  <2> QED
    BY <2>1, <2>2, <2>3 DEF RowOrder, Queued
<1>10. LiveIsOpen'
  <2> SUFFICES ASSUME NEW i \in Incident, Live(i)
               PROVE  /\ table'[i].state # "resolved"
                      /\ \A n \in 1 .. Len(queue') : ~(queue'[n].id = i /\ queue'[n].state = "resolved")
    BY <1>2 DEF LiveIsOpen, Live, Open, Queued, control
  <2>1. /\ table[i].state # "resolved"
        /\ \A n \in 1 .. Len(queue) : ~(queue[n].id = i /\ queue[n].state = "resolved")
    BY DEF IncidentInvariant, LiveIsOpen, Queued
  <2>2. table'[i].state # "resolved"
    BY <1>1, <1>6, <2>1
  <2>3. \A n \in 1 .. Len(queue') : n + 1 \in 1 .. Len(queue)
    BY <1>1
  <2> QED
    BY <1>1, <2>1, <2>2, <2>3
<1>11. DownIsEmpty' /\ Streaks' /\ EventInHand' /\ Remembered'
  BY <1>2 DEF IncidentInvariant, DownIsEmpty, Streaks, EventInHand, Remembered, Held, Open, control, history
<1> QED
  BY <1>7, <1>8, <1>9, <1>10, <1>11 DEF IncidentInvariant

-----------------------------------------------------------------------------
(* Crash and restart: the open incident of a start is one of the table.    *)

LEMMA ProcessSteps ==
  ASSUME IncidentInvariant, Crash \/ Restart
  PROVE  IncidentInvariant'
<1>1. /\ Recovery \in Nat \ {0} /\ MaxIncidents \in Nat \ {0} /\ opened \in 0 .. MaxIncidents
      /\ starts \in 1 .. MaxStarts /\ MaxStarts \in Nat \ {0} /\ QueueCapacity \in Nat \ {0}
  BY IncidentAssumption DEF IncidentAssumption, IncidentInvariant, TypeOK
<1>2. CASE Crash
  <2>1. ~Open' /\ queue' = <<>> /\ Len(queue') = 0
    BY <1>2 DEF Crash, Open, NoIncident
  <2>2. /\ incident' \in [id : 0 .. opened', state : {"ongoing", "resolved"}, successes : 0 .. Recovery]
        /\ tracker' \in [down : BOOLEAN, downFor : 0 .. opened']
    BY <1>1, <1>2 DEF Crash, NoIncident, NoAlerts
  <2>3. queue' \in Seq([id : 1 .. opened', state : {"ongoing", "resolved"}, downAt : BOOLEAN])
    BY <2>1
  <2>4. TypeOK'
    <3>1. /\ failures' \in 0 .. Threshold /\ streak' \in 0 .. Recovery
          /\ event' \in [id : 0 .. opened', state : {"ongoing", "resolved"}]
          /\ Len(queue') <= QueueCapacity
      BY <1>1, <1>2, <2>1, IncidentAssumption DEF Crash, EndAlert, NoEvent, IncidentAssumption
    <3>2. /\ UNCHANGED <<starts, listed, table, opened, mailed>>
          /\ up' = FALSE /\ pc' = "idle" /\ forgotten' = mailed /\ pruning' = "none"
      BY <1>2 DEF Crash, EndAlert
    <3> QED
      BY <2>2, <2>3, <3>1, <3>2 DEF IncidentInvariant, TypeOK, Steps
  <2>5. DownIsEmpty' /\ Streaks' /\ EventInHand' /\ Remembered' /\ LiveIsOpen'
    BY <1>2, <2>1 DEF Crash, EndAlert, DownIsEmpty, Streaks, EventInHand, Remembered, LiveIsOpen, Live
  <2>6. RowOrder'
    BY <1>2, <2>1 DEF Crash, IncidentInvariant, RowOrder, Queued
  <2> QED
    BY <2>4, <2>5, <2>6 DEF IncidentInvariant
<1>3. CASE Restart
  <2>1. /\ pc = "idle" /\ event = NoEvent /\ queue = <<>> /\ Len(queue) = 0 /\ mailed = forgotten
        /\ incident = NoIncident /\ tracker = NoAlerts
    BY <1>3 DEF Restart, IncidentInvariant, DownIsEmpty
  <2>2. /\ UNCHANGED <<listed, pc, event, pruning, failures, queue, table, opened, history>>
        /\ up' = TRUE /\ starts' = starts + 1
    BY <1>3 DEF Restart
  <2>3. Open' => incident'.id \in Incident /\ table[incident'.id].state = "ongoing" /\ incident'.successes = 0
    BY <1>3, <2>1 DEF Restart, WarmFrom, Seeds, Open, NoIncident
  <2>4. /\ incident' \in [id : 0 .. opened, state : {"ongoing", "resolved"}, successes : 0 .. Recovery]
        /\ tracker' \in [down : BOOLEAN, downFor : 0 .. opened]
    <3>1. CASE UNCHANGED <<incident, tracker>>
      BY <3>1 DEF IncidentInvariant, TypeOK
    <3>2. ASSUME NEW i \in Incident, WarmFrom(i)
          PROVE  /\ incident' \in [id : 0 .. opened, state : {"ongoing", "resolved"}, successes : 0 .. Recovery]
                 /\ tracker' \in [down : BOOLEAN, downFor : 0 .. opened]
      <4>1. \A j \in Seeds : j \in 0 .. opened
        BY <1>1 DEF Seeds, IncidentInvariant, RowOrder, Incident
      <4>2. incident' = [id |-> i, state |-> "ongoing", successes |-> 0] /\ i \in Seeds
        BY <3>2 DEF WarmFrom
      <4>3. tracker' = NoAlerts \/ \E j \in Seeds : tracker' = [down |-> TRUE, downFor |-> j]
        BY <3>2 DEF WarmFrom
      <4>4. incident' \in [id : 0 .. opened, state : {"ongoing", "resolved"}, successes : 0 .. Recovery]
        <5>1. i \in 0 .. opened /\ 0 \in 0 .. Recovery
          BY <1>1, <4>1, <4>2
        <5> QED
          BY <4>2, <5>1
      <4>5. tracker' \in [down : BOOLEAN, downFor : 0 .. opened]
        <5>1. CASE tracker' = NoAlerts
          BY <1>1, <5>1 DEF NoAlerts
        <5>2. ASSUME NEW j \in Seeds, tracker' = [down |-> TRUE, downFor |-> j]
              PROVE  tracker' \in [down : BOOLEAN, downFor : 0 .. opened]
          BY <4>1, <5>2
        <5> QED
          BY <4>3, <5>1, <5>2
      <4> QED
        BY <4>4, <4>5
    <3> QED
      BY <1>3, <3>1, <3>2 DEF Restart
  <2>5. starts' \in 1 .. MaxStarts
    BY <1>1, <1>3, <2>2 DEF Restart, IncidentInvariant, DownIsEmpty
  <2>6. TypeOK'
    BY <2>2, <2>4, <2>5 DEF history, IncidentInvariant, TypeOK
  <2>7. DownIsEmpty' /\ Streaks' /\ EventInHand' /\ Remembered'
    BY <1>1, <2>1, <2>2, <2>3
    DEF history, IncidentInvariant, TypeOK, DownIsEmpty, Streaks, EventInHand, Remembered
  <2>8. RowOrder' /\ LiveIsOpen'
    BY <2>1, <2>2, <2>3 DEF IncidentInvariant, RowOrder, LiveIsOpen, Live, Queued
  <2> QED
    BY <2>6, <2>7, <2>8 DEF IncidentInvariant
<1> QED
  BY <1>2, <1>3

-----------------------------------------------------------------------------
LEMMA IncidentsStep == IncidentInvariant /\ [Next]_vars => IncidentInvariant'
<1> SUFFICES ASSUME IncidentInvariant, [Next]_vars PROVE IncidentInvariant'
  OBVIOUS
<1>1. CASE Runner
  BY <1>1, ProbeSteps, EvaluationSteps, EnqueueStep, AlertSteps DEF Runner
<1>2. CASE RowInserted \/ RowDropped
  BY <1>2, WriterSteps
<1>3. CASE ListingChanges \/ PruneInactive \/ TlsPruneBegins \/ EvaluatorPruned \/ TrackerPruned
  BY <1>3, PruneSteps
<1>4. CASE Crash \/ Restart
  BY <1>4, ProcessSteps
<1>5. CASE UNCHANGED vars
  BY <1>5 DEF vars, control, history, IncidentInvariant, TypeOK, DownIsEmpty, Streaks, EventInHand,
              Remembered, Held, RowOrder, LiveIsOpen, Live, Open, Queued
<1> QED
  BY <1>1, <1>2, <1>3, <1>4, <1>5 DEF Next

\* The invariant holds of every behaviour.
THEOREM IncidentsSafe == Spec => []IncidentInvariant
  BY IncidentsInit, IncidentsStep, PTL DEF Spec

\* Every variable keeps its type: the channel within its capacity, every id
\* that is held, queued or stored one that was opened.
THEOREM IncidentsTypes == Spec => []TypeOK
<1>1. IncidentInvariant => TypeOK
  BY DEF IncidentInvariant
<1> QED
  BY <1>1, IncidentsSafe, PTL

\* No incident is resolved on fewer than Recovery successes in a row, for any
\* threshold and however often probes are interrupted.
THEOREM IncidentsRecoveryConfirmed == Spec => RecoveryConfirmed
<1>1. IncidentInvariant /\ [Next]_vars => [EvaluatesTo("resolved") => streak' >= Recovery]_vars
  <2> SUFFICES ASSUME IncidentInvariant, Next, pc = "probing", pc' = "snapshot", event'.state = "resolved"
               PROVE  streak' >= Recovery
    BY DEF vars, control, EvaluatesTo
  <2>1. FailureEvaluated \/ IncidentResolved
    BY DEF Next, Runner, StartProbe, FailureTolerated, SuccessNoted, SnapshotTaken, RowEnqueued,
           AlertDecided, DownAlertSent, DownAlertFails, RecoveryAlertTried, EndAlert, RowInserted,
           RowDropped, ListingChanges, PruneInactive, TlsPruneBegins, EvaluatorPruned, TrackerPruned,
           Crash, Restart, control
  <2>2. ~FailureEvaluated
    BY DEF FailureEvaluated, EvaluateFailure, EventReturned
  <2> QED
    BY <2>1, <2>2, EvaluationSteps
<1> QED
  BY <1>1, IncidentsSafe, PTL DEF Spec, RecoveryConfirmed

\* No row turns a resolved incident of the table into an open one, from
\* whichever process it was queued.
THEOREM IncidentsResolvedRowIsFinal == Spec => ResolvedRowIsFinal
<1>1. IncidentInvariant /\ [Next]_vars =>
        [\A i \in Incident : table[i].state = "resolved" => table'[i].state = "resolved"]_vars
  <2> SUFFICES ASSUME IncidentInvariant, Next, table' # table
               PROVE  \A i \in Incident : table[i].state = "resolved" => table'[i].state = "resolved"
    BY DEF vars
  <2>1. RowInserted
    BY DEF Next, Runner, StartProbe, FailureTolerated, FailureEvaluated, SuccessNoted, IncidentResolved,
           SnapshotTaken, RowEnqueued, AlertDecided, DownAlertSent, DownAlertFails, RecoveryAlertTried,
           RowDropped, ListingChanges, PruneInactive, TlsPruneBegins, EvaluatorPruned, TrackerPruned,
           Crash, Restart
  <2> QED
    BY <2>1, WriterSteps
<1> QED
  BY <1>1, IncidentsSafe, PTL DEF Spec, ResolvedRowIsFinal

\* An incident whose down alert the process saw confirmed is not alerted again
\* by it, whatever fails, is pruned or listed again in between, except once for
\* each prune of the tracker that hits it while it is held.
THEOREM IncidentsDownAlertOnce == Spec => DownAlertOncePerRun
<1>1. IncidentInvariant /\ [Next]_vars => [\A i \in mailed : StartsDownAlert(i) => i \in forgotten]_vars
  <2> SUFFICES ASSUME IncidentInvariant, Next, NEW i \in mailed, pc = "notify", pc' = "alert",
                      event.state = "ongoing", event.id = i
               PROVE  i \in forgotten
    BY DEF vars, control, StartsDownAlert
  <2>1. PICK alerts \in AlertSettings : AlertDecided(alerts)
    BY DEF Next, Runner, StartProbe, FailureTolerated, FailureEvaluated, SuccessNoted, IncidentResolved,
           SnapshotTaken, RowEnqueued, DownAlertSent, DownAlertFails, RecoveryAlertTried, EndAlert,
           RowInserted, RowDropped, ListingChanges, PruneInactive, TlsPruneBegins, EvaluatorPruned,
           TrackerPruned, Crash, Restart, control
  <2>2. tracker.downFor # i
    BY <2>1 DEF AlertDecided, AlertDue
  <2>3. i \in Held
    BY IncidentAssumption DEF Held, Incident, IncidentInvariant, TypeOK, IncidentAssumption
  <2> QED
    BY <2>2, <2>3 DEF IncidentInvariant, Remembered
<1> QED
  BY <1>1, IncidentsSafe, PTL DEF Spec, DownAlertOncePerRun
=============================================================================
