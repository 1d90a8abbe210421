--------------------------- MODULE VisitorIdentity ---------------------------
(***************************************************************************)
(* How a visitor gets a fingerprint and a session: the daily salt          *)
(* (backend/src/salt/mod.rs), the session cache (session/mod.rs), identify *)
(* (visitor/mod.rs) and the warming at a start (main.rs).                  *)
(*                                                                         *)
(* One visitor of one site, whose requests run on several threads of one   *)
(* backend; other backends rotate the salts in the same database.  A       *)
(* fingerprint of the visitor is named by the salt it was made with.       *)
(***************************************************************************)
EXTENDS Naturals, Sequences, FiniteSetsExt, Functions

CONSTANTS
  Requests,     \* requests of the visitor at the same time
  DayLength,    \* units of time in a day
  MaxTime,      \* bound: units of time
  MaxSessions,  \* bound: sessions created
  MaxFailures,  \* bound: rotations that fail
  MaxStarts     \* bound: starts of the process

ASSUME IdentityAssumption ==
  /\ DayLength \in Nat /\ DayLength > 2
  /\ {MaxTime, MaxSessions, MaxFailures, MaxStarts} \subseteq Nat

VARIABLES
  day, hour, \* the clock, in units of which SESSION_EXPIRY is two
  made,      \* made[n]: the day salt n was inserted for
  salts,     \* AnalyticsSalt: the salts in the table
  state,     \* STATE: date, current and previous salt (0 none)
  rotation,  \* the rotation task: its step, its day, the state it read
  inFlight,  \* ROTATION_IN_FLIGHT
  cooldown,  \* a rotation was attempted less than 30 s ago
  cache,     \* the session cache: entries of fingerprint, session and idle time
  request,   \* request[r]: its step, the salts it read, whether it ran alone
  events,    \* analytics.sessions: rows of session, fingerprint and idle time
  visit,     \* history: the visitor's last session, its idle time and creation,
             \* whether no request overlapped another since, and whether no start
             \* left the cache empty since its last request
  created,   \* sessions created
  failures,  \* rotations that failed
  starts     \* starts of the process

salting == <<made, salts, state, rotation, inFlight, cooldown, failures>>
visiting == <<cache, request, events, visit, created>>
clock == <<day, hour>>
vars == <<clock, salting, visiting, starts>>

Expiry == 2
Time == day * DayLength + hour

Idle == [step |-> "idle", current |-> 0, previous |-> 0, alone |-> TRUE]
NoRotation == [step |-> "idle", today |-> 0, read |-> [date |-> 0, current |-> 0, previous |-> 0]]
NoVisit == [session |-> 0, idle |-> Expiry, alone |-> TRUE, at |-> 0, timely |-> FALSE, warm |-> TRUE]

Init ==
  /\ day = 0 /\ hour = 0
  /\ made = <<0>>
  /\ salts = {1}
  /\ state = [date |-> 0, current |-> 1, previous |-> 0]
  /\ rotation = NoRotation
  /\ inFlight = FALSE
  /\ cooldown = FALSE
  /\ cache = {}
  /\ request = [r \in Requests |-> Idle]
  /\ events = {}
  /\ visit = NoVisit
  /\ created = 0
  /\ failures = 0
  /\ starts = 1

-----------------------------------------------------------------------------
(* ensure_state, statement by statement.                                   *)

\* Fault: the insert replaces the salt of the day.
InsertedAnew(days, table, today) ==
  [made |-> Append(days, today), salts |-> {n \in table : days[n] # today} \cup {Len(days) + 1}]

\* INSERT ... ON CONFLICT DO NOTHING.
Inserted(days, table, today) ==
  IF \E n \in table : days[n] = today
  THEN [made |-> days, salts |-> table]
  ELSE [made |-> Append(days, today), salts |-> table \cup {Len(days) + 1}]

\* Fault: one day too many is kept.
PrunedLate(days, table, today) == {n \in table : days[n] + 2 >= today}

\* DELETE of what is older than yesterday.
Pruned(days, table, today) == {n \in table : days[n] + 1 >= today}

\* SELECT ... ORDER BY "saltDate" DESC LIMIT 2: the states it may return.
Newest(days, table) == {n \in table : \A m \in table : days[m] <= days[n]}
Selected(days, table, today) ==
  {read \in [date : {today}, current : Newest(days, table), previous : table \cup {0}] :
     read.previous \in IF table = {read.current} THEN {0} ELSE Newest(days, table \ {read.current})}

RotationStep(from, to) ==
  /\ rotation.step = from
  /\ rotation' = [rotation EXCEPT !.step = to]

RotationInserts ==
  /\ RotationStep("insert", "prune")
  /\ made' = Inserted(made, salts, rotation.today).made
  /\ salts' = Inserted(made, salts, rotation.today).salts
  /\ UNCHANGED <<state, inFlight>>

RotationPrunes ==
  /\ RotationStep("prune", "select")
  /\ salts' = Pruned(made, salts, rotation.today)
  /\ UNCHANGED <<made, state, inFlight>>

RotationSelects ==
  /\ rotation.step = "select"
  /\ \E read \in Selected(made, salts, rotation.today) :
       rotation' = [rotation EXCEPT !.step = "store", !.read = read]
  /\ UNCHANGED <<made, salts, state, inFlight>>

RotationStores ==
  /\ rotation.step = "store"
  /\ state' = rotation.read
  /\ rotation' = NoRotation
  /\ inFlight' = FALSE
  /\ UNCHANGED <<made, salts>>

\* An error or a panic ends the task; RotationGuard resets the flag.
RotationFails ==
  /\ rotation.step # "idle" /\ failures < MaxFailures
  /\ failures' = failures + 1
  /\ rotation' = NoRotation
  /\ inFlight' = FALSE
  /\ UNCHANGED <<clock, made, salts, state, cooldown, visiting, starts>>

Rotation ==
  /\ RotationInserts \/ RotationPrunes \/ RotationSelects \/ RotationStores
  /\ UNCHANGED <<clock, cooldown, failures, visiting, starts>>

\* The whole of ensure_state, at a start or by another backend.
Ensured ==
  LET new == Inserted(made, salts, day)
  IN made' = new.made /\ salts' = Pruned(new.made, new.salts, day)

OtherRotates ==
  /\ Ensured
  /\ UNCHANGED <<clock, state, rotation, inFlight, cooldown, failures, visiting, starts>>

\* ROTATION_RETRY_COOLDOWN_SECS have passed.
CooldownEnds ==
  /\ cooldown
  /\ cooldown' = FALSE
  /\ UNCHANGED <<clock, made, salts, state, rotation, inFlight, failures, visiting, starts>>

-----------------------------------------------------------------------------
(* identify.                                                               *)

Quiet == \A r \in Requests : request[r].step = "idle"

\* current_and_previous and spawn_rotation_if_due.
Arrive(r) ==
  /\ request[r].step = "idle"
  /\ request' = [q \in Requests |->
       IF q = r
       THEN [step |-> "current", current |-> state.current, previous |-> state.previous,
             alone |-> Quiet]
       ELSE [request[q] EXCEPT !.alone = request[q].step = "idle"]]
  /\ IF state.date # day /\ ~cooldown /\ ~inFlight
     THEN /\ inFlight' = TRUE
          /\ cooldown' = TRUE
          /\ rotation' = [NoRotation EXCEPT !.step = "insert", !.today = day]
     ELSE UNCHANGED <<inFlight, cooldown, rotation>>
  /\ UNCHANGED <<clock, made, salts, state, failures, cache, events, visit, created, starts>>

Entries(fingerprint) == {e \in cache : e.key = fingerprint}

\* The event is stored with the request's fingerprint and session, in a row of
\* its own.
Assigned(r, session) ==
  /\ request' = [request EXCEPT ![r] = Idle]
  /\ events' = events \cup {[session |-> session, key |-> request[r].current, idle |-> 0]}

\* A get of a live entry starts its idle time anew.
Hit(r, e) ==
  /\ cache' = (cache \ {e}) \cup {[e EXCEPT !.idle = 0]}
  /\ Assigned(r, e.session)
  /\ visit' = [visit EXCEPT !.session = e.session, !.idle = 0, !.warm = TRUE,
                            !.alone = @ /\ request[r].alone]
  /\ UNCHANGED created

Miss(r, step) ==
  /\ request' = [request EXCEPT ![r].step = step]
  /\ UNCHANGED <<cache, events, visit, created>>

GetCurrent(r) ==
  /\ request[r].step = "current"
  /\ \/ \E e \in Entries(request[r].current) : Hit(r, e)
     \/ Entries(request[r].current) = {} /\ Miss(r, "previous")
  /\ UNCHANGED <<clock, salting, starts>>

\* Fault: the previous fingerprint is not tried.
GetPreviousNever(r) ==
  /\ request[r].step = "previous"
  /\ Miss(r, "create")
  /\ UNCHANGED <<clock, salting, starts>>

GetPrevious(r) ==
  /\ request[r].step = "previous"
  /\ LET found == IF request[r].previous = 0 THEN {} ELSE Entries(request[r].previous)
     IN (\E e \in found : Hit(r, e)) \/ (found = {} /\ Miss(r, "create"))
  /\ UNCHANGED <<clock, salting, starts>>

\* An insert replaces the entry an overlapping request inserted.
Create(r) ==
  /\ request[r].step = "create" /\ created < MaxSessions
  /\ created' = created + 1
  /\ cache' = (cache \ Entries(request[r].current))
                \cup {[key |-> request[r].current, session |-> created + 1, idle |-> 0]}
  /\ Assigned(r, created + 1)
  /\ visit' = [session |-> created + 1, idle |-> 0, alone |-> request[r].alone, at |-> Time,
               timely |-> made[request[r].current] = day, warm |-> TRUE]
  /\ UNCHANGED <<clock, salting, starts>>

-----------------------------------------------------------------------------
\* An entry of the cache expires; a row of the table only gets older.
Aged(entries) == {[e EXCEPT !.idle = @ + 1] : e \in {f \in entries : f.idle + 1 < Expiry}}
Older(idle) == IF idle = Expiry THEN Expiry ELSE idle + 1

\* A request is over within a unit of time; a rotation may take longer, but
\* is over before the second midnight after its start.
Tick ==
  /\ Time < MaxTime /\ Quiet
  /\ \/ hour + 1 < DayLength /\ hour' = hour + 1 /\ UNCHANGED day
     \/ /\ hour + 1 = DayLength /\ hour' = 0 /\ day' = day + 1
        /\ rotation.step # "idle" => day <= rotation.today
  /\ cooldown' = FALSE
  /\ cache' = Aged(cache)
  /\ events' = {[e EXCEPT !.idle = Older(@)] : e \in events}
  /\ visit' = [visit EXCEPT !.idle = Older(@)]
  /\ UNCHANGED <<made, salts, state, rotation, inFlight, failures, request, created, starts>>

\* active_sessions_query, without FINAL: of the rows of a session any may have
\* been merged into one with the latest session_end of them (max) and a
\* fingerprint of any of them (any).
Active == {e \in events : e.idle < Expiry}
MergedInto(e) == {f \in events : f.session = e.session /\ e.idle <= f.idle}
Readable == UNION {{[e EXCEPT !.key = f.key] : f \in MergedInto(e)} : e \in Active}

\* Fault: the first session of a fingerprint is taken.
FirstSessions(rows) ==
  /\ \A v, w \in rows : v.key = w.key => v = w
  /\ \A e \in Active : \E w \in rows :
       e.idle <= w.idle /\ \E f \in events : f.session = e.session /\ f.key = w.key

\* What the query may answer: of every fingerprint one session, the one with the
\* latest session_end (argMax).  The latest row of a session is shown by one of
\* its fingerprints, if no later one of another session is; of requests that did
\* not overlap, the visitor's last is later than all others.
LatestSessions(rows) ==
  /\ \A v, w \in rows : v.key = w.key => v = w
  /\ \A e \in Active : \E w \in rows :
       /\ w.idle <= e.idle /\ \E f \in events : f.session = e.session /\ f.key = w.key
       /\ visit.alone /\ e.session = visit.session => w.session = visit.session

\* warm_session_cache: the idle time of what was read starts anew.
Warmed ==
  /\ \E rows \in SUBSET Readable :
       /\ LatestSessions(rows)
       /\ cache' = {[e EXCEPT !.idle = 0] : e \in rows}
  /\ UNCHANGED visit

\* Switched off by the configuration, or the query failed.
NotWarmed ==
  /\ cache' = {}
  /\ visit' = [visit EXCEPT !.warm = FALSE]

\* A restart after a drain: the salts are ensured, the cache is warmed or not.
Restart ==
  /\ Quiet /\ starts < MaxStarts
  /\ starts' = starts + 1
  /\ Ensured
  /\ state' \in Selected(made', salts', day)
  /\ rotation' = NoRotation
  /\ inFlight' = FALSE
  /\ cooldown' = FALSE
  /\ Warmed \/ NotWarmed
  /\ UNCHANGED <<clock, request, events, created, failures>>

Next ==
  \/ \E r \in Requests : Arrive(r) \/ GetCurrent(r) \/ GetPrevious(r) \/ Create(r)
  \/ Rotation \/ RotationFails \/ OtherRotates \/ CooldownEnds \/ Tick \/ Restart

Spec == Init /\ [][Next]_vars

-----------------------------------------------------------------------------
Salt == 0 .. Len(made)
State == [date : 0 .. day, current : Salt, previous : Salt]
Entry == [key : Salt \ {0}, session : 1 .. created, idle : 0 .. Expiry - 1]
Row == [key : Salt \ {0}, session : 1 .. created, idle : 0 .. Expiry]

\* Every variable has its type; of a fingerprint the cache has one entry.
TypeOK ==
  /\ day \in Nat /\ hour \in 0 .. DayLength - 1 /\ Time <= MaxTime
  /\ \A n \in DOMAIN made : made[n] \in 0 .. day
  /\ salts \subseteq Salt \ {0}
  /\ state \in State
  /\ rotation \in [step : {"idle", "insert", "prune", "select", "store"}, today : 0 .. day, read : State]
  /\ inFlight \in BOOLEAN /\ cooldown \in BOOLEAN
  /\ cache \subseteq Entry /\ events \subseteq Row
  /\ \A e, f \in cache : e.key = f.key => e = f
  /\ created \in 0 .. MaxSessions

\* One salt per day, whoever inserted it: a visitor has the same fingerprint on
\* every backend that has rotated.
OneSaltPerDay == \A n, m \in salts \cup {state.current} : made[n] = made[m] => n = m

\* A backend that has rotated to a day hashes with nothing older than the day
\* before, and the table holds nothing older.
OldSaltsGone ==
  \A n \in salts \cup ({state.current, state.previous} \ {0}) : made[n] + 1 >= state.date

\* An active visitor keeps the session across rotations and restarts, whatever of
\* its rows were merged, when no request since it was created overlapped another,
\* no start left the cache empty since its last request, and it was created with
\* the salt of its day and is less than a day old.
ActiveVisitorKeepsSession ==
  [][\A r \in Requests :
       /\ request[r].step # "idle" /\ request'[r].step = "idle" /\ request[r].alone /\ visit.alone
       /\ visit.idle < Expiry /\ visit.warm /\ visit.timely /\ Time - visit.at < DayLength
       => visit'.session = visit.session]_vars

\* A session that gave way to a later one does not come back, neither by a salt
\* that was read before a rotation nor by what a start reads of the table, when
\* no request since the later one was created overlapped another.
NoSessionComesBack ==
  [][visit.alone /\ visit'.alone => visit.session <= visit'.session]_vars

\* The in-flight flag does not outlive the task, however it ends: no rotation
\* would start any more.
RotationNotStuck == inFlight => rotation.step # "idle"

-----------------------------------------------------------------------------
\* processing/mod.rs:53: "new sessions are created if the user has not generated
\* any events in over 30 minutes".
SessionsEndByIdlenessOnly ==
  [][visit.idle < Expiry /\ visit'.session # visit.session => FALSE]_vars
=============================================================================
