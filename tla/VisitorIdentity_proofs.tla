------------------------ MODULE VisitorIdentity_proofs ------------------------
(***************************************************************************)
(* VisitorIdentity for any number of requests, days, failures and starts:  *)
(* one salt per day, old salts gone, rotation never stuck, types, and an   *)
(* active visitor keeps the session.                                       *)
(*                                                                         *)
(* SaltInvariant.  The state a backend hashes with outlives the rows it    *)
(* was read from: the salt it holds may have been pruned by another        *)
(* backend.  This only happens to a salt so old that no rotation can       *)
(* insert its day again.                                                   *)
(*                                                                         *)
(* VisitInvariant.  A session created today or yesterday is filed under    *)
(* salt c of its creation or under a newer one; whatever rotation is under *)
(* way stores c as its current or its previous salt; what is filed under a *)
(* newer salt than c is of this session.  So a request that is alone finds *)
(* it, although one of its two look-ups may meet an older session's entry. *)
(* A start that warms the cache files the session under any fingerprint of *)
(* its rows, all of which are those of c or of a newer salt.               *)
(***************************************************************************)
EXTENDS VisitorIdentity, TLAPS

\* The table has one salt per day.
Unique(days, table) == \A n, m \in table : days[n] = days[m] => n = m

\* A database: the days of the salts ever inserted, and those in the table.
Database(days, table, now) ==
  /\ days \in Seq(Nat)
  /\ \A n \in DOMAIN days : days[n] <= now
  /\ table \subseteq DOMAIN days
  /\ Unique(days, table)

\* Nothing in the table is older than the day before today.
Kept(days, table, today) == \A n \in table : days[n] + 1 >= today

\* What a backend may hold as its salts.
Sound(days, table, now, held) ==
  /\ held.date \in Nat /\ held.date <= now
  /\ held.current \in DOMAIN days
  /\ held.previous = 0 \/ held.previous \in DOMAIN days
  /\ \A n \in {held.current, held.previous} \ {0} : days[n] + 1 >= held.date
  /\ held.current \in table \/ days[held.current] + 1 < now
  /\ \A n \in table : days[n] = days[held.current] => n = held.current

\* A rotation runs on the day it was started for, or on the next.
Timely ==
  rotation.step # "idle" =>
    /\ rotation.today \in Nat
    /\ state.date <= rotation.today /\ rotation.today <= day /\ day <= rotation.today + 1

\* The inductive invariant.
SaltInvariant ==
  /\ day \in Nat
  /\ rotation \in [step : {"idle", "insert", "prune", "select", "store"}, today : Nat,
                   read : [date : Nat, current : Nat, previous : Nat]]
  /\ Database(made, salts, day)
  /\ Sound(made, salts, day, state)
  /\ Kept(made, salts, state.date)
  /\ Timely
  /\ rotation.step \in {"select", "store"} => Kept(made, salts, rotation.today)
  /\ rotation.step = "store" =>
       Sound(made, salts, day, rotation.read) /\ rotation.read.date = rotation.today
  /\ inFlight => rotation.step # "idle"

-----------------------------------------------------------------------------
(* What the statements of ensure_state do to a database.                   *)

\* An insert keeps the salts that are there and adds at most one, of its day.
LEMMA InsertedKeeps ==
  ASSUME NEW days, NEW table, NEW now \in Nat, NEW today \in Nat,
         Database(days, table, now), today <= now
  PROVE  LET new == Inserted(days, table, today)
         IN /\ Database(new.made, new.salts, now)
            /\ DOMAIN days \subseteq DOMAIN new.made
            /\ \A n \in DOMAIN days : new.made[n] = days[n]
            /\ table \subseteq new.salts
            /\ \A n \in new.salts : n \in table \/ new.made[n] = today
            /\ \A n \in new.salts : n \in table \/ n \notin DOMAIN days
            /\ \A n \in new.salts, m \in table : new.made[n] = today /\ days[m] = today => n = m
            /\ \E n \in new.salts : new.made[n] = today
<1>1. CASE \E n \in table : days[n] = today
  BY <1>1 DEF Inserted, Database, Unique
<1>2. CASE ~ \E n \in table : days[n] = today
  <2> DEFINE k == Len(days) + 1
             longer == Append(days, today)
  <2>1. /\ days \in Seq(Nat) /\ Len(days) \in Nat /\ DOMAIN days = 1 .. Len(days)
        /\ longer \in Seq(Nat) /\ Len(longer) = k /\ DOMAIN longer = 1 .. k
        /\ longer[k] = today /\ \A n \in 1 .. Len(days) : longer[n] = days[n]
    BY DEF Database
  <2>2. Inserted(days, table, today) = [made |-> longer, salts |-> table \cup {k}]
    BY <1>2 DEF Inserted
  <2> HIDE DEF longer
  <2>3. table \subseteq 1 .. Len(days) /\ k \notin table /\ k \notin DOMAIN days
    BY <2>1 DEF Database
  <2>4. \A n \in DOMAIN longer : longer[n] <= now
    BY <2>1 DEF Database
  <2>5. Unique(longer, table \cup {k})
    BY <1>2, <2>1, <2>3 DEF Unique, Database
  <2> QED
    BY <1>2, <2>1, <2>2, <2>3, <2>4, <2>5 DEF Database
<1> QED
  BY <1>1, <1>2

\* What a backend holds stays sound when any backend inserts a salt in time.
LEMMA InsertedSound ==
  ASSUME NEW days, NEW table, NEW now \in Nat, NEW today \in Nat, NEW held,
         Database(days, table, now), Sound(days, table, now, held),
         today <= now, now <= today + 1
  PROVE  LET new == Inserted(days, table, today) IN Sound(new.made, new.salts, now, held)
<1> DEFINE new == Inserted(days, table, today)
<1>1. /\ DOMAIN days \subseteq DOMAIN new.made
      /\ \A n \in DOMAIN days : new.made[n] = days[n] /\ days[n] \in Nat
      /\ table \subseteq new.salts /\ table \subseteq DOMAIN days
      /\ \A n \in new.salts : n \in table \/ new.made[n] = today
      /\ \A n \in new.salts, m \in table : new.made[n] = today /\ days[m] = today => n = m
  BY InsertedKeeps DEF Database
<1> HIDE DEF new
<1>2. \A n \in {held.current, held.previous} \ {0} : new.made[n] = days[n]
  BY <1>1 DEF Sound
<1>3. held.current \in new.salts \/ new.made[held.current] + 1 < now
  BY <1>1 DEF Sound
<1>4. ASSUME NEW n \in new.salts, new.made[n] = new.made[held.current]
      PROVE  n = held.current
  <2>1. new.made[held.current] = days[held.current] /\ days[held.current] \in Nat
    BY <1>1 DEF Sound
  <2>2. CASE n \in table
    BY <1>1, <1>4, <2>1, <2>2 DEF Sound
  <2>3. CASE n \notin table
    <3>1. new.made[n] = today /\ days[held.current] = today
      BY <1>1, <1>4, <2>1, <2>3
    <3>2. held.current \in table
      BY <2>1, <3>1 DEF Sound
    <3> QED
      BY <1>1, <3>1, <3>2
  <2> QED
    BY <2>2, <2>3
<1> QED
  BY <1>1, <1>2, <1>3, <1>4 DEF Sound, new

\* A pruning leaves a database, and what it leaves is recent.
LEMMA PrunedKeeps ==
  ASSUME NEW days, NEW table, NEW now \in Nat, NEW today \in Nat, Database(days, table, now)
  PROVE  /\ Database(days, Pruned(days, table, today), now)
         /\ Pruned(days, table, today) \subseteq table
         /\ Kept(days, Pruned(days, table, today), today)
BY DEF Pruned, Database, Unique, Kept

\* What a backend holds stays sound when any backend prunes the table.
LEMMA PrunedSound ==
  ASSUME NEW days, NEW table, NEW now \in Nat, NEW today \in Nat, NEW held,
         Database(days, table, now), Sound(days, table, now, held), today <= now
  PROVE  Sound(days, Pruned(days, table, today), now, held)
<1>1. days[held.current] \in Nat
  BY DEF Database, Sound
<1>2. held.current \in Pruned(days, table, today) \/ days[held.current] + 1 < now
  BY <1>1 DEF Pruned, Sound
<1> QED
  BY <1>2 DEF Pruned, Sound

\* What is read from a pruned table is sound.
LEMMA SelectedSound ==
  ASSUME NEW days, NEW table, NEW now \in Nat, NEW today \in Nat,
         Database(days, table, now), Kept(days, table, today), today <= now,
         NEW read \in Selected(days, table, today)
  PROVE  /\ Sound(days, table, now, read) /\ read.date = today
         /\ read \in [date : Nat, current : Nat, previous : Nat]
<1>1. /\ read.date = today /\ read.current \in table
      /\ read.previous \in table \cup {0}
      /\ read = [date |-> read.date, current |-> read.current, previous |-> read.previous]
  BY DEF Selected, Newest
<1>2. table \subseteq DOMAIN days /\ table \subseteq Nat
  BY DEF Database
<1>3. Sound(days, table, now, read)
  BY <1>1, <1>2 DEF Sound, Database, Unique, Kept
<1> QED
  BY <1>1, <1>2, <1>3

\* The clock moves on: what is held only gets older.
LEMMA LaterSound ==
  ASSUME NEW days, NEW table, NEW now \in Nat, NEW later \in Nat, NEW held, now <= later,
         Database(days, table, now)
  PROVE  /\ Database(days, table, later)
         /\ Sound(days, table, now, held) => Sound(days, table, later, held)
<1>1. Database(days, table, later)
  BY DEF Database
<1>2. ASSUME Sound(days, table, now, held) PROVE Sound(days, table, later, held)
  <2>1. days[held.current] \in Nat
    BY <1>2 DEF Sound, Database
  <2> QED
    BY <1>2, <2>1 DEF Sound
<1> QED
  BY <1>1, <1>2

-----------------------------------------------------------------------------
(* The invariant, action by action.                                        *)

\* A fresh table holds the salt of the first day.
LEMMA InitSalts == Init => SaltInvariant
<1> SUFFICES ASSUME Init PROVE SaltInvariant
  OBVIOUS
<1>1. made = <<0>> /\ made \in Seq(Nat) /\ DOMAIN made = {1} /\ made[1] = 0
  BY DEF Init
<1>2. Database(made, salts, day) /\ Kept(made, salts, state.date)
  BY <1>1 DEF Init, Database, Unique, Kept
<1>3. Sound(made, salts, day, state)
  BY <1>1 DEF Init, Sound
<1> QED
  BY <1>2, <1>3 DEF Init, SaltInvariant, Timely, NoRotation

\* What another backend, or a start of this one, does to the table: it holds
\* today's and yesterday's salts, and all that is held or read stays sound.
LEMMA EnsuredSound ==
  ASSUME SaltInvariant, Ensured, UNCHANGED day
  PROVE  /\ Database(made', salts', day')
         /\ Kept(made', salts', day)
         /\ \A held : Sound(made, salts, day, held) => Sound(made', salts', day', held)
<1> DEFINE new == Inserted(made, salts, day)
<1>1. day \in Nat /\ Database(made, salts, day)
  BY DEF SaltInvariant
<1>2. Database(new.made, new.salts, day)
  BY <1>1, InsertedKeeps
<1>3. made' = new.made /\ salts' = Pruned(new.made, new.salts, day)
  BY DEF Ensured
<1>4. \A held : Sound(made, salts, day, held) => Sound(new.made, new.salts, day, held)
  BY <1>1, InsertedSound
<1> HIDE DEF new
<1>5. Database(made', salts', day) /\ Kept(made', salts', day)
  BY <1>1, <1>2, <1>3, PrunedKeeps
<1>6. \A held : Sound(made, salts, day, held) => Sound(made', salts', day, held)
  BY <1>1, <1>2, <1>3, <1>4, PrunedSound
<1> QED
  BY <1>5, <1>6

\* A request may start a rotation for today.
LEMMA ArriveStep ==
  ASSUME SaltInvariant, NEW r \in Requests, Arrive(r)
  PROVE  SaltInvariant'
<1>1. UNCHANGED <<day, made, salts, state>>
  BY DEF Arrive, clock
<1>2. CASE UNCHANGED <<inFlight, rotation>>
  BY <1>1, <1>2 DEF SaltInvariant, Timely
<1>3. CASE /\ inFlight' = TRUE
           /\ rotation' = [NoRotation EXCEPT !.step = "insert", !.today = day]
  <2>1. rotation' = [step |-> "insert", today |-> day, read |-> [date |-> 0, current |-> 0, previous |-> 0]]
    BY <1>3 DEF NoRotation
  <2>2. day \in Nat /\ state.date \in Nat /\ state.date <= day
    BY DEF SaltInvariant, Sound
  <2> QED
    BY <1>1, <1>3, <2>1, <2>2 DEF SaltInvariant, Timely
<1> QED
  BY <1>2, <1>3 DEF Arrive

LEMMA InsertsStep ==
  ASSUME SaltInvariant, RotationInserts, UNCHANGED day
  PROVE  SaltInvariant'
<1> DEFINE new == Inserted(made, salts, rotation.today)
<1>1. /\ day \in Nat /\ rotation.today \in Nat /\ Database(made, salts, day)
      /\ state.date \in Nat /\ state.date <= rotation.today
      /\ rotation.today <= day /\ day <= rotation.today + 1
  BY DEF SaltInvariant, Timely, RotationInserts, RotationStep, Sound
<1>2. /\ Database(new.made, new.salts, day)
      /\ \A n \in DOMAIN made : new.made[n] = made[n]
      /\ \A n \in new.salts : n \in salts \/ new.made[n] = rotation.today
  BY <1>1, InsertedKeeps
<1>3. Sound(new.made, new.salts, day, state)
  BY <1>1, InsertedSound DEF SaltInvariant
<1>4. made' = new.made /\ salts' = new.salts
  BY DEF RotationInserts
<1> HIDE DEF new
<1>5. Kept(made', salts', state'.date)
  <2>1. state' = state /\ Kept(made, salts, state.date) /\ salts \subseteq DOMAIN made
    BY DEF RotationInserts, SaltInvariant, Database
  <2> QED
    BY <1>1, <1>2, <1>4, <2>1 DEF Kept
<1>6. rotation' = [rotation EXCEPT !.step = "prune"] /\ UNCHANGED <<state, inFlight>>
  BY DEF RotationInserts, RotationStep
<1>7. /\ rotation' \in [step : {"idle", "insert", "prune", "select", "store"}, today : Nat,
                         read : [date : Nat, current : Nat, previous : Nat]]
      /\ rotation'.step = "prune" /\ rotation'.today = rotation.today
  BY <1>6 DEF SaltInvariant
<1> QED
  BY <1>1, <1>2, <1>3, <1>4, <1>5, <1>6, <1>7 DEF SaltInvariant, Timely

LEMMA PrunesStep ==
  ASSUME SaltInvariant, RotationPrunes, UNCHANGED day
  PROVE  SaltInvariant'
<1> DEFINE left == Pruned(made, salts, rotation.today)
<1>1. /\ day \in Nat /\ rotation.today \in Nat /\ Database(made, salts, day)
      /\ rotation.today <= day /\ Sound(made, salts, day, state)
  BY DEF SaltInvariant, Timely, RotationPrunes, RotationStep
<1>2. Database(made, left, day) /\ Kept(made, left, rotation.today) /\ left \subseteq salts
  BY <1>1, PrunedKeeps
<1>3. Sound(made, left, day, state)
  BY <1>1, PrunedSound
<1>4. made' = made /\ salts' = left /\ UNCHANGED <<state, inFlight>>
  BY DEF RotationPrunes
<1> HIDE DEF left
<1>5. Kept(made', salts', state'.date)
  BY <1>2, <1>4 DEF Kept, SaltInvariant
<1>6. rotation' = [rotation EXCEPT !.step = "select"]
  BY DEF RotationPrunes, RotationStep
<1>7. /\ rotation' \in [step : {"idle", "insert", "prune", "select", "store"}, today : Nat,
                         read : [date : Nat, current : Nat, previous : Nat]]
      /\ rotation'.step = "select" /\ rotation'.today = rotation.today
      /\ rotation.step = "prune"
  BY <1>6 DEF SaltInvariant, RotationPrunes, RotationStep
<1> QED
  BY <1>1, <1>2, <1>3, <1>4, <1>5, <1>7 DEF SaltInvariant, Timely

LEMMA SelectsStep ==
  ASSUME SaltInvariant, RotationSelects, UNCHANGED day
  PROVE  SaltInvariant'
<1>1. PICK read \in Selected(made, salts, rotation.today) :
        rotation' = [rotation EXCEPT !.step = "store", !.read = read]
  BY DEF RotationSelects
<1>2. /\ day \in Nat /\ rotation.today \in Nat /\ Database(made, salts, day)
      /\ rotation.today <= day /\ Kept(made, salts, rotation.today) /\ rotation.step = "select"
  BY DEF SaltInvariant, Timely, RotationSelects
<1>3. /\ Sound(made, salts, day, read) /\ read.date = rotation.today
      /\ read \in [date : Nat, current : Nat, previous : Nat]
  BY <1>2, SelectedSound
<1>4. /\ rotation' \in [step : {"idle", "insert", "prune", "select", "store"}, today : Nat,
                         read : [date : Nat, current : Nat, previous : Nat]]
      /\ rotation'.step = "store" /\ rotation'.today = rotation.today /\ rotation'.read = read
  BY <1>1, <1>3 DEF SaltInvariant
<1> QED
  BY <1>2, <1>3, <1>4 DEF SaltInvariant, Timely, RotationSelects

LEMMA StoresStep ==
  ASSUME SaltInvariant, RotationStores, UNCHANGED day
  PROVE  SaltInvariant'
<1>1. /\ Sound(made, salts, day, rotation.read) /\ rotation.read.date = rotation.today
      /\ Kept(made, salts, rotation.today)
  BY DEF SaltInvariant, RotationStores
<1>2. /\ state' = rotation.read /\ rotation' = NoRotation /\ inFlight' = FALSE
      /\ UNCHANGED <<made, salts>>
  BY DEF RotationStores
<1> QED
  BY <1>1, <1>2 DEF SaltInvariant, Timely, NoRotation

\* However a rotation ends, the flag is reset with it.
LEMMA FailsStep ==
  ASSUME SaltInvariant, RotationFails
  PROVE  SaltInvariant'
BY DEF SaltInvariant, RotationFails, clock, Timely, NoRotation

LEMMA OtherStep ==
  ASSUME SaltInvariant, OtherRotates
  PROVE  SaltInvariant'
<1>1. UNCHANGED <<day, state, rotation, inFlight>>
  BY DEF OtherRotates, clock
<1>2. /\ Database(made', salts', day')
      /\ Kept(made', salts', day)
      /\ \A held : Sound(made, salts, day, held) => Sound(made', salts', day', held)
  BY <1>1, EnsuredSound DEF OtherRotates
<1>3. \A n \in salts' : made'[n] \in Nat
  BY <1>2 DEF Database
<1>4. \A t \in Nat : t <= day => Kept(made', salts', t)
  BY <1>2, <1>3 DEF Kept, SaltInvariant
<1>5. state.date \in Nat /\ state.date <= day
  BY DEF SaltInvariant, Sound
<1> QED
  BY <1>1, <1>2, <1>4, <1>5 DEF SaltInvariant, Timely

LEMMA RestartStep ==
  ASSUME SaltInvariant, Restart
  PROVE  SaltInvariant'
<1>1. /\ UNCHANGED day /\ Ensured /\ state' \in Selected(made', salts', day)
      /\ rotation' = NoRotation /\ inFlight' = FALSE
  BY DEF Restart, clock
<1>2. Database(made', salts', day) /\ Kept(made', salts', day) /\ day \in Nat
  BY <1>1, EnsuredSound DEF SaltInvariant
<1>3. Sound(made', salts', day, state') /\ state'.date = day
  BY <1>1, <1>2, SelectedSound
<1> QED
  BY <1>1, <1>2, <1>3 DEF SaltInvariant, Timely, NoRotation

LEMMA TickStep ==
  ASSUME SaltInvariant, Tick
  PROVE  SaltInvariant'
<1>1. UNCHANGED <<made, salts, state, rotation, inFlight>>
  BY DEF Tick
<1>2. /\ day \in Nat /\ day' \in Nat /\ day <= day' /\ day' <= day + 1
      /\ day' # day /\ rotation.step # "idle" => day <= rotation.today
  BY DEF Tick, SaltInvariant
<1>3. /\ Database(made, salts, day')
      /\ \A held : Sound(made, salts, day, held) => Sound(made, salts, day', held)
  BY <1>2, LaterSound DEF SaltInvariant
<1>4. rotation.step # "idle" => rotation.today <= day' /\ day' <= rotation.today + 1
  BY <1>2 DEF SaltInvariant, Timely
<1> QED
  BY <1>1, <1>2, <1>3, <1>4 DEF SaltInvariant, Timely

LEMMA NextSalts == SaltInvariant /\ [Next]_vars => SaltInvariant'
<1> SUFFICES ASSUME SaltInvariant, [Next]_vars PROVE SaltInvariant'
  OBVIOUS
<1>1. CASE \E r \in Requests : Arrive(r)
  BY <1>1, ArriveStep
<1>2. CASE UNCHANGED <<clock, salting, starts>>
  BY <1>2 DEF salting, clock, SaltInvariant, Timely
<1>3. CASE \E r \in Requests : GetCurrent(r) \/ GetPrevious(r) \/ Create(r)
  BY <1>2, <1>3 DEF GetCurrent, GetPrevious, Create
<1>4. CASE Rotation
  BY <1>4, InsertsStep, PrunesStep, SelectsStep, StoresStep DEF Rotation, clock
<1>5. CASE CooldownEnds
  BY <1>5 DEF CooldownEnds, clock, SaltInvariant, Timely
<1>6. CASE vars' = vars
  BY <1>2, <1>6 DEF vars
<1> QED
  BY <1>1, <1>3, <1>4, <1>5, <1>6, FailsStep, OtherStep, TickStep, RestartStep DEF Next

-----------------------------------------------------------------------------
\* The invariant holds of every behaviour, with any number of days.
THEOREM IdentityInvariant == Spec => []SaltInvariant
<1>1. Init => SaltInvariant
  BY InitSalts
<1>2. SaltInvariant /\ [Next]_vars => SaltInvariant'
  BY NextSalts
<1> QED
  BY <1>1, <1>2, PTL DEF Spec

\* Whoever inserts the salt of a day, and whatever was pruned and inserted in
\* between, all hash with the same one.
THEOREM IdentityOneSaltPerDay == Spec => []OneSaltPerDay
<1>1. SaltInvariant => OneSaltPerDay
  BY DEF SaltInvariant, Database, Unique, Sound, OneSaltPerDay
<1> QED
  BY <1>1, IdentityInvariant, PTL

\* Nothing older than the day before the last rotation is hashed with or stored.
THEOREM IdentityOldSaltsGone == Spec => []OldSaltsGone
<1>1. SaltInvariant => OldSaltsGone
  BY DEF SaltInvariant, Sound, Kept, OldSaltsGone
<1> QED
  BY <1>1, IdentityInvariant, PTL

\* The in-flight flag is set only while the task runs.
THEOREM IdentityRotationNotStuck == Spec => []RotationNotStuck
<1>1. SaltInvariant => RotationNotStuck
  BY DEF SaltInvariant, RotationNotStuck
<1> QED
  BY <1>1, IdentityInvariant, PTL

-----------------------------------------------------------------------------
(* Types.                                                                  *)

Steps == {"idle", "current", "previous", "create"}
Request == [step : Steps, current : Salt, previous : Salt, alone : BOOLEAN]
Visit ==
  [session : 0 .. created, idle : 0 .. Expiry, alone : BOOLEAN, at : Nat, timely : BOOLEAN, warm : BOOLEAN]

OnePerKey == \A e, f \in cache : e.key = f.key => e = f

\* A request under way has read a salt.
IdentityTypes ==
  /\ hour \in 0 .. DayLength - 1 /\ Time <= MaxTime
  /\ state \in State /\ rotation.today \in 0 .. day /\ rotation.read \in State
  /\ inFlight \in BOOLEAN /\ cooldown \in BOOLEAN
  /\ request \in [Requests -> Request] /\ \A r \in Requests : request[r].step # "idle" => request[r].current # 0
  /\ cache \in SUBSET Entry /\ events \in SUBSET Row /\ OnePerKey
  /\ created \in 0 .. MaxSessions
  /\ visit \in Visit /\ visit.at <= Time

-----------------------------------------------------------------------------
(* The order of the salts.                                                 *)

\* One salt was ever made per day, and one of today or yesterday is in the table.
InOrder(days, table, now) ==
  /\ Unique(days, DOMAIN days)
  /\ \A n \in DOMAIN days : n \in table \/ days[n] + 1 < now

SaltsInOrder ==
  /\ InOrder(made, salts, day)
  /\ rotation.step \in {"prune", "select", "store"} => \E n \in DOMAIN made : made[n] = rotation.today

\* What a rotation is about to store is not older than what is held, and keeps
\* the salts of today and yesterday that are.
StoresNewer ==
  rotation.step = "store" =>
    /\ made[state.current] <= made[rotation.read.current]
    /\ \A n \in {state.current, state.previous} \ {0} :
         made[n] + 1 >= day => n \in {rotation.read.current, rotation.read.previous}

\* No request and no entry is of a newer salt than the backend's.
NoneNewer ==
  /\ \A r \in Requests : request[r].step # "idle" => made[request[r].current] <= made[state.current]
  /\ \A e \in cache \cup events : made[e.key] <= made[state.current]

-----------------------------------------------------------------------------
(* The visitor's last session.                                             *)

\* It is the last to go, from the table, and from the cache when no request
\* overlapped another and no start left the cache empty.
LastToGo ==
  /\ \A e \in events : visit.idle <= e.idle
  /\ visit.idle < Expiry => \E e \in events : e.session = visit.session /\ e.idle <= visit.idle
  /\ visit.alone /\ visit.warm /\ visit.idle < Expiry =>
       \E e \in cache : e.session = visit.session /\ e.idle <= visit.idle
  /\ visit.alone => \A e \in cache : \E f \in cache : f.session = visit.session /\ f.idle <= e.idle

\* While a request is alone the cache is as it found it.
AloneIsAlone ==
  \A r \in Requests : request[r].step # "idle" /\ request[r].alone =>
    /\ \A q \in Requests \ {r} : request[q].step = "idle"
    /\ \A e \in cache : made[e.key] <= made[request[r].current]
    /\ request[r].step \in {"previous", "create"} => Entries(request[r].current) = {}
    /\ request[r].step = "create" /\ request[r].previous # 0 => Entries(request[r].previous) = {}

Young == visit.alone /\ visit.timely /\ Time - visit.at < DayLength

\* Salt c is the current one, or the one before.
Serves(c, current, previous) == c = current \/ (c = previous /\ made[current] > made[c])

\* The session was created on the day of salt c, and nothing newer is of another.
KeptUnder(c) ==
  /\ made[c] * DayLength <= visit.at /\ visit.at < (made[c] + 1) * DayLength
  /\ \A e \in cache \cup events : e.session = visit.session => made[e.key] >= made[c]
  /\ \A e \in cache \cup events : made[e.key] > made[c] => e.session = visit.session
  /\ Serves(c, state.current, state.previous)
  /\ \A r \in Requests : request[r].step # "idle" /\ request[r].alone =>
       Serves(c, request[r].current, request[r].previous)

VisitInvariant ==
  /\ IdentityTypes
  /\ SaltsInOrder /\ StoresNewer /\ NoneNewer
  /\ LastToGo /\ AloneIsAlone
  /\ Young => \E c \in DOMAIN made : KeptUnder(c)

-----------------------------------------------------------------------------
(* What the steps do.                                                      *)

\* Salts are only added, and time only passes.
MadeGrows ==
  /\ made \in Seq(Nat) /\ made' \in Seq(Nat)
  /\ Len(made) <= Len(made') /\ DOMAIN made \subseteq DOMAIN made'
  /\ \A n \in DOMAIN made : made'[n] = made[n]
  /\ day \in Nat /\ day' \in Nat /\ day <= day'

LEMMA LongerDomain ==
  ASSUME NEW s \in Seq(Nat), NEW t \in Seq(Nat), DOMAIN s \subseteq DOMAIN t
  PROVE  Len(s) <= Len(t)
<1>1. DOMAIN s = 1 .. Len(s) /\ DOMAIN t = 1 .. Len(t) /\ Len(s) \in Nat /\ Len(t) \in Nat
  OBVIOUS
<1>2. CASE Len(s) = 0
  BY <1>1, <1>2
<1>3. CASE Len(s) # 0
  <2>1. Len(s) \in DOMAIN t
    BY <1>1, <1>3
  <2> QED
    BY <1>1, <2>1
<1> QED
  BY <1>2, <1>3

\* An insert adds nothing but a salt of its day to the table.
LEMMA InsertedAdds ==
  ASSUME NEW days \in Seq(Nat), NEW table, NEW today \in Nat
  PROVE  LET new == Inserted(days, table, today)
         IN \A n \in DOMAIN new.made : n \in DOMAIN days \/ (n \in new.salts /\ new.made[n] = today)
<1>1. CASE \E n \in table : days[n] = today
  BY <1>1 DEF Inserted
<1>2. CASE ~ \E n \in table : days[n] = today
  <2>1. Inserted(days, table, today) = [made |-> Append(days, today), salts |-> table \cup {Len(days) + 1}]
    BY <1>2 DEF Inserted
  <2> QED
    BY <2>1
<1> QED
  BY <1>1, <1>2

LEMMA InsertedInOrder ==
  ASSUME NEW days, NEW table, NEW now \in Nat, NEW today \in Nat,
         Database(days, table, now), InOrder(days, table, now), today <= now, now <= today + 1
  PROVE  LET new == Inserted(days, table, today)
         IN InOrder(new.made, new.salts, now) /\ \E n \in DOMAIN new.made : new.made[n] = today
<1> DEFINE new == Inserted(days, table, today)
<1>1. /\ Database(new.made, new.salts, now)
      /\ \A n \in DOMAIN days : new.made[n] = days[n]
      /\ table \subseteq new.salts
      /\ \A n \in new.salts, m \in table : new.made[n] = today /\ days[m] = today => n = m
      /\ \E n \in new.salts : new.made[n] = today
  <2>1. Database(new.made, new.salts, now)
    BY InsertedKeeps
  <2>2. (\A n \in DOMAIN days : new.made[n] = days[n]) /\ table \subseteq new.salts
    BY InsertedKeeps
  <2>3. \A n \in new.salts, m \in table : new.made[n] = today /\ days[m] = today => n = m
    BY InsertedKeeps
  <2>4. \E n \in new.salts : new.made[n] = today
    <3>1. CASE \E n \in table : days[n] = today
      BY <3>1 DEF Inserted
    <3>2. CASE ~ \E n \in table : days[n] = today
      <4>1. new = [made |-> Append(days, today), salts |-> table \cup {Len(days) + 1}]
        BY <3>2 DEF Inserted
      <4>2. Append(days, today)[Len(days) + 1] = today
        BY DEF Database
      <4> QED
        BY <4>1, <4>2
    <3> QED
      BY <3>1, <3>2
  <2> QED
    BY <2>1, <2>2, <2>3, <2>4
<1>2. days \in Seq(Nat) /\ \A n \in DOMAIN days : days[n] \in Nat
  BY DEF Database
<1>3. \A n \in DOMAIN new.made : n \in DOMAIN days \/ (n \in new.salts /\ new.made[n] = today)
  BY <1>2, InsertedAdds
<1> HIDE DEF new
<1>4. ASSUME NEW n \in new.salts, new.made[n] = today, NEW m \in DOMAIN days, days[m] = today PROVE n = m
  <2>1. m \in table
    BY <1>2, <1>4 DEF InOrder
  <2> QED
    BY <1>1, <1>4, <2>1
<1>5. Unique(new.made, DOMAIN new.made)
  <2> SUFFICES ASSUME NEW n \in DOMAIN new.made, NEW m \in DOMAIN new.made, new.made[n] = new.made[m]
               PROVE  n = m
    BY DEF Unique
  <2>1. CASE n \in DOMAIN days /\ m \in DOMAIN days
    BY <1>1, <2>1 DEF InOrder, Unique
  <2>2. CASE n \notin DOMAIN days /\ m \in DOMAIN days
    BY <1>1, <1>3, <1>4, <2>2
  <2>3. CASE n \in DOMAIN days /\ m \notin DOMAIN days
    BY <1>1, <1>3, <1>4, <2>3
  <2>4. CASE n \notin DOMAIN days /\ m \notin DOMAIN days
    BY <1>1, <1>3, <2>4 DEF Database, Unique
  <2> QED
    BY <2>1, <2>2, <2>3, <2>4
<1>6. \A n \in DOMAIN new.made : n \in new.salts \/ new.made[n] + 1 < now
  BY <1>1, <1>3 DEF InOrder
<1>7. \E n \in DOMAIN new.made : new.made[n] = today
  BY <1>1 DEF Database
<1> QED
  BY <1>5, <1>6, <1>7 DEF InOrder, new

LEMMA PrunedInOrder ==
  ASSUME NEW days, NEW table, NEW now \in Nat, NEW today \in Nat, days \in Seq(Nat),
         InOrder(days, table, now), today <= now
  PROVE  InOrder(days, Pruned(days, table, today), now)
<1>1. \A n \in DOMAIN days : days[n] \in Nat
  OBVIOUS
<1> QED
  BY <1>1 DEF InOrder, Pruned

LEMMA EnsuredGrows ==
  ASSUME SaltInvariant, Ensured
  PROVE  /\ DOMAIN made \subseteq DOMAIN made' /\ \A n \in DOMAIN made : made'[n] = made[n]
         /\ \E n \in salts' : made'[n] = day
         /\ \A n \in DOMAIN made' : made'[n] <= day
         /\ InOrder(made, salts, day) => InOrder(made', salts', day)
<1> DEFINE new == Inserted(made, salts, day)
<1>1. day \in Nat /\ Database(made, salts, day)
  BY DEF SaltInvariant
<1>2. /\ Database(new.made, new.salts, day)
      /\ DOMAIN made \subseteq DOMAIN new.made
      /\ \A n \in DOMAIN made : new.made[n] = made[n]
      /\ \E n \in new.salts : new.made[n] = day
  BY <1>1, InsertedKeeps
<1>3. made' = new.made /\ salts' = Pruned(new.made, new.salts, day)
  BY DEF Ensured
<1>4. InOrder(made, salts, day) => InOrder(new.made, new.salts, day)
  BY <1>1, InsertedInOrder
<1> HIDE DEF new
<1>5. \A n \in new.salts : new.made[n] + 1 >= day => n \in salts'
  BY <1>3 DEF Pruned
<1>6. new.made \in Seq(Nat) /\ \A n \in new.salts : new.made[n] \in Nat
  BY <1>2 DEF Database
<1>7. \E n \in salts' : made'[n] = day
  BY <1>1, <1>2, <1>3, <1>5, <1>6
<1>8. InOrder(new.made, new.salts, day) => InOrder(made', salts', day)
  BY <1>1, <1>3, <1>6, PrunedInOrder
<1> QED
  BY <1>2, <1>3, <1>4, <1>7, <1>8 DEF Database

\* A step by what it does: the list of the actions that the lemmas go through.
LEMMA IdentitySteps ==
  ASSUME [Next]_vars
  PROVE  \/ \E r \in Requests : Arrive(r)
         \/ \E r \in Requests : GetCurrent(r) \/ GetPrevious(r) \/ Create(r)
         \/ RotationInserts /\ UNCHANGED <<day, hour, cooldown, failures, visiting, starts>>
         \/ RotationPrunes /\ UNCHANGED <<day, hour, cooldown, failures, visiting, starts>>
         \/ RotationSelects /\ UNCHANGED <<day, hour, cooldown, failures, visiting, starts>>
         \/ RotationStores /\ UNCHANGED <<day, hour, cooldown, failures, visiting, starts>>
         \/ RotationFails \/ OtherRotates \/ CooldownEnds \/ Tick \/ Restart
         \/ UNCHANGED vars
<1>1. CASE Rotation
  BY <1>1 DEF Rotation, clock
<1> QED
  BY <1>1 DEF Next

LEMMA SaltsGrow ==
  ASSUME SaltInvariant, SaltInvariant', [Next]_vars
  PROVE  MadeGrows
<1>1. made \in Seq(Nat) /\ made' \in Seq(Nat) /\ day \in Nat /\ day' \in Nat
  BY DEF SaltInvariant, Database
<1>2. ASSUME UNCHANGED made, day <= day' PROVE MadeGrows
  BY <1>1, <1>2, LongerDomain DEF MadeGrows
<1>3. ASSUME RotationInserts, day' = day PROVE MadeGrows
  <2> DEFINE new == Inserted(made, salts, rotation.today)
  <2>1. Database(made, salts, day) /\ rotation.today \in Nat /\ rotation.today <= day
    BY <1>3 DEF SaltInvariant, Timely, RotationInserts, RotationStep
  <2>2. DOMAIN made \subseteq DOMAIN new.made /\ \A n \in DOMAIN made : new.made[n] = made[n]
    BY <1>1, <2>1, InsertedKeeps
  <2>3. made' = new.made
    BY <1>3 DEF RotationInserts
  <2> HIDE DEF new
  <2> QED
    BY <1>1, <1>3, <2>2, <2>3, LongerDomain DEF MadeGrows
<1>4. ASSUME Ensured, day' = day PROVE MadeGrows
  BY <1>1, <1>4, EnsuredGrows, LongerDomain DEF MadeGrows
<1>5. CASE \E r \in Requests : Arrive(r)
  BY <1>1, <1>2, <1>5 DEF Arrive, clock
<1>6. CASE \E r \in Requests : GetCurrent(r) \/ GetPrevious(r) \/ Create(r)
  BY <1>1, <1>2, <1>6 DEF GetCurrent, GetPrevious, Create, salting, clock
<1>7. CASE UNCHANGED day /\ (RotationPrunes \/ RotationSelects \/ RotationStores)
  <2>1. made' = made
    BY <1>7 DEF RotationPrunes, RotationSelects, RotationStores
  <2> QED
    BY <1>1, <1>2, <1>7, <2>1
<1>8. CASE RotationFails \/ CooldownEnds
  BY <1>1, <1>2, <1>8 DEF RotationFails, CooldownEnds, clock
<1>9. CASE Tick
  BY <1>1, <1>2, <1>9 DEF Tick
<1>10. CASE OtherRotates
  BY <1>4, <1>10 DEF OtherRotates, clock
<1>11. CASE Restart
  BY <1>4, <1>11 DEF Restart, clock
<1>12. CASE UNCHANGED vars
  BY <1>1, <1>2, <1>12 DEF vars, clock, salting
<1> QED
  BY <1>3, <1>5, <1>6, <1>7, <1>8, <1>9, <1>10, <1>11, <1>12, IdentitySteps

-----------------------------------------------------------------------------
(* The salts stay in order.                                                *)

LEMMA InOrderStep ==
  ASSUME SaltInvariant, SaltsInOrder, [Next]_vars
  PROVE  SaltsInOrder'
<1> USE DEF SaltsInOrder
<1>1. /\ Database(made, salts, day) /\ day \in Nat /\ made \in Seq(Nat)
      /\ \A n \in DOMAIN made : made[n] \in Nat
  BY DEF SaltInvariant, Database
<1>2. CASE UNCHANGED <<day, made, salts, rotation>>
  BY <1>2
<1>3. CASE \E r \in Requests : Arrive(r)
  <2>1. UNCHANGED <<day, made, salts>> /\ (rotation' = rotation \/ rotation'.step = "insert")
    BY <1>3 DEF Arrive, clock, NoRotation
  <2> QED
    BY <2>1
<1>4. CASE \E r \in Requests : GetCurrent(r) \/ GetPrevious(r) \/ Create(r)
  <2>1. UNCHANGED <<day, made, salts, rotation>>
    BY <1>4 DEF GetCurrent, GetPrevious, Create, clock, salting
  <2> QED
    BY <1>2, <2>1
<1>5. CASE RotationInserts /\ UNCHANGED day
  <2> DEFINE today == rotation.today
             new == Inserted(made, salts, today)
  <2>1. today \in Nat /\ today <= day /\ day <= today + 1
    BY <1>5 DEF SaltInvariant, Timely, RotationInserts, RotationStep
  <2>2. made' = new.made /\ salts' = new.salts /\ rotation' = [rotation EXCEPT !.step = "prune"]
    BY <1>5 DEF RotationInserts, RotationStep
  <2>3. rotation'.today = today
    BY <2>2 DEF SaltInvariant
  <2> HIDE DEF today
  <2>4. InOrder(new.made, new.salts, day) /\ \E n \in DOMAIN new.made : new.made[n] = today
    BY <1>1, <2>1, InsertedInOrder
  <2> HIDE DEF new
  <2> QED
    BY <1>5, <2>2, <2>3, <2>4
<1>6. CASE RotationPrunes /\ UNCHANGED day
  <2>1. rotation.today \in Nat /\ rotation.today <= day
    BY <1>6 DEF SaltInvariant, Timely, RotationPrunes, RotationStep
  <2>2. /\ made' = made /\ salts' = Pruned(made, salts, rotation.today) /\ rotation.step = "prune"
        /\ rotation'.today = rotation.today
    BY <1>6 DEF RotationPrunes, RotationStep, SaltInvariant
  <2>3. InOrder(made, salts', day)
    BY <1>1, <2>1, <2>2, PrunedInOrder
  <2> QED
    BY <1>6, <2>2, <2>3
<1>7. CASE RotationSelects /\ UNCHANGED day
  <2>1. PICK read \in Selected(made, salts, rotation.today) :
          rotation' = [rotation EXCEPT !.step = "store", !.read = read]
    BY <1>7 DEF RotationSelects
  <2>2. rotation'.today = rotation.today /\ rotation.step = "select" /\ UNCHANGED <<made, salts>>
    BY <1>7, <2>1 DEF SaltInvariant, RotationSelects
  <2> QED
    BY <1>7, <2>2
<1>8. CASE RotationStores /\ UNCHANGED day
  BY <1>8 DEF RotationStores, NoRotation
<1>9. CASE RotationFails
  BY <1>9 DEF RotationFails, clock, NoRotation
<1>10. CASE OtherRotates
  <2>1. Ensured /\ UNCHANGED <<day, rotation>>
    BY <1>10 DEF OtherRotates, clock
  <2> QED
    BY <2>1, EnsuredGrows
<1>11. CASE CooldownEnds
  BY <1>2, <1>11 DEF CooldownEnds, clock
<1>12. CASE Tick
  <2>1. UNCHANGED <<made, salts, rotation>> /\ day' \in Nat /\ day <= day'
    BY <1>1, <1>12 DEF Tick
  <2>2. InOrder(made, salts, day')
    BY <1>1, <2>1 DEF InOrder
  <2> QED
    BY <2>1, <2>2
<1>13. CASE Restart
  <2>1. Ensured /\ day' = day /\ rotation'.step = "idle"
    BY <1>13 DEF Restart, clock, NoRotation
  <2> QED
    BY <2>1, EnsuredGrows
<1>14. CASE UNCHANGED vars
  BY <1>2, <1>14 DEF vars, clock, salting
<1> QED
  BY <1>3, <1>4, <1>5, <1>6, <1>7, <1>8, <1>9, <1>10, <1>11, <1>12, <1>13, <1>14, IdentitySteps

-----------------------------------------------------------------------------
(* What a rotation stores is newer.                                        *)

\* The two newest salts of a table hold what is of today or yesterday.
LEMMA SelectedServes ==
  ASSUME NEW days, NEW table, NEW now \in Nat, NEW today, Database(days, table, now),
         NEW read \in Selected(days, table, today), NEW n \in table, days[n] + 1 >= now
  PROVE  /\ days[n] <= days[read.current]
         /\ n = read.current \/ (n = read.previous /\ days[read.current] > days[n])
<1>1. /\ read.current \in table /\ \A m \in table : days[m] <= days[read.current]
      /\ table # {read.current} =>
           /\ read.previous \in table \ {read.current}
           /\ \A m \in table \ {read.current} : days[m] <= days[read.previous]
  BY DEF Selected, Newest
<1>2. /\ \A m \in table : days[m] \in Nat /\ days[m] <= now
      /\ \A m, k \in table : days[m] = days[k] => m = k
  BY DEF Database, Unique
<1>3. days[n] <= days[read.current]
  BY <1>1
<1>4. ASSUME n # read.current PROVE n = read.previous /\ days[read.current] > days[n]
  <2>1. days[n] # days[read.current]
    BY <1>1, <1>2, <1>4
  <2>2. days[read.current] = now /\ days[n] + 1 = now
    BY <1>1, <1>2, <1>3, <2>1
  <2>3. read.previous \in table /\ read.previous # read.current /\ days[n] <= days[read.previous]
    BY <1>1, <1>4
  <2>4. days[read.previous] # now
    BY <1>1, <1>2, <2>2, <2>3
  <2>5. days[read.previous] = days[n]
    BY <1>2, <2>2, <2>3, <2>4
  <2> QED
    BY <1>2, <2>2, <2>3, <2>5
<1> QED
  BY <1>3, <1>4

\* The salts a backend holds, or is about to hold, were made.
LEMMA HeldAreMade ==
  ASSUME SaltInvariant
  PROVE  /\ state.current \in DOMAIN made /\ \A n \in {state.current, state.previous} \ {0} : n \in DOMAIN made
         /\ rotation.step = "store" =>
              /\ rotation.read.current \in DOMAIN made
              /\ \A n \in {rotation.read.current, rotation.read.previous} \ {0} : n \in DOMAIN made
         /\ \A n \in DOMAIN made : made[n] \in Nat /\ made[n] <= day
BY DEF SaltInvariant, Sound, Database

LEMMA StoresNewerStep ==
  ASSUME SaltInvariant, SaltsInOrder, StoresNewer, MadeGrows, [Next]_vars
  PROVE  StoresNewer'
<1>1. ASSUME UNCHANGED <<state, rotation>> PROVE StoresNewer'
  <2> SUFFICES ASSUME rotation.step = "store"
               PROVE  /\ made'[state.current] <= made'[rotation.read.current]
                      /\ \A n \in {state.current, state.previous} \ {0} :
                           made'[n] + 1 >= day' => n \in {rotation.read.current, rotation.read.previous}
    BY <1>1 DEF StoresNewer
  <2>1. /\ state.current \in DOMAIN made /\ rotation.read.current \in DOMAIN made
        /\ \A n \in {state.current, state.previous} \ {0} : n \in DOMAIN made /\ made[n] \in Nat
    BY HeldAreMade
  <2>2. made'[state.current] <= made'[rotation.read.current]
    BY <2>1 DEF StoresNewer, MadeGrows
  <2>3. ASSUME NEW n \in {state.current, state.previous} \ {0}, made'[n] + 1 >= day'
        PROVE  n \in {rotation.read.current, rotation.read.previous}
    <3>1. made[n] + 1 >= day
      BY <2>1, <2>3 DEF MadeGrows
    <3> QED
      BY <3>1 DEF StoresNewer
  <2> QED
    BY <2>2, <2>3
<1>2. ASSUME rotation'.step # "store" PROVE StoresNewer'
  BY <1>2 DEF StoresNewer
<1>3. CASE \E r \in Requests : Arrive(r)
  <2>1. UNCHANGED state /\ (rotation' = rotation \/ rotation'.step = "insert")
    BY <1>3 DEF Arrive, NoRotation
  <2> QED
    BY <1>1, <1>2, <2>1
<1>4. CASE \E r \in Requests : GetCurrent(r) \/ GetPrevious(r) \/ Create(r)
  <2>1. UNCHANGED <<state, rotation>>
    BY <1>4 DEF GetCurrent, GetPrevious, Create, salting
  <2> QED
    BY <1>1, <2>1
<1>5. CASE RotationInserts \/ RotationPrunes
  <2>1. rotation'.step \in {"prune", "select"}
    BY <1>5 DEF RotationInserts, RotationPrunes, RotationStep, SaltInvariant
  <2> QED
    BY <1>2, <2>1
<1>6. CASE RotationSelects /\ UNCHANGED <<day, hour, cooldown, failures, visiting, starts>>
  <2>1. PICK read \in Selected(made, salts, rotation.today) :
          rotation' = [rotation EXCEPT !.step = "store", !.read = read]
    BY <1>6 DEF RotationSelects
  <2>2. rotation'.read = read /\ rotation.step = "select" /\ UNCHANGED <<day, made, salts, state>>
    BY <1>6, <2>1 DEF SaltInvariant, RotationSelects
  <2>3. /\ Database(made, salts, day) /\ day \in Nat /\ rotation.today \in Nat /\ day <= rotation.today + 1
        /\ InOrder(made, salts, day)
    BY <2>2 DEF SaltInvariant, Timely, SaltsInOrder
  <2>4. ASSUME NEW n \in DOMAIN made, made[n] + 1 >= day
        PROVE  made[n] <= made[read.current] /\ n \in {read.current, read.previous}
    <3>1. n \in salts
      BY <2>3, <2>4, HeldAreMade DEF InOrder
    <3> QED
      BY <2>3, <2>4, <3>1, SelectedServes
  <2>5. PICK n \in DOMAIN made : made[n] = rotation.today
    BY <2>2 DEF SaltsInOrder
  <2>6. rotation.today <= made[read.current] /\ read.current \in DOMAIN made
    BY <2>1, <2>3, <2>4, <2>5 DEF Selected, Newest, Database
  <2>7. made[state.current] <= made[read.current]
    <3>1. CASE made[state.current] + 1 >= day
      BY <2>4, <3>1, HeldAreMade
    <3>2. CASE ~(made[state.current] + 1 >= day)
      BY <2>3, <2>6, <3>2, HeldAreMade
    <3> QED
      BY <3>1, <3>2
  <2> QED
    BY <2>2, <2>4, <2>7, HeldAreMade DEF StoresNewer
<1>7. CASE RotationStores
  BY <1>2, <1>7 DEF RotationStores, NoRotation
<1>8. CASE RotationFails
  BY <1>2, <1>8 DEF RotationFails, NoRotation
<1>9. CASE OtherRotates \/ CooldownEnds \/ Tick
  <2>1. UNCHANGED <<state, rotation>>
    BY <1>9 DEF OtherRotates, CooldownEnds, Tick
  <2> QED
    BY <1>1, <2>1
<1>10. CASE Restart
  BY <1>2, <1>10 DEF Restart, NoRotation
<1>11. CASE UNCHANGED vars
  BY <1>1, <1>11 DEF vars, salting
<1> QED
  BY <1>3, <1>4, <1>5, <1>6, <1>7, <1>8, <1>9, <1>10, <1>11, IdentitySteps

-----------------------------------------------------------------------------
(* What the steps of a request do.                                         *)

\* A request ends with the entry e it found.
Took(r, e) ==
  /\ e \in cache /\ Hit(r, e)
  /\ \/ request[r].step = "current" /\ e.key = request[r].current
     \/ request[r].step = "previous" /\ request[r].previous # 0 /\ e.key = request[r].previous

\* It found none and goes on.
Missed(r) ==
  \/ request[r].step = "current" /\ Entries(request[r].current) = {} /\ Miss(r, "previous")
  \/ /\ request[r].step = "previous" /\ Miss(r, "create")
     /\ request[r].previous # 0 => Entries(request[r].previous) = {}

LEMMA RequestSteps ==
  ASSUME NEW r \in Requests, GetCurrent(r) \/ GetPrevious(r) \/ Create(r)
  PROVE  /\ UNCHANGED <<day, hour, made, salts, state, rotation, inFlight, cooldown, failures, starts>>
         /\ (\E e \in cache : Took(r, e)) \/ Missed(r) \/ Create(r)
<1>1. UNCHANGED <<day, hour, made, salts, state, rotation, inFlight, cooldown, failures, starts>>
  BY DEF GetCurrent, GetPrevious, Create, clock, salting
<1>2. ASSUME NEW e \in cache, Hit(r, e), request[r].step = "current", e.key = request[r].current
      PROVE  \E f \in cache : Took(r, f)
  BY <1>2 DEF Took
<1>3. ASSUME NEW e \in cache, Hit(r, e), request[r].step = "previous", request[r].previous # 0,
             e.key = request[r].previous
      PROVE  \E f \in cache : Took(r, f)
  BY <1>3 DEF Took
<1>4. ASSUME GetCurrent(r) PROVE (\E e \in cache : Took(r, e)) \/ Missed(r)
  <2>1. /\ request[r].step = "current"
        /\ \/ \E e \in Entries(request[r].current) : Hit(r, e)
           \/ Entries(request[r].current) = {} /\ Miss(r, "previous")
    BY <1>4 DEF GetCurrent
  <2>2. CASE \E e \in Entries(request[r].current) : Hit(r, e)
    <3>1. PICK e \in Entries(request[r].current) : Hit(r, e)
      BY <2>2
    <3>2. e \in cache /\ e.key = request[r].current
      BY DEF Entries
    <3> QED
      BY <1>2, <2>1, <3>1, <3>2
  <2> QED
    BY <2>1, <2>2 DEF Missed
<1>5. ASSUME GetPrevious(r) PROVE (\E e \in cache : Took(r, e)) \/ Missed(r)
  <2> DEFINE found == IF request[r].previous = 0 THEN {} ELSE Entries(request[r].previous)
  <2>1. request[r].step = "previous" /\ ((\E e \in found : Hit(r, e)) \/ (found = {} /\ Miss(r, "create")))
    BY <1>5 DEF GetPrevious
  <2>2. \A e \in found : request[r].previous # 0 /\ e \in cache /\ e.key = request[r].previous
    BY DEF Entries
  <2>3. request[r].previous # 0 => found = Entries(request[r].previous)
    OBVIOUS
  <2> HIDE DEF found
  <2>4. CASE \E e \in found : Hit(r, e)
    <3>1. PICK e \in found : Hit(r, e)
      BY <2>4
    <3> QED
      BY <1>3, <2>1, <2>2, <3>1
  <2>5. CASE found = {} /\ Miss(r, "create")
    BY <2>1, <2>3, <2>5 DEF Missed
  <2> QED
    BY <2>1, <2>4, <2>5
<1> QED
  BY <1>1, <1>4, <1>5

LEMMA RequestFields ==
  ASSUME IdentityTypes, NEW r \in Requests
  PROVE  /\ request[r] \in Request /\ request[r].step \in Steps /\ request[r].current \in Salt
         /\ request[r].previous \in Salt /\ request[r].alone \in BOOLEAN
         /\ request[r].step # "idle" => request[r].current \in Salt \ {0}
<1>1. request[r] \in Request
  BY DEF IdentityTypes
<1> QED
  BY <1>1 DEF Request, IdentityTypes

LEMMA EntryFields ==
  ASSUME IdentityTypes, NEW e \in cache \cup events
  PROVE  /\ e.key \in Salt \ {0} /\ e.session \in 1 .. created /\ e.idle \in 0 .. Expiry
         /\ e = [key |-> e.key, session |-> e.session, idle |-> e.idle]
         /\ e \in cache => e.idle \in 0 .. Expiry - 1
<1>1. CASE e \in cache
  <2>1. e \in Entry
    BY <1>1 DEF IdentityTypes
  <2> QED
    BY <2>1 DEF Entry, Expiry
<1>2. CASE e \in events /\ e \notin cache
  <2>1. e \in Row
    BY <1>2 DEF IdentityTypes
  <2> QED
    BY <1>2, <2>1 DEF Row
<1> QED
  BY <1>1, <1>2

LEMMA SaltsAreMade ==
  ASSUME SaltInvariant
  PROVE  Salt \ {0} = DOMAIN made /\ Len(made) \in Nat
<1>1. made \in Seq(Nat)
  BY DEF SaltInvariant, Database
<1>2. DOMAIN made = 1 .. Len(made) /\ Len(made) \in Nat
  BY <1>1
<1> QED
  BY <1>2 DEF Salt

\* A request is over.
Frees(r) == request'[r] = Idle /\ \A q \in Requests \ {r} : request'[q] = request[q]

\* The session of a request that is over has a fresh entry under its key.
Enters(r, key, session) ==
  /\ \A f \in cache' : f \in cache \/ f = [key |-> key, session |-> session, idle |-> 0]
  /\ [key |-> key, session |-> session, idle |-> 0] \in cache'
  /\ \A f \in events' :
       f \in events \/ f = [key |-> request[r].current, session |-> session, idle |-> 0]
  /\ [key |-> request[r].current, session |-> session, idle |-> 0] \in events'

LEMMA IdleFields ==
  ASSUME SaltInvariant
  PROVE  Idle \in Request /\ Idle.step = "idle"
<1>1. 0 \in Salt
  BY SaltsAreMade DEF Salt
<1> QED
  BY <1>1 DEF Idle, Request, Steps

LEMMA AssignedFields ==
  ASSUME IdentityTypes, NEW r \in Requests, NEW session, Assigned(r, session)
  PROVE  /\ Frees(r)
         /\ \A f \in events' :
              f \in events \/ f = [key |-> request[r].current, session |-> session, idle |-> 0]
         /\ [key |-> request[r].current, session |-> session, idle |-> 0] \in events'
<1> DEFINE new == [session |-> session, key |-> request[r].current, idle |-> 0]
<1>1. /\ request' = [request EXCEPT ![r] = Idle]
      /\ events' = events \cup {new}
  BY DEF Assigned
<1>2. new = [key |-> request[r].current, session |-> session, idle |-> 0]
  OBVIOUS
<1>3. Frees(r)
  BY <1>1 DEF IdentityTypes, Frees
<1> HIDE DEF new
<1> QED
  BY <1>1, <1>2, <1>3

LEMMA TookFields ==
  ASSUME IdentityTypes, NEW r \in Requests, NEW e \in cache, Took(r, e)
  PROVE  /\ Frees(r) /\ Enters(r, e.key, e.session) /\ UNCHANGED created
         /\ e \notin cache' \/ e.idle = 0
         /\ \A f \in cache : f = e \/ f \in cache'
         /\ visit' = [visit EXCEPT !.session = e.session, !.idle = 0, !.warm = TRUE,
                           !.alone = visit.alone /\ request[r].alone]
<1> DEFINE new == [e EXCEPT !.idle = 0]
<1>1. /\ cache' = (cache \ {e}) \cup {new} /\ Assigned(r, e.session) /\ UNCHANGED created
      /\ visit' = [visit EXCEPT !.session = e.session, !.idle = 0, !.warm = TRUE,
                           !.alone = visit.alone /\ request[r].alone]
  BY DEF Took, Hit
<1>2. e \in Entry
  BY DEF IdentityTypes
<1>3. new = [key |-> e.key, session |-> e.session, idle |-> 0] /\ (new = e => e.idle = 0)
  BY <1>2 DEF Entry
<1> HIDE DEF new
<1>4. Enters(r, e.key, e.session) /\ Frees(r)
  BY <1>1, <1>3, AssignedFields DEF Enters
<1> QED
  BY <1>1, <1>3, <1>4

LEMMA CreateFields ==
  ASSUME IdentityTypes, NEW r \in Requests, Create(r)
  PROVE  /\ Frees(r) /\ Enters(r, request[r].current, created + 1) /\ created' = created + 1
         /\ request[r].step = "create" /\ created < MaxSessions
         /\ \A f \in cache : f.key = request[r].current \/ f \in cache'
         /\ \A f \in cache' : f.key = request[r].current => f.session = created + 1 /\ f.idle = 0
         /\ visit' = [session |-> created + 1, idle |-> 0, alone |-> request[r].alone, at |-> Time,
                      timely |-> made[request[r].current] = day, warm |-> TRUE]
<1> DEFINE new == [key |-> request[r].current, session |-> created + 1, idle |-> 0]
<1>1. /\ cache' = (cache \ Entries(request[r].current)) \cup {new} /\ Assigned(r, created + 1)
      /\ created' = created + 1 /\ request[r].step = "create" /\ created < MaxSessions
      /\ visit' = [session |-> created + 1, idle |-> 0, alone |-> request[r].alone, at |-> Time,
                   timely |-> made[request[r].current] = day, warm |-> TRUE]
  BY DEF Create
<1>2. new.key = request[r].current /\ new.session = created + 1 /\ new.idle = 0
  OBVIOUS
<1>3. Enters(r, request[r].current, created + 1) /\ Frees(r)
  BY <1>1, AssignedFields DEF Enters
<1> HIDE DEF new
<1>4. /\ \A f \in cache : f.key = request[r].current \/ f \in cache'
      /\ \A f \in cache' : f.key = request[r].current => f.session = created + 1 /\ f.idle = 0
  BY <1>1, <1>2 DEF Entries
<1> QED
  BY <1>1, <1>3, <1>4

LEMMA MissedFields ==
  ASSUME IdentityTypes, NEW r \in Requests, Missed(r)
  PROVE  /\ UNCHANGED <<cache, events, visit, created>>
         /\ request' \in [Requests -> Request]
         /\ \A q \in Requests \ {r} : request'[q] = request[q]
         /\ request'[r].current = request[r].current /\ request'[r].previous = request[r].previous
         /\ request'[r].alone = request[r].alone /\ request[r].step # "idle"
         /\ \/ request'[r].step = "previous" /\ Entries(request[r].current) = {}
            \/ /\ request'[r].step = "create" /\ request[r].step = "previous"
               /\ request[r].previous # 0 => Entries(request[r].previous) = {}
<1>1. PICK step \in {"previous", "create"} :
        /\ Miss(r, step) /\ request[r].step # "idle"
        /\ \/ step = "previous" /\ Entries(request[r].current) = {}
           \/ /\ step = "create" /\ request[r].step = "previous"
              /\ request[r].previous # 0 => Entries(request[r].previous) = {}
  BY DEF Missed
<1> DEFINE y == [request[r] EXCEPT !.step = step]
<1>2. request[r] \in Request /\ step \in Steps
  BY RequestFields DEF Steps
<1>3. /\ y \in Request /\ y.step = step /\ y.current = request[r].current
      /\ y.previous = request[r].previous /\ y.alone = request[r].alone
  BY <1>2 DEF Request
<1>4. request' = [request EXCEPT ![r] = y] /\ UNCHANGED <<cache, events, visit, created>>
  BY <1>1 DEF Miss
<1> HIDE DEF y
<1>5. /\ request' \in [Requests -> Request] /\ request'[r] = y
      /\ \A q \in Requests \ {r} : request'[q] = request[q]
  BY <1>3, <1>4 DEF IdentityTypes
<1> QED
  BY <1>1, <1>3, <1>4, <1>5

LEMMA ArriveFields ==
  ASSUME IdentityTypes, NEW r \in Requests, Arrive(r)
  PROVE  /\ UNCHANGED <<day, hour, made, salts, state, failures, cache, events, visit, created, starts>>
         /\ request' \in [Requests -> Request]
         /\ request[r].step = "idle" /\ request'[r].step = "current"
         /\ request'[r].current = state.current /\ request'[r].previous = state.previous
         /\ request'[r].alone <=> Quiet
         /\ \A q \in Requests \ {r} :
              /\ request'[q].step = request[q].step /\ request'[q].current = request[q].current
              /\ request'[q].previous = request[q].previous
              /\ request'[q].alone <=> request[q].step = "idle"
<1> DEFINE y(q) == [request[q] EXCEPT !.alone = request[q].step = "idle"]
           z == [step |-> "current", current |-> state.current, previous |-> state.previous, alone |-> Quiet]
<1>1. /\ UNCHANGED <<day, hour, made, salts, state, failures, cache, events, visit, created, starts>>
      /\ request[r].step = "idle"
      /\ request' = [q \in Requests |-> IF q = r THEN z ELSE y(q)]
  BY DEF Arrive, clock
<1>2. Quiet \in BOOLEAN
  BY DEF Quiet
<1>3. state.current \in Salt /\ state.previous \in Salt
  BY DEF IdentityTypes, State
<1>4. z \in Request /\ z.step = "current" /\ z.current = state.current /\ z.previous = state.previous
  BY <1>2, <1>3 DEF Request, Steps
<1>5. z.alone <=> Quiet
  OBVIOUS
<1>6. ASSUME NEW q \in Requests
      PROVE  /\ y(q) \in Request /\ y(q).step = request[q].step /\ y(q).current = request[q].current
             /\ y(q).previous = request[q].previous
  <2>1. request[q] \in Request /\ (request[q].step = "idle") \in BOOLEAN
    BY RequestFields
  <2> QED
    BY <2>1 DEF Request
<1>7. ASSUME NEW q \in Requests PROVE y(q).alone <=> request[q].step = "idle"
  <2>1. request[q] \in Request
    BY RequestFields
  <2> QED
    BY <2>1 DEF Request
<1> HIDE DEF y, z
<1>8. request' \in [Requests -> Request]
  BY <1>1, <1>4, <1>6
<1>9. request'[r] = z /\ \A q \in Requests \ {r} : request'[q] = y(q)
  BY <1>1
<1> QED
  BY <1>1, <1>4, <1>5, <1>6, <1>7, <1>8, <1>9

LEMMA TimeIsNumber ==
  ASSUME SaltInvariant, IdentityTypes
  PROVE  Time \in Nat /\ DayLength \in Nat /\ DayLength > 2 /\ day \in Nat /\ hour \in Nat
<1>1. DayLength \in Nat /\ DayLength > 2 /\ day \in Nat /\ hour \in Nat
  BY IdentityAssumption DEF IdentityTypes, SaltInvariant
<1>2. day * DayLength \in Nat
  BY <1>1
<1> QED
  BY <1>1, <1>2 DEF Time

\* An entry, and a row, that has been idle for a unit of time more.
OlderEntry(e) == [key |-> e.key, session |-> e.session, idle |-> e.idle + 1]
OlderRow(e) == [key |-> e.key, session |-> e.session, idle |-> Older(e.idle)]

LEMMA AgedFields ==
  ASSUME IdentityTypes
  PROVE  /\ \A f \in Aged(cache) : \E e \in cache : f = OlderEntry(e) /\ e.idle + 1 < Expiry
         /\ \A e \in cache : e.idle + 1 < Expiry => OlderEntry(e) \in Aged(cache)
<1>1. ASSUME NEW e \in cache PROVE [e EXCEPT !.idle = @ + 1] = OlderEntry(e)
  <2>1. e \in Entry
    BY DEF IdentityTypes
  <2> QED
    BY <2>1 DEF Entry, OlderEntry
<1> QED
  BY <1>1 DEF Aged

LEMMA RowsAge ==
  ASSUME IdentityTypes, events' = {[e EXCEPT !.idle = Older(@)] : e \in events}
  PROVE  events' = {OlderRow(e) : e \in events}
<1>1. ASSUME NEW e \in events PROVE [e EXCEPT !.idle = Older(@)] = OlderRow(e)
  <2>1. e \in Row
    BY DEF IdentityTypes
  <2> QED
    BY <2>1 DEF Row, OlderRow
<1> QED
  BY <1>1

LEMMA TickFields ==
  ASSUME SaltInvariant, IdentityTypes, Tick
  PROVE  /\ UNCHANGED <<made, salts, state, rotation, inFlight, failures, request, created, starts>>
         /\ Quiet /\ cooldown' = FALSE /\ cache' = Aged(cache) /\ events' = {OlderRow(e) : e \in events}
         /\ hour' \in 0 .. DayLength - 1 /\ day' \in {day, day + 1} /\ Time' = Time + 1 /\ Time' <= MaxTime
         /\ visit' = [visit EXCEPT !.idle = Older(visit.idle)]
<1>1. /\ UNCHANGED <<made, salts, state, rotation, inFlight, failures, request, created, starts>>
      /\ Quiet /\ cooldown' = FALSE /\ cache' = Aged(cache) /\ events' = {OlderRow(e) : e \in events}
      /\ visit' = [visit EXCEPT !.idle = Older(visit.idle)]
      /\ Time < MaxTime
  BY RowsAge DEF Tick
<1>2. \/ hour + 1 < DayLength /\ hour' = hour + 1 /\ day' = day
      \/ hour + 1 = DayLength /\ hour' = 0 /\ day' = day + 1
  BY DEF Tick
<1>3. /\ Time \in Nat /\ DayLength \in Nat /\ DayLength > 2 /\ day \in Nat /\ hour \in Nat
      /\ day * DayLength \in Nat /\ (day + 1) * DayLength = day * DayLength + DayLength
      /\ MaxTime \in Nat
  BY TimeIsNumber, IdentityAssumption
<1>4. Time' = Time + 1
  <2>1. CASE hour + 1 < DayLength /\ hour' = hour + 1 /\ day' = day
    BY <1>3, <2>1 DEF Time
  <2>2. CASE hour + 1 = DayLength /\ hour' = 0 /\ day' = day + 1
    <3>1. Time' = (day + 1) * DayLength + 0
      BY <2>2 DEF Time
    <3> QED
      BY <1>3, <2>2, <3>1 DEF Time
  <2> QED
    BY <1>2, <2>1, <2>2
<1>5. hour' \in 0 .. DayLength - 1 /\ day' \in {day, day + 1}
  BY <1>2, <1>3
<1>6. Time' <= MaxTime
  BY <1>1, <1>3, <1>4
<1> QED
  BY <1>1, <1>4, <1>5, <1>6

\* A warmed cache is of the rows in the table; it has the visitor's last session
\* when that is active and no request overlapped another.
LEMMA WarmedFields ==
  ASSUME SaltInvariant, IdentityTypes, Restart
  PROVE  /\ \A e \in cache' : \E f \in events : e = [key |-> f.key, session |-> f.session, idle |-> 0]
         /\ OnePerKey'
         /\ cache' # {} => \E f \in events : f.idle < Expiry
         /\ visit'.session = visit.session /\ visit'.idle = visit.idle /\ visit'.alone = visit.alone
         /\ visit'.at = visit.at /\ visit'.timely = visit.timely /\ visit' \in Visit
         /\ \/ cache' = {} /\ visit'.warm = FALSE
            \/ visit.alone => \A f \in events : f.session = visit.session /\ f.idle < Expiry =>
                 \E e \in cache' : e.session = visit.session /\ e.idle = 0
<1>1. visit \in Visit
  BY DEF IdentityTypes
<1>2. CASE NotWarmed
  <2>1. cache' = {} /\ visit' = [visit EXCEPT !.warm = FALSE]
    BY <1>2 DEF NotWarmed
  <2> QED
    BY <1>1, <2>1 DEF Visit, OnePerKey
<1>3. CASE Warmed
  <2>1. PICK rows \in SUBSET Readable :
          LatestSessions(rows) /\ cache' = {[e EXCEPT !.idle = 0] : e \in rows}
    BY <1>3 DEF Warmed
  <2>2. ASSUME NEW w \in rows
        PROVE  /\ [w EXCEPT !.idle = 0] = [key |-> w.key, session |-> w.session, idle |-> 0]
               /\ \E f \in events : f.key = w.key /\ f.session = w.session
               /\ \E e \in events : e.idle < Expiry
    <3>1. PICK e \in Active : \E f \in MergedInto(e) : w = [e EXCEPT !.key = f.key]
      BY DEF Readable
    <3>2. PICK f \in MergedInto(e) : w = [e EXCEPT !.key = f.key]
      BY <3>1
    <3>3. e \in events /\ e.idle < Expiry /\ f \in events /\ f.session = e.session /\ e \in Row
      BY DEF Active, MergedInto, IdentityTypes
    <3>4. e = [key |-> e.key, session |-> e.session, idle |-> e.idle]
      BY <3>3, EntryFields
    <3>5. w = [key |-> f.key, session |-> e.session, idle |-> e.idle]
      BY <3>2, <3>4
    <3>6. w.key = f.key /\ w.session = f.session /\ [w EXCEPT !.idle = 0] = [key |-> w.key, session |-> w.session, idle |-> 0]
      BY <3>3, <3>5
    <3> QED
      BY <3>3, <3>6
  <2> DEFINE entry(w) == [key |-> w.key, session |-> w.session, idle |-> 0]
  <2>3. cache' = {entry(w) : w \in rows}
    <3>1. \A w \in rows : [w EXCEPT !.idle = 0] = entry(w)
      BY <2>2
    <3> QED
      BY <2>1, <3>1
  <2>4. \A w \in rows : entry(w).key = w.key /\ entry(w).session = w.session /\ entry(w).idle = 0
    OBVIOUS
  <2>5. \A e \in cache' : \E f \in events : e = [key |-> f.key, session |-> f.session, idle |-> 0]
    <3> SUFFICES ASSUME NEW e \in cache'
                 PROVE  \E f \in events : e = [key |-> f.key, session |-> f.session, idle |-> 0]
      OBVIOUS
    <3>1. PICK w \in rows : e = [key |-> w.key, session |-> w.session, idle |-> 0]
      BY <2>3
    <3>2. PICK f \in events : f.key = w.key /\ f.session = w.session
      BY <2>2
    <3> QED
      BY <3>1, <3>2
  <2> HIDE DEF entry
  <2>6. OnePerKey'
    BY <2>1, <2>3, <2>4 DEF OnePerKey, LatestSessions
  <2>7. cache' # {} => \E f \in events : f.idle < Expiry
    BY <2>2, <2>3
  <2>8. ASSUME visit.alone, NEW f \in events, f.session = visit.session, f.idle < Expiry
        PROVE  \E e \in cache' : e.session = visit.session /\ e.idle = 0
    <3>1. f \in Active
      BY <2>8 DEF Active
    <3>2. PICK w \in rows : w.session = visit.session
      BY <2>1, <2>8, <3>1 DEF LatestSessions
    <3> QED
      BY <2>3, <2>4, <3>2
  <2>9. visit' = visit
    BY <1>3 DEF Warmed
  <2>10. visit' \in Visit
    BY <1>1, <2>9
  <2> QED
    BY <2>5, <2>6, <2>7, <2>8, <2>9, <2>10
<1> QED
  BY <1>2, <1>3 DEF Restart

\* What is not of a request leaves the requests and entries alone, but for the
\* clock and a start.
LEMMA OthersLeave ==
  ASSUME [Next]_vars
  PROVE  \/ \E r \in Requests : Arrive(r)
         \/ \E r \in Requests : GetCurrent(r) \/ GetPrevious(r) \/ Create(r)
         \/ /\ UNCHANGED <<day, hour, cache, request, events, visit, created>>
            /\ UNCHANGED state \/ (rotation.step = "store" /\ state' = rotation.read)
         \/ Tick \/ Restart
<1>1. CASE RotationInserts /\ UNCHANGED <<day, hour, cooldown, failures, visiting, starts>>
  BY <1>1 DEF RotationInserts, visiting
<1>2. CASE RotationPrunes /\ UNCHANGED <<day, hour, cooldown, failures, visiting, starts>>
  BY <1>2 DEF RotationPrunes, visiting
<1>3. CASE RotationSelects /\ UNCHANGED <<day, hour, cooldown, failures, visiting, starts>>
  BY <1>3 DEF RotationSelects, visiting
<1>4. CASE RotationStores /\ UNCHANGED <<day, hour, cooldown, failures, visiting, starts>>
  BY <1>4 DEF RotationStores, visiting
<1>5. CASE RotationFails \/ OtherRotates \/ CooldownEnds
  BY <1>5 DEF RotationFails, OtherRotates, CooldownEnds, visiting, clock
<1>6. CASE UNCHANGED vars
  BY <1>6 DEF vars, visiting, clock, salting
<1> QED
  BY <1>1, <1>2, <1>3, <1>4, <1>5, <1>6, IdentitySteps

-----------------------------------------------------------------------------
(* Nothing is of a newer salt than the backend's.                          *)

LEMMA NoneNewerStep ==
  ASSUME SaltInvariant, SaltInvariant', SaltsInOrder, StoresNewer, IdentityTypes, NoneNewer, MadeGrows,
         [Next]_vars
  PROVE  NoneNewer'
<1>1. /\ \A n \in DOMAIN made : made[n] \in Nat /\ made[n] <= day /\ made'[n] = made[n]
      /\ state.current \in DOMAIN made /\ state'.current \in DOMAIN made'
      /\ \A n \in DOMAIN made' : made'[n] \in Nat
  <2>1. state'.current \in DOMAIN made'
    BY DEF SaltInvariant, Sound
  <2>2. \A n \in DOMAIN made' : made'[n] \in Nat
    BY DEF MadeGrows
  <2> QED
    BY <2>1, <2>2, HeldAreMade DEF MadeGrows
<1>2. /\ \A r \in Requests : request[r].step # "idle" => request[r].current \in DOMAIN made
      /\ \A e \in cache \cup events : e.key \in DOMAIN made
  BY RequestFields, EntryFields, SaltsAreMade
<1>3. ASSUME state' = state,
             \A r \in Requests : request'[r].step # "idle" =>
               \/ request[r].step # "idle" /\ request'[r].current = request[r].current
               \/ request'[r].current = state.current,
             \A e \in cache' \cup events' :
               \/ \E f \in cache \cup events : f.key = e.key
               \/ \E r \in Requests : request[r].step # "idle" /\ e.key = request[r].current
      PROVE  NoneNewer'
  <2>1. ASSUME NEW r \in Requests, request'[r].step # "idle"
        PROVE  made'[request'[r].current] <= made'[state'.current]
    BY <1>1, <1>2, <1>3, <2>1 DEF NoneNewer
  <2>2. ASSUME NEW e \in cache' \cup events' PROVE made'[e.key] <= made'[state'.current]
    BY <1>1, <1>2, <1>3, <2>2 DEF NoneNewer
  <2> QED
    BY <2>1, <2>2 DEF NoneNewer
<1>4. CASE \E r \in Requests : Arrive(r)
  <2>1. PICK r \in Requests : Arrive(r)
    BY <1>4
  <2> QED
    BY <1>3, <2>1, ArriveFields
<1>5. CASE \E r \in Requests : GetCurrent(r) \/ GetPrevious(r) \/ Create(r)
  <2>1. PICK r \in Requests : GetCurrent(r) \/ GetPrevious(r) \/ Create(r)
    BY <1>5
  <2>2. state' = state /\ ((\E e \in cache : Took(r, e)) \/ Missed(r) \/ Create(r))
    BY <2>1, RequestSteps
  <2>3. CASE \E e \in cache : Took(r, e)
    <3>1. PICK e \in cache : Took(r, e)
      BY <2>3
    <3>2. Frees(r) /\ Enters(r, e.key, e.session) /\ request[r].step # "idle"
      BY <3>1, TookFields DEF Took
    <3>3. \A q \in Requests : request'[q].step # "idle" => request'[q] = request[q]
      BY <3>2 DEF Frees, Idle
    <3>4. \A f \in cache' \cup events' : f \in cache \cup events \/ f.key = e.key \/ f.key = request[r].current
      BY <3>2 DEF Enters
    <3> QED
      BY <1>3, <2>2, <3>2, <3>3, <3>4
  <2>4. CASE Missed(r)
    <3>1. \A q \in Requests : request'[q].step # "idle" =>
            request[q].step # "idle" /\ request'[q].current = request[q].current
      BY <2>4, MissedFields
    <3>2. UNCHANGED <<cache, events>>
      BY <2>4, MissedFields
    <3> QED
      BY <1>3, <2>2, <3>1, <3>2
  <2>5. CASE Create(r)
    <3>1. Frees(r) /\ Enters(r, request[r].current, created + 1) /\ request[r].step # "idle"
      BY <2>5, CreateFields
    <3>2. \A q \in Requests : request'[q].step # "idle" => request'[q] = request[q]
      BY <3>1 DEF Frees, Idle
    <3>3. \A f \in cache' \cup events' : f \in cache \cup events \/ f.key = request[r].current
      BY <3>1 DEF Enters
    <3> QED
      BY <1>3, <2>2, <3>1, <3>2, <3>3
  <2> QED
    BY <2>2, <2>3, <2>4, <2>5
<1>6. CASE UNCHANGED <<request, cache, events>> /\ rotation.step = "store" /\ state' = rotation.read
  <2>1. made[state.current] <= made[state'.current] /\ state'.current \in DOMAIN made
    BY <1>6, HeldAreMade DEF StoresNewer
  <2>2. ASSUME NEW r \in Requests, request'[r].step # "idle"
        PROVE  made'[request'[r].current] <= made'[state'.current]
    <3>1. made[request[r].current] <= made[state.current]
      BY <1>6, <2>2 DEF NoneNewer
    <3> QED
      BY <1>1, <1>2, <1>6, <2>1, <2>2, <3>1
  <2>3. ASSUME NEW e \in cache' \cup events' PROVE made'[e.key] <= made'[state'.current]
    <3>1. made[e.key] <= made[state.current]
      BY <1>6 DEF NoneNewer
    <3> QED
      BY <1>1, <1>2, <1>6, <2>1, <3>1
  <2> QED
    BY <2>2, <2>3 DEF NoneNewer
<1>7. CASE UNCHANGED <<request, cache, events, state>>
  BY <1>3, <1>7
<1>8. CASE Tick
  <2>1. /\ UNCHANGED <<state, request>>
        /\ \A e \in cache' : \E f \in cache : e = OlderEntry(f)
        /\ \A e \in events' : \E f \in events : e = OlderRow(f)
    BY <1>8, TickFields, AgedFields
  <2>2. \A e \in cache' \cup events' : \E f \in cache \cup events : f.key = e.key
    BY <2>1 DEF OlderEntry, OlderRow
  <2> QED
    BY <1>3, <2>1, <2>2
<1>9. CASE Restart
  <2>1. /\ Ensured /\ state' \in Selected(made', salts', day)
        /\ Quiet /\ UNCHANGED <<request, events>>
    BY <1>9 DEF Restart
  <2>2. PICK n \in salts' : made'[n] = day
    BY <2>1, EnsuredGrows
  <2>3. made'[n] <= made'[state'.current]
    BY <2>1 DEF Selected, Newest
  <2>4. \A e \in cache' \cup events' : \E f \in events : f.key = e.key
    BY <1>9, <2>1, WarmedFields
  <2>5. \A m \in DOMAIN made : made'[m] <= made'[state'.current]
    BY <1>1, <2>2, <2>3 DEF MadeGrows
  <2>6. \A r \in Requests : request'[r].step = "idle"
    BY <2>1 DEF Quiet
  <2> QED
    BY <1>2, <2>4, <2>5, <2>6 DEF NoneNewer
<1> QED
  BY <1>4, <1>5, <1>6, <1>7, <1>8, <1>9, OthersLeave

-----------------------------------------------------------------------------
(* The types, step by step.                                                *)

LEMMA SaltsWiden ==
  ASSUME MadeGrows, created <= created', created \in Nat, created' \in Nat
  PROVE  /\ Salt \subseteq Salt' /\ Entry \subseteq Entry' /\ Row \subseteq Row' /\ State \subseteq State'
         /\ Request \subseteq Request' /\ Visit \subseteq Visit'
<1>1. Len(made) \in Nat /\ Len(made') \in Nat /\ Len(made) <= Len(made') /\ day \in Nat /\ day' \in Nat /\ day <= day'
  BY DEF MadeGrows
<1>2. Salt \subseteq Salt' /\ 0 .. day \subseteq 0 .. day'
  BY <1>1 DEF Salt
<1>3. 1 .. created \subseteq 1 .. created' /\ 0 .. created \subseteq 0 .. created'
  OBVIOUS
<1>4. State \subseteq State'
  BY <1>2 DEF State
<1>5. Entry \subseteq Entry' /\ Row \subseteq Row'
  BY <1>2, <1>3 DEF Entry, Row
<1>6. Request \subseteq Request'
  BY <1>2 DEF Request
<1>7. Visit \subseteq Visit'
  BY <1>3 DEF Visit
<1> QED
  BY <1>2, <1>4, <1>5, <1>6, <1>7

LEMMA CreatedGrows ==
  ASSUME IdentityTypes, [Next]_vars
  PROVE  created \in Nat /\ created' \in 0 .. MaxSessions /\ created <= created'
<1>1. created \in 0 .. MaxSessions /\ MaxSessions \in Nat
  BY IdentityAssumption DEF IdentityTypes
<1>2. ASSUME UNCHANGED created \/ (created' = created + 1 /\ created < MaxSessions)
      PROVE  created \in Nat /\ created' \in 0 .. MaxSessions /\ created <= created'
  BY <1>1, <1>2
<1>3. CASE \E r \in Requests : Arrive(r)
  BY <1>2, <1>3 DEF Arrive
<1>4. CASE \E r \in Requests : GetCurrent(r) \/ GetPrevious(r) \/ Create(r)
  <2>1. PICK r \in Requests : GetCurrent(r) \/ GetPrevious(r) \/ Create(r)
    BY <1>4
  <2>2. (\E e \in cache : Took(r, e)) \/ Missed(r) \/ Create(r)
    BY <2>1, RequestSteps
  <2> QED
    BY <1>2, <2>2, TookFields, MissedFields, CreateFields
<1>5. CASE UNCHANGED created
  BY <1>2, <1>5
<1>6. CASE Tick \/ Restart
  BY <1>2, <1>6 DEF Tick, Restart
<1> QED
  BY <1>3, <1>4, <1>5, <1>6, OthersLeave

LEMMA SelectedState ==
  ASSUME NEW days, NEW table, NEW now \in Nat, NEW today \in 0 .. now, Database(days, table, now),
         NEW read \in Selected(days, table, today)
  PROVE  read \in [date : 0 .. now, current : 0 .. Len(days), previous : 0 .. Len(days)]
<1>1. table \subseteq 0 .. Len(days) /\ 0 \in 0 .. Len(days)
  <2>1. days \in Seq(Nat) /\ DOMAIN days = 1 .. Len(days) /\ Len(days) \in Nat /\ table \subseteq DOMAIN days
    BY DEF Database
  <2> QED
    BY <2>1
<1>2. /\ read = [date |-> read.date, current |-> read.current, previous |-> read.previous]
      /\ read.date = today /\ read.current \in table /\ read.previous \in table \cup {0}
  BY DEF Selected, Newest
<1> QED
  BY <1>1, <1>2

LEMMA SaltingTypesStep ==
  ASSUME SaltInvariant, SaltInvariant', IdentityTypes, MadeGrows, [Next]_vars
  PROVE  /\ state' \in State' /\ rotation'.today \in 0 .. day' /\ rotation'.read \in State'
         /\ inFlight' \in BOOLEAN /\ cooldown' \in BOOLEAN
<1>1. /\ State \subseteq State' /\ 0 .. day \subseteq 0 .. day' /\ day \in Nat /\ day' \in Nat
      /\ state \in State /\ rotation.today \in 0 .. day /\ rotation.read \in State
      /\ inFlight \in BOOLEAN /\ cooldown \in BOOLEAN
  <2>1. created \in Nat /\ created' \in Nat /\ created <= created'
    BY CreatedGrows, IdentityAssumption
  <2>2. State \subseteq State'
    BY <2>1, SaltsWiden
  <2>3. day \in Nat /\ day' \in Nat /\ day <= day'
    BY DEF MadeGrows
  <2>4. 0 .. day \subseteq 0 .. day'
    BY <2>3
  <2> QED
    BY <2>2, <2>3, <2>4 DEF IdentityTypes
<1>2. NoRotation.today = 0 /\ NoRotation.read \in State
  BY <1>1, SaltsAreMade DEF NoRotation, State, Salt
<1>3. ASSUME state' \in State',
             rotation'.today \in {0, day, rotation.today}, rotation'.read \in State',
             UNCHANGED inFlight \/ inFlight' = TRUE \/ inFlight' = FALSE,
             UNCHANGED cooldown \/ cooldown' = TRUE \/ cooldown' = FALSE
      PROVE  /\ state' \in State' /\ rotation'.today \in 0 .. day' /\ rotation'.read \in State'
             /\ inFlight' \in BOOLEAN /\ cooldown' \in BOOLEAN
  <2>1. inFlight' \in BOOLEAN
    BY <1>1, <1>3
  <2>2. cooldown' \in BOOLEAN
    BY <1>1, <1>3
  <2>3. rotation'.today \in 0 .. day'
    BY <1>1, <1>3
  <2> QED
    BY <1>3, <2>1, <2>2, <2>3
<1>4. ASSUME UNCHANGED <<state, rotation, inFlight>>, UNCHANGED cooldown \/ cooldown' = FALSE
      PROVE  /\ state' \in State' /\ rotation'.today \in 0 .. day' /\ rotation'.read \in State'
             /\ inFlight' \in BOOLEAN /\ cooldown' \in BOOLEAN
  <2>1. inFlight' \in BOOLEAN
    BY <1>1, <1>4
  <2>2. cooldown' \in BOOLEAN
    BY <1>1, <1>4
  <2>3. state' \in State' /\ rotation'.today \in 0 .. day' /\ rotation'.read \in State'
    BY <1>1, <1>4
  <2> QED
    BY <2>1, <2>2, <2>3
<1>5. CASE \E r \in Requests : Arrive(r)
  <2>1. PICK r \in Requests : Arrive(r)
    BY <1>5
  <2>2. UNCHANGED state /\
        \/ inFlight' = TRUE /\ cooldown' = TRUE /\ rotation' = [NoRotation EXCEPT !.step = "insert", !.today = day]
        \/ UNCHANGED <<inFlight, cooldown, rotation>>
    BY <2>1 DEF Arrive
  <2>3. CASE rotation' = [NoRotation EXCEPT !.step = "insert", !.today = day]
    <3>1. rotation'.today = day /\ rotation'.read = NoRotation.read
      BY <2>3 DEF NoRotation
    <3> QED
      BY <1>1, <1>2, <1>3, <2>2, <3>1
  <2> QED
    BY <1>4, <2>2, <2>3
<1>6. CASE \E r \in Requests : GetCurrent(r) \/ GetPrevious(r) \/ Create(r)
  BY <1>4, <1>6, RequestSteps
<1>7. CASE (RotationInserts \/ RotationPrunes) /\ UNCHANGED cooldown
  <2>1. rotation'.today = rotation.today /\ rotation'.read = rotation.read /\ UNCHANGED <<state, inFlight>>
    BY <1>7 DEF RotationInserts, RotationPrunes, RotationStep, SaltInvariant
  <2> QED
    BY <1>1, <1>7, <2>1
<1>8. CASE RotationSelects /\ UNCHANGED <<day, hour, cooldown, failures, visiting, starts>>
  <2>1. PICK read \in Selected(made, salts, rotation.today) :
          rotation' = [rotation EXCEPT !.step = "store", !.read = read]
    BY <1>8 DEF RotationSelects
  <2>2. /\ rotation'.today = rotation.today /\ rotation'.read = read /\ UNCHANGED <<state, inFlight, made, day>>
    BY <1>8, <2>1 DEF RotationSelects, SaltInvariant
  <2>3. read \in State
    BY <1>1, SelectedState DEF SaltInvariant, State, Salt
  <2> QED
    BY <1>1, <1>8, <2>2, <2>3
<1>9. CASE RotationStores /\ UNCHANGED cooldown
  BY <1>1, <1>2, <1>3, <1>9 DEF RotationStores
<1>10. CASE RotationFails
  <2>1. rotation' = NoRotation /\ inFlight' = FALSE /\ UNCHANGED <<state, cooldown>>
    BY <1>10 DEF RotationFails
  <2> QED
    BY <1>1, <1>2, <1>3, <2>1
<1>11. CASE OtherRotates \/ CooldownEnds \/ Tick
  BY <1>4, <1>11 DEF OtherRotates, CooldownEnds, Tick
<1>12. CASE Restart
  <2>1. /\ rotation' = NoRotation /\ inFlight' = FALSE /\ cooldown' = FALSE /\ day' = day
        /\ state' \in Selected(made', salts', day)
    BY <1>12 DEF Restart, clock
  <2>2. Database(made', salts', day)
    BY <2>1 DEF SaltInvariant
  <2>3. state' \in State'
    BY <1>1, <2>1, <2>2, SelectedState DEF State, Salt
  <2>4. NoRotation.read \in State'
    BY <1>1, <1>2
  <2> QED
    BY <1>2, <1>3, <2>1, <2>3, <2>4
<1>13. CASE UNCHANGED vars
  BY <1>4, <1>13 DEF vars, salting
<1> QED
  BY <1>5, <1>6, <1>7, <1>8, <1>9, <1>10, <1>11, <1>12, <1>13, IdentitySteps

LEMMA AssignedTypes ==
  ASSUME SaltInvariant, IdentityTypes, NEW r \in Requests, NEW session, Assigned(r, session)
  PROVE  /\ request' \in [Requests -> Request]
         /\ \A q \in Requests : request'[q].step # "idle" => request'[q].current # 0
<1>1. request' = [request EXCEPT ![r] = Idle] /\ Idle \in Request
  BY IdleFields DEF Assigned
<1>2. request' \in [Requests -> Request]
  BY <1>1 DEF IdentityTypes
<1>3. \A q \in Requests : request'[q].step # "idle" => request'[q].current # 0
  BY IdleFields, AssignedFields DEF Frees, IdentityTypes
<1> QED
  BY <1>2, <1>3

\* The parts of the type invariant that are of the visitor.
VisitingTypes ==
  /\ hour \in 0 .. DayLength - 1 /\ Time <= MaxTime
  /\ request \in [Requests -> Request] /\ \A r \in Requests : request[r].step # "idle" => request[r].current # 0
  /\ cache \in SUBSET Entry /\ events \in SUBSET Row /\ OnePerKey
  /\ visit \in Visit /\ visit.at <= Time

LEMMA VisitFields ==
  ASSUME IdentityTypes
  PROVE  /\ visit \in Visit /\ visit.session \in 0 .. created /\ visit.idle \in 0 .. Expiry
         /\ visit.alone \in BOOLEAN /\ visit.timely \in BOOLEAN /\ visit.warm \in BOOLEAN /\ visit.at \in Nat /\ visit.at <= Time
<1>1. visit \in Visit /\ visit.at <= Time
  BY DEF IdentityTypes
<1> QED
  BY <1>1 DEF Visit

LEMMA TookTypes ==
  ASSUME SaltInvariant, IdentityTypes, MadeGrows, UNCHANGED <<day, hour, made>>,
         NEW r \in Requests, NEW e \in cache, Took(r, e)
  PROVE  VisitingTypes'
<1> DEFINE new == [key |-> e.key, session |-> e.session, idle |-> 0]
           stored == [key |-> request[r].current, session |-> e.session, idle |-> 0]
           alone == visit.alone /\ request[r].alone
<1>1. /\ Enters(r, e.key, e.session) /\ UNCHANGED created /\ (e \notin cache' \/ e.idle = 0)
      /\ visit' = [visit EXCEPT !.session = e.session, !.idle = 0, !.warm = TRUE, !.alone = alone]
  BY TookFields
<1>2. e.key \in Salt \ {0} /\ e.session \in 1 .. created /\ request[r].current \in Salt \ {0} /\ 0 \in 0 .. Expiry - 1
  <2>1. request[r].step # "idle"
    BY DEF Took
  <2> QED
    BY <2>1, EntryFields, RequestFields DEF Expiry
<1>3. new \in Entry /\ stored \in Row /\ new.key = e.key /\ stored.key = request[r].current
  BY <1>2 DEF Entry, Row, Expiry
<1>4. Entry' = Entry /\ Row' = Row /\ Request' = Request /\ Visit' = Visit /\ Time' = Time
  BY <1>1 DEF Entry, Row, Request, Visit, Salt, Time
<1>5. new = e \/ e \notin cache'
  BY <1>1, <1>2, EntryFields
<1>6. \A f \in cache' : f \in cache \/ f = new
  BY <1>1 DEF Enters
<1>7. \A f \in events' : f \in events \/ f = stored
  BY <1>1 DEF Enters
<1>8. alone \in BOOLEAN
  BY RequestFields, VisitFields
<1> HIDE DEF new, stored, alone
<1>9. cache' \in SUBSET Entry' /\ events' \in SUBSET Row'
  BY <1>3, <1>4, <1>6, <1>7 DEF IdentityTypes
<1>10. OnePerKey'
  <2> SUFFICES ASSUME NEW f \in cache', NEW g \in cache', f.key = g.key
               PROVE  f = g
    BY DEF OnePerKey
  <2>1. \A h \in cache : h.key = e.key => h = e
    BY DEF IdentityTypes, OnePerKey
  <2>2. f \in cache /\ g \in cache => f = g
    BY DEF IdentityTypes, OnePerKey
  <2> QED
    BY <1>3, <1>5, <1>6, <2>1, <2>2
<1>11. visit' \in Visit' /\ visit'.at <= Time'
  <2>1. e.session \in 0 .. created /\ 0 \in 0 .. Expiry
    BY <1>2 DEF Expiry
  <2>2. visit'.at = visit.at
    BY <1>1, VisitFields DEF Visit
  <2> QED
    BY <1>1, <1>4, <1>8, <2>1, <2>2, VisitFields DEF Visit
<1>12. request' \in [Requests -> Request'] /\ \A q \in Requests : request'[q].step # "idle" => request'[q].current # 0
  BY <1>4, AssignedTypes DEF Took, Hit
<1> QED
  BY <1>4, <1>9, <1>10, <1>11, <1>12 DEF VisitingTypes, IdentityTypes

LEMMA CreateTypes ==
  ASSUME SaltInvariant, IdentityTypes, MadeGrows, UNCHANGED <<day, hour, made>>,
         NEW r \in Requests, Create(r)
  PROVE  VisitingTypes'
<1> DEFINE new == [key |-> request[r].current, session |-> created + 1, idle |-> 0]
<1>1. /\ Enters(r, request[r].current, created + 1) /\ created' = created + 1 /\ request[r].step = "create"
      /\ \A f \in cache' : f.key = request[r].current => f.session = created + 1 /\ f.idle = 0
      /\ visit' = [session |-> created + 1, idle |-> 0, alone |-> request[r].alone, at |-> Time,
                   timely |-> made[request[r].current] = day, warm |-> TRUE]
  BY CreateFields
<1>2. /\ request[r].current \in Salt \ {0} /\ created \in Nat /\ 0 \in 0 .. Expiry - 1 /\ 0 \in 0 .. Expiry
      /\ request[r].alone \in BOOLEAN /\ Time \in Nat
  BY <1>1, RequestFields, IdentityAssumption, TimeIsNumber DEF IdentityTypes, Expiry
<1>3. Salt' = Salt /\ Request' = Request /\ Time' = Time
  BY DEF Request, Salt, Time
<1>4. Entry \subseteq Entry' /\ Row \subseteq Row'
  BY <1>1, <1>2, SaltsWiden
<1>5. new \in Entry' /\ new \in Row' /\ new.key = request[r].current
  BY <1>1, <1>2, <1>3 DEF Entry, Row
<1>6. \A f \in events' : f \in events \/ f = new
  BY <1>1 DEF Enters
<1>7. \A f \in cache' : f \in cache \/ f = new
  BY <1>1 DEF Enters
<1>8. \A f \in cache' : f.key = request[r].current => f = new
  <2> SUFFICES ASSUME NEW f \in cache', f.key = request[r].current, f \in cache
               PROVE  FALSE
    BY <1>7
  <2>1. f.session \in 1 .. created
    BY EntryFields
  <2> QED
    BY <1>1, <1>2, <2>1
<1> HIDE DEF new
<1>9. cache' \in SUBSET Entry' /\ events' \in SUBSET Row'
  BY <1>4, <1>5, <1>6, <1>7 DEF IdentityTypes
<1>10. OnePerKey'
  <2> SUFFICES ASSUME NEW f \in cache', NEW g \in cache', f.key = g.key
               PROVE  f = g
    BY DEF OnePerKey
  <2>1. f \in cache /\ g \in cache => f = g
    BY DEF IdentityTypes, OnePerKey
  <2> QED
    BY <1>5, <1>7, <1>8, <2>1
<1>11. visit' \in Visit' /\ visit'.at <= Time'
  <2>1. (made[request[r].current] = day) \in BOOLEAN
    OBVIOUS
  <2>2. created + 1 \in 0 .. created'
    BY <1>1, <1>2
  <2>3. visit' \in Visit'
    BY <1>1, <1>2, <2>1, <2>2 DEF Visit
  <2>4. visit'.at = Time
    BY <1>1
  <2> QED
    BY <1>2, <1>3, <2>3, <2>4
<1>12. request' \in [Requests -> Request'] /\ \A q \in Requests : request'[q].step # "idle" => request'[q].current # 0
  BY <1>3, AssignedTypes DEF Create
<1> QED
  BY <1>3, <1>9, <1>10, <1>11, <1>12 DEF VisitingTypes, IdentityTypes

LEMMA TickTypes ==
  ASSUME SaltInvariant, IdentityTypes, MadeGrows, Tick
  PROVE  VisitingTypes'
<1>1. /\ UNCHANGED <<made, request, created>>
      /\ cache' = Aged(cache) /\ events' = {OlderRow(e) : e \in events}
      /\ hour' \in 0 .. DayLength - 1 /\ Time' = Time + 1 /\ Time' <= MaxTime
      /\ visit' = [visit EXCEPT !.idle = Older(visit.idle)]
  BY TickFields
<1>2. Entry' = Entry /\ Row' = Row /\ Request' = Request /\ Visit' = Visit
  BY <1>1 DEF Entry, Row, Request, Visit, Salt
<1>3. ASSUME NEW e \in cache, e.idle + 1 < Expiry
      PROVE  OlderEntry(e) \in Entry /\ OlderEntry(e).key = e.key
  <2>1. e.idle + 1 \in 0 .. Expiry - 1
    BY <1>3, EntryFields DEF Expiry
  <2> QED
    BY <2>1, EntryFields DEF OlderEntry, Entry
<1>4. \A f \in Aged(cache) : \E e \in cache : f = OlderEntry(e) /\ e.idle + 1 < Expiry
  BY AgedFields
<1>5. ASSUME NEW e \in events PROVE OlderRow(e) \in Row
  <2>1. Older(e.idle) \in 0 .. Expiry
    BY EntryFields DEF Older, Expiry
  <2> QED
    BY <2>1, EntryFields DEF OlderRow, Row
<1>6. cache' \in SUBSET Entry' /\ events' \in SUBSET Row'
  BY <1>1, <1>2, <1>3, <1>4, <1>5
<1>7. OnePerKey'
  <2> SUFFICES ASSUME NEW f \in cache', NEW g \in cache', f.key = g.key
               PROVE  f = g
    BY DEF OnePerKey
  <2>1. PICK d \in cache : f = OlderEntry(d) /\ d.idle + 1 < Expiry
    BY <1>1, <1>4
  <2>2. PICK e \in cache : g = OlderEntry(e) /\ e.idle + 1 < Expiry
    BY <1>1, <1>4
  <2>3. d.key = e.key
    BY <1>3, <2>1, <2>2
  <2> QED
    BY <2>1, <2>2, <2>3 DEF IdentityTypes, OnePerKey
<1>8. visit' \in Visit' /\ visit'.at <= Time'
  <2> DEFINE idle == Older(visit.idle)
  <2>1. idle \in 0 .. Expiry
    BY VisitFields DEF Older, Expiry
  <2> HIDE DEF idle
  <2>2. visit' \in Visit
    BY <1>1, <2>1, VisitFields DEF Visit, idle
  <2>3. visit'.at = visit.at
    BY <1>1, VisitFields DEF Visit
  <2> QED
    BY <1>1, <1>2, <2>2, <2>3, VisitFields, TimeIsNumber
<1> QED
  BY <1>1, <1>2, <1>6, <1>7, <1>8 DEF VisitingTypes, IdentityTypes

LEMMA RestartTypes ==
  ASSUME SaltInvariant, IdentityTypes, MadeGrows, Restart
  PROVE  VisitingTypes'
<1>1. UNCHANGED <<day, hour, request, events, created>>
  BY DEF Restart, clock
<1>2. created \in Nat /\ created' \in Nat /\ created <= created'
  BY <1>1, IdentityAssumption DEF IdentityTypes
<1>3. Request \subseteq Request' /\ Entry \subseteq Entry' /\ Row \subseteq Row' /\ Visit \subseteq Visit'
  BY <1>2, SaltsWiden
<1>4. ASSUME NEW f \in events PROVE [key |-> f.key, session |-> f.session, idle |-> 0] \in Entry
  <2>1. 0 \in 0 .. Expiry - 1
    BY DEF Expiry
  <2> QED
    BY <2>1, EntryFields DEF Entry
<1>5. cache' \in SUBSET Entry' /\ OnePerKey'
  BY <1>3, <1>4, WarmedFields
<1>6. Time' = Time
  BY <1>1 DEF Time
<1>7. visit' \in Visit' /\ visit'.at <= Time'
  BY <1>3, <1>6, WarmedFields DEF IdentityTypes
<1> QED
  BY <1>1, <1>3, <1>5, <1>6, <1>7 DEF VisitingTypes, IdentityTypes

LEMMA IdentityTypesStep ==
  ASSUME SaltInvariant, SaltInvariant', IdentityTypes, MadeGrows, [Next]_vars
  PROVE  IdentityTypes'
<1>1. created \in Nat /\ created' \in 0 .. MaxSessions /\ created' \in Nat /\ created <= created'
  BY CreatedGrows, IdentityAssumption
<1>2. Request \subseteq Request' /\ Entry \subseteq Entry' /\ Row \subseteq Row' /\ Visit \subseteq Visit'
  BY <1>1, SaltsWiden
<1> SUFFICES VisitingTypes'
  BY <1>1, SaltingTypesStep DEF IdentityTypes, VisitingTypes
<1>3. ASSUME UNCHANGED <<day, hour, cache, events, visit>>,
             request' \in [Requests -> Request],
             \A r \in Requests : request'[r].step # "idle" => request'[r].current # 0
      PROVE  VisitingTypes'
  <2>1. Time' = Time
    BY <1>3 DEF Time
  <2>2. OnePerKey'
    BY <1>3 DEF OnePerKey, IdentityTypes
  <2> QED
    BY <1>2, <1>3, <2>1, <2>2 DEF VisitingTypes, IdentityTypes
<1>4. CASE \E r \in Requests : Arrive(r)
  <2>1. PICK r \in Requests : Arrive(r)
    BY <1>4
  <2>2. state.current # 0
    BY HeldAreMade, SaltsAreMade
  <2>3. \A q \in Requests : request[q].step # "idle" => request[q].current # 0
    BY DEF IdentityTypes
  <2> QED
    BY <1>3, <2>1, <2>2, <2>3, ArriveFields
<1>5. CASE \E r \in Requests : GetCurrent(r) \/ GetPrevious(r) \/ Create(r)
  <2>1. PICK r \in Requests : GetCurrent(r) \/ GetPrevious(r) \/ Create(r)
    BY <1>5
  <2>2. UNCHANGED <<day, hour, made>> /\ ((\E e \in cache : Took(r, e)) \/ Missed(r) \/ Create(r))
    BY <2>1, RequestSteps
  <2>3. CASE Missed(r)
    <3>1. \A q \in Requests : request[q].step # "idle" => request[q].current # 0
      BY DEF IdentityTypes
    <3> QED
      BY <1>3, <2>2, <2>3, <3>1, MissedFields
  <2> QED
    BY <2>2, <2>3, TookTypes, CreateTypes
<1>6. CASE UNCHANGED <<day, hour, cache, request, events, visit, created>>
  BY <1>3, <1>6 DEF IdentityTypes
<1> QED
  BY <1>4, <1>5, <1>6, TickTypes, RestartTypes, OthersLeave

-----------------------------------------------------------------------------
(* The visitor's last session is the last to go.                           *)

LEMMA LastToGoStep ==
  ASSUME SaltInvariant, SaltInvariant', IdentityTypes, LastToGo, [Next]_vars
  PROVE  LastToGo'
<1>1. ASSUME NEW key, NEW r \in Requests, Enters(r, key, visit'.session), visit'.idle = 0,
             \A f \in cache' \cup events' : f.idle \in Nat
      PROVE  LastToGo'
  <2> DEFINE new == [key |-> key, session |-> visit'.session, idle |-> 0]
             stored == [key |-> request[r].current, session |-> visit'.session, idle |-> 0]
  <2>1. new \in cache' /\ new.session = visit'.session /\ new.idle = 0
    BY <1>1 DEF Enters
  <2>2. stored \in events' /\ stored.session = visit'.session /\ stored.idle = 0
    BY <1>1 DEF Enters
  <2> HIDE DEF new, stored
  <2>3. \A f \in events' : visit'.idle <= f.idle
    BY <1>1
  <2>4. \A e \in cache' : \E f \in cache' : f.session = visit'.session /\ f.idle <= e.idle
    BY <1>1, <2>1
  <2>5. /\ \E e \in events' : e.session = visit'.session /\ e.idle <= visit'.idle
        /\ \E e \in cache' : e.session = visit'.session /\ e.idle <= visit'.idle
    BY <1>1, <2>1, <2>2
  <2> QED
    BY <2>3, <2>4, <2>5 DEF LastToGo
<1>2. ASSUME NEW r \in Requests, NEW key, NEW session, Enters(r, key, session)
      PROVE  \A f \in cache' \cup events' : f.idle \in Nat
  BY <1>2, EntryFields DEF Enters, Expiry
<1>3. CASE \E r \in Requests : Arrive(r)
  BY <1>3, ArriveFields DEF LastToGo
<1>4. CASE \E r \in Requests : GetCurrent(r) \/ GetPrevious(r) \/ Create(r)
  <2>1. PICK r \in Requests : GetCurrent(r) \/ GetPrevious(r) \/ Create(r)
    BY <1>4
  <2>2. (\E e \in cache : Took(r, e)) \/ Missed(r) \/ Create(r)
    BY <2>1, RequestSteps
  <2>3. CASE \E e \in cache : Took(r, e)
    <3>1. PICK e \in cache : Took(r, e)
      BY <2>3
    <3>2. /\ Enters(r, e.key, e.session)
          /\ visit' = [visit EXCEPT !.session = e.session, !.idle = 0, !.warm = TRUE,
                           !.alone = visit.alone /\ request[r].alone]
      BY <3>1, TookFields
    <3>3. visit'.session = e.session /\ visit'.idle = 0
      BY <3>2, VisitFields DEF Visit
    <3> QED
      BY <1>1, <1>2, <3>2, <3>3
  <2>4. CASE Missed(r)
    BY <2>4, MissedFields DEF LastToGo
  <2>5. CASE Create(r)
    <3>1. Enters(r, request[r].current, created + 1) /\ visit'.session = created + 1 /\ visit'.idle = 0
      BY <2>5, CreateFields
    <3> QED
      BY <1>1, <1>2, <3>1
  <2> QED
    BY <2>2, <2>3, <2>4, <2>5
<1>5. CASE UNCHANGED <<day, hour, cache, request, events, visit, created>>
  BY <1>5 DEF LastToGo
<1>6. CASE Tick
  <2>1. /\ visit' = [visit EXCEPT !.idle = Older(visit.idle)] /\ cache' = Aged(cache)
        /\ events' = {OlderRow(e) : e \in events}
    BY <1>6, TickFields
  <2>2. /\ visit'.session = visit.session /\ visit'.idle = Older(visit.idle)
        /\ visit'.alone = visit.alone /\ visit'.warm = visit.warm
    BY <2>1, VisitFields DEF Visit
  <2>3. /\ \A f \in cache' : \E e \in cache : f = OlderEntry(e) /\ e.idle + 1 < Expiry
        /\ \A e \in cache : e.idle + 1 < Expiry => OlderEntry(e) \in cache'
    BY <2>1, AgedFields
  <2>4. /\ \A e \in cache \cup events : e.idle \in Nat /\ e.idle <= Expiry
        /\ \A e \in cache : OlderEntry(e).session = e.session /\ OlderEntry(e).idle = e.idle + 1
        /\ \A e \in events : OlderRow(e).session = e.session /\ OlderRow(e).idle = Older(e.idle)
    BY EntryFields DEF OlderEntry, OlderRow, Expiry
  <2>5. visit.idle \in Nat /\ visit.idle <= Expiry
    BY VisitFields DEF Expiry
  <2>6. \A m, n \in Nat : m <= n /\ n <= Expiry => Older(m) <= Older(n)
    BY DEF Older, Expiry
  <2>7. ASSUME NEW f \in events' PROVE visit'.idle <= f.idle
    <3>1. PICK e \in events : f = OlderRow(e)
      BY <2>1
    <3>2. visit.idle <= e.idle
      BY DEF LastToGo
    <3> QED
      BY <2>2, <2>4, <2>5, <2>6, <3>1, <3>2
  <2>8. ASSUME visit'.idle < Expiry PROVE visit.idle + 1 < Expiry /\ visit'.idle = visit.idle + 1
    BY <2>2, <2>5, <2>8 DEF Older, Expiry
  <2>9. ASSUME visit'.idle < Expiry
        PROVE  \E e \in events' : e.session = visit'.session /\ e.idle <= visit'.idle
    <3>1. PICK d \in events : d.session = visit.session /\ d.idle <= visit.idle
      BY <2>5, <2>8, <2>9 DEF LastToGo, Expiry
    <3>2. OlderRow(d) \in events' /\ OlderRow(d).session = visit'.session /\ OlderRow(d).idle <= visit'.idle
      BY <2>1, <2>2, <2>4, <2>5, <2>6, <3>1
    <3> QED
      BY <3>2
  <2>10. ASSUME visit'.alone, visit'.warm, visit'.idle < Expiry
         PROVE  \E e \in cache' : e.session = visit'.session /\ e.idle <= visit'.idle
    <3>1. PICK e \in cache : e.session = visit.session /\ e.idle <= visit.idle
      BY <2>2, <2>5, <2>8, <2>10 DEF LastToGo, Expiry
    <3>2. OlderEntry(e) \in cache' /\ OlderEntry(e).session = visit'.session /\ OlderEntry(e).idle <= visit'.idle
      BY <2>2, <2>3, <2>4, <2>5, <2>8, <2>10, <3>1 DEF Expiry
    <3> QED
      BY <3>2
  <2>11. ASSUME visit'.alone, NEW f \in cache'
         PROVE  \E g \in cache' : g.session = visit'.session /\ g.idle <= f.idle
    <3>1. PICK e \in cache : f = OlderEntry(e) /\ e.idle + 1 < Expiry
      BY <2>3
    <3>2. PICK d \in cache : d.session = visit.session /\ d.idle <= e.idle
      BY <2>2, <2>11 DEF LastToGo
    <3>3. OlderEntry(d) \in cache' /\ OlderEntry(d).session = visit'.session /\ OlderEntry(d).idle <= f.idle
      BY <2>2, <2>3, <2>4, <3>1, <3>2 DEF Expiry
    <3> QED
      BY <3>3
  <2> QED
    BY <2>7, <2>9, <2>10, <2>11 DEF LastToGo
<1>7. CASE Restart
  <2>1. UNCHANGED events
    BY <1>7 DEF Restart
  <2>2. /\ \A e \in cache' : e.idle = 0
        /\ cache' # {} => \E f \in events : f.idle < Expiry
        /\ visit'.session = visit.session /\ visit'.idle = visit.idle /\ visit'.alone = visit.alone
        /\ \/ cache' = {} /\ visit'.warm = FALSE
           \/ visit.alone => \A f \in events : f.session = visit.session /\ f.idle < Expiry =>
                \E e \in cache' : e.session = visit.session /\ e.idle = 0
    <3>1. \A e \in cache' : \E f \in events : e = [key |-> f.key, session |-> f.session, idle |-> 0]
      BY <1>7, WarmedFields
    <3>2. \A e \in cache' : e.idle = 0
      BY <3>1
    <3> QED
      BY <1>7, <3>2, WarmedFields
  <2>3. visit.idle \in Nat /\ \A e \in events : e.idle \in Nat
    BY VisitFields, EntryFields DEF Expiry
  <2>4. visit.idle < Expiry => \E f \in events : f.session = visit.session /\ f.idle < Expiry
    BY <2>3 DEF LastToGo, Expiry
  <2>5. cache' # {} => visit.idle < Expiry
    BY <2>2, <2>3 DEF LastToGo, Expiry
  <2>6. ASSUME visit'.alone PROVE \A e \in cache' : \E f \in cache' : f.session = visit'.session /\ f.idle <= e.idle
    BY <2>2, <2>4, <2>5, <2>6
  <2>7. ASSUME visit'.alone, visit'.warm, visit'.idle < Expiry
        PROVE  \E e \in cache' : e.session = visit'.session /\ e.idle <= visit'.idle
    BY <2>2, <2>3, <2>4, <2>7
  <2> QED
    BY <2>1, <2>2, <2>6, <2>7 DEF LastToGo
<1> QED
  BY <1>3, <1>4, <1>5, <1>6, <1>7, OthersLeave

-----------------------------------------------------------------------------
(* A request that is alone.                                                *)

LEMMA AloneIsAloneStep ==
  ASSUME SaltInvariant, IdentityTypes, NoneNewer, AloneIsAlone, MadeGrows, [Next]_vars
  PROVE  AloneIsAlone'
<1>1. /\ \A n \in DOMAIN made : made'[n] = made[n]
      /\ \A r \in Requests : request[r].step # "idle" => request[r].current \in DOMAIN made
      /\ \A e \in cache : e.key \in DOMAIN made
  BY RequestFields, EntryFields, SaltsAreMade DEF MadeGrows
<1> SUFFICES ASSUME NEW r \in Requests, request'[r].step # "idle", request'[r].alone
             PROVE  /\ \A q \in Requests \ {r} : request'[q].step = "idle"
                    /\ \A e \in cache' : made'[e.key] <= made'[request'[r].current]
                    /\ request'[r].step \in {"previous", "create"} =>
                         \A e \in cache' : e.key # request'[r].current
                    /\ request'[r].step = "create" /\ request'[r].previous # 0 =>
                         \A e \in cache' : e.key # request'[r].previous
  BY DEF AloneIsAlone, Entries
<1>2. CASE UNCHANGED <<cache, request>>
  BY <1>1, <1>2 DEF AloneIsAlone, Entries
<1>3. CASE \E q \in Requests : Arrive(q)
  <2>1. PICK q \in Requests : Arrive(q)
    BY <1>3
  <2>2. /\ UNCHANGED <<made, cache>> /\ request'[q].step = "current" /\ request'[q].current = state.current
        /\ request'[q].alone <=> Quiet
        /\ \A p \in Requests \ {q} :
             request'[p].step = request[p].step /\ (request'[p].alone <=> request[p].step = "idle")
    BY <2>1, ArriveFields
  <2>3. q = r /\ Quiet
    BY <2>2
  <2>4. \A p \in Requests \ {r} : request'[p].step = "idle"
    BY <2>2, <2>3 DEF Quiet
  <2>5. \A e \in cache' : made'[e.key] <= made'[request'[r].current]
    BY <2>2, <2>3 DEF NoneNewer
  <2> QED
    BY <2>2, <2>3, <2>4, <2>5
<1>4. CASE \E q \in Requests : GetCurrent(q) \/ GetPrevious(q) \/ Create(q)
  <2>1. PICK q \in Requests : GetCurrent(q) \/ GetPrevious(q) \/ Create(q)
    BY <1>4
  <2>2. UNCHANGED made /\ ((\E e \in cache : Took(q, e)) \/ Missed(q) \/ Create(q))
    BY <2>1, RequestSteps
  <2>3. ASSUME Frees(q), request[q].step # "idle" PROVE FALSE
    <3>1. r # q /\ request'[r] = request[r]
      BY <2>3 DEF Frees, Idle
    <3>2. request[q].step = "idle"
      BY <3>1 DEF AloneIsAlone
    <3> QED
      BY <2>3, <3>2
  <2>4. CASE Missed(q)
    <3>1. /\ UNCHANGED cache /\ request[q].step # "idle"
          /\ \A p \in Requests \ {q} : request'[p] = request[p]
          /\ request'[q].current = request[q].current /\ request'[q].previous = request[q].previous
          /\ request'[q].alone = request[q].alone
          /\ \/ request'[q].step = "previous" /\ Entries(request[q].current) = {}
             \/ /\ request'[q].step = "create" /\ request[q].step = "previous"
                /\ request[q].previous # 0 => Entries(request[q].previous) = {}
      BY <2>4, MissedFields
    <3>2. q = r
      <4> SUFFICES ASSUME q # r PROVE FALSE
        OBVIOUS
      <4>1. request'[r] = request[r]
        BY <3>1
      <4> QED
        BY <3>1, <4>1 DEF AloneIsAlone
    <3>3. /\ \A p \in Requests \ {r} : request[p].step = "idle"
          /\ \A e \in cache : made[e.key] <= made[request[r].current]
          /\ request[r].step = "previous" => Entries(request[r].current) = {}
      BY <3>1, <3>2 DEF AloneIsAlone
    <3> QED
      BY <2>2, <3>1, <3>2, <3>3 DEF Entries
  <2>5. CASE \E e \in cache : Took(q, e)
    BY <2>3, <2>5, TookFields DEF Took
  <2>6. CASE Create(q)
    BY <2>3, <2>6, CreateFields
  <2> QED
    BY <2>2, <2>4, <2>5, <2>6
<1>5. CASE Tick \/ Restart
  <2>1. \A q \in Requests : request'[q].step = "idle"
    BY <1>5 DEF Tick, Restart, Quiet
  <2> QED
    BY <2>1
<1> QED
  BY <1>2, <1>3, <1>4, <1>5, OthersLeave

-----------------------------------------------------------------------------
(* The visitor's session is kept.                                          *)

LEMMA TimesGrows ==
  ASSUME NEW n \in Nat, NEW m \in Nat, NEW k \in Nat, n <= m
  PROVE  n * k \in Nat /\ n * k <= m * k
<1>1. PICK d \in Nat : m = n + d
  <2>1. m - n \in Nat /\ m = n + (m - n)
    OBVIOUS
  <2> QED
    BY <2>1
<1>2. m * k = n * k + d * k /\ d * k \in Nat /\ n * k \in Nat
  BY <1>1
<1> QED
  BY <1>2

\* A session younger than a day was created today or yesterday.
LEMMA YoungDay ==
  ASSUME SaltInvariant, IdentityTypes, Young, NEW c \in DOMAIN made, KeptUnder(c)
  PROVE  made[c] \in Nat /\ day <= made[c] + 1
<1>1. /\ Time \in Nat /\ DayLength \in Nat /\ day \in Nat /\ hour \in Nat /\ visit.at \in Nat
      /\ made[c] \in Nat
  BY TimeIsNumber, VisitFields, HeldAreMade
<1>2. Time - visit.at < DayLength /\ visit.at < (made[c] + 1) * DayLength
  BY DEF Young, KeptUnder
<1>3. Time = day * DayLength + hour
  BY DEF Time
<1> SUFFICES ASSUME made[c] + 2 <= day PROVE FALSE
  BY <1>1
<1>4. (made[c] + 2) * DayLength <= day * DayLength
  BY <1>1, TimesGrows
<1>5. (made[c] + 2) * DayLength = (made[c] + 1) * DayLength + DayLength
  BY <1>1
<1>6. (made[c] + 1) * DayLength \in Nat /\ day * DayLength \in Nat
  BY <1>1
<1> QED
  BY <1>1, <1>2, <1>3, <1>4, <1>5, <1>6

\* A request that is alone finds the visitor's session, when it is in the cache.
LEMMA AloneFinds ==
  ASSUME SaltInvariant, SaltsInOrder, IdentityTypes, AloneIsAlone, Young,
         NEW c \in DOMAIN made, KeptUnder(c),
         NEW r \in Requests, request[r].step # "idle", request[r].alone,
         NEW w \in cache, w.session = visit.session
  PROVE  /\ request[r].step # "create"
         /\ \A e \in cache : Took(r, e) => e.session = visit.session
<1> DEFINE current == request[r].current
           previous == request[r].previous
<1>1. /\ c # 0 /\ made[c] \in Nat /\ day <= made[c] + 1 /\ day \in Nat
      /\ current \in DOMAIN made /\ made[current] \in Nat /\ made[current] <= day
      /\ \A e \in cache : e.key \in DOMAIN made /\ made[e.key] \in Nat
  BY YoungDay, RequestFields, EntryFields, SaltsAreMade, HeldAreMade DEF SaltInvariant
<1>2. \A n, m \in DOMAIN made : made[n] = made[m] => n = m
  BY DEF SaltsInOrder, InOrder, Unique
<1>3. c = current \/ (c = previous /\ made[current] > made[c])
  BY DEF KeptUnder, Serves
<1>4. /\ \A e \in cache : made[e.key] <= made[current]
      /\ request[r].step \in {"previous", "create"} => Entries(current) = {}
      /\ request[r].step = "create" /\ previous # 0 => Entries(previous) = {}
  BY DEF AloneIsAlone
<1>5. /\ made[w.key] >= made[c]
      /\ \A e \in cache : made[e.key] > made[c] => e.session = visit.session
  BY DEF KeptUnder
<1>6. \A e \in cache : e.key = w.key => e = w
  BY DEF IdentityTypes, OnePerKey
<1>7. w.key \in {c, current}
  <2>1. made[w.key] <= made[current] /\ w.key \in DOMAIN made
    BY <1>1, <1>4
  <2>2. made[w.key] = made[c] \/ made[w.key] = made[current]
    BY <1>1, <1>3, <1>5, <2>1
  <2> QED
    BY <1>1, <1>2, <2>1, <2>2
<1>8. ASSUME request[r].step = "create" PROVE FALSE
  BY <1>1, <1>3, <1>4, <1>7, <1>8 DEF Entries
<1>9. ASSUME NEW e \in cache, e.key = current PROVE e.session = visit.session
  <2>1. CASE c = current
    BY <1>6, <1>7, <1>9, <2>1
  <2>2. CASE c # current
    BY <1>3, <1>5, <1>9, <2>2
  <2> QED
    BY <2>1, <2>2
<1>10. ASSUME NEW e \in cache, e.key = previous, Entries(current) = {} PROVE e.session = visit.session
  <2>1. w.key = c /\ c # current
    BY <1>7, <1>10 DEF Entries
  <2> QED
    BY <1>3, <1>6, <1>10, <2>1
<1> QED
  BY <1>4, <1>8, <1>9, <1>10 DEF Took

\* The parts of KeptUnder that speak of the entries.
KeptEntries(c) ==
  /\ made[c] * DayLength <= visit.at /\ visit.at < (made[c] + 1) * DayLength
  /\ \A e \in cache \cup events : e.session = visit.session => made[e.key] >= made[c]
  /\ \A e \in cache \cup events : made[e.key] > made[c] => e.session = visit.session

LEMMA KeptEntriesStep ==
  ASSUME SaltInvariant, IdentityTypes, MadeGrows, NEW c \in DOMAIN made, KeptUnder(c),
         visit'.at = visit.at, visit'.session = visit.session,
         \A e \in cache' \cup events' :
           \/ \E f \in cache \cup events : e.key = f.key /\ e.session = f.session
           \/ e.session = visit.session /\ e.key \in DOMAIN made /\ made[e.key] >= made[c]
  PROVE  KeptEntries(c)'
<1>1. /\ \A n \in DOMAIN made : made'[n] = made[n]
      /\ \A e \in cache \cup events : e.key \in DOMAIN made
  BY EntryFields, SaltsAreMade DEF MadeGrows
<1>2. \A e \in cache' \cup events' : e.key \in DOMAIN made
  BY <1>1
<1>3. \A e \in cache' \cup events' : e.session = visit.session => made[e.key] >= made[c]
  BY DEF KeptUnder
<1>4. \A e \in cache' \cup events' : made[e.key] > made[c] => e.session = visit.session
  BY DEF KeptUnder
<1>5. made[c] * DayLength <= visit.at /\ visit.at < (made[c] + 1) * DayLength
  BY DEF KeptUnder
<1> QED
  BY <1>1, <1>2, <1>3, <1>4, <1>5 DEF KeptEntries

\* A session created by a request that is alone, with the salt of the day.
LEMMA CreatedKept ==
  ASSUME SaltInvariant, SaltsInOrder, IdentityTypes, NoneNewer, AloneIsAlone, MadeGrows,
         UNCHANGED <<made, state>>, NEW r \in Requests, Create(r), Young'
  PROVE  \E c \in DOMAIN made : KeptUnder(c)'
<1>0. request[r].current \in DOMAIN made
  BY RequestFields, CreateFields, SaltsAreMade
<1> PICK c \in DOMAIN made : c = request[r].current
  BY <1>0
<1>1. /\ Frees(r) /\ Enters(r, c, created + 1) /\ request[r].step = "create"
      /\ visit' = [session |-> created + 1, idle |-> 0, alone |-> request[r].alone, at |-> Time,
                   timely |-> made[c] = day, warm |-> TRUE]
  BY CreateFields
<1>2. visit'.session = created + 1 /\ visit'.at = Time /\ request[r].alone /\ made[c] = day
  BY <1>1 DEF Young
<1>3. /\ c \in DOMAIN made /\ state.current \in DOMAIN made /\ created \in Nat /\ day \in Nat
      /\ \A n \in DOMAIN made : made[n] \in Nat /\ made[n] <= day
  BY <1>1, RequestFields, SaltsAreMade, HeldAreMade, IdentityAssumption DEF IdentityTypes, SaltInvariant
<1>4. made[c] * DayLength <= Time /\ Time < (made[c] + 1) * DayLength
  <2>1. DayLength \in Nat /\ hour \in 0 .. DayLength - 1 /\ day * DayLength \in Nat
    BY <1>3, TimeIsNumber DEF IdentityTypes
  <2>2. (day + 1) * DayLength = day * DayLength + DayLength
    BY <1>3, <2>1
  <2> QED
    BY <1>2, <2>1, <2>2 DEF Time
<1>5. \A e \in cache \cup events : e.key \in DOMAIN made /\ e.session \in 1 .. created
  BY EntryFields, SaltsAreMade
<1>6. ASSUME NEW e \in cache' \cup events'
      PROVE  /\ e.session = visit'.session => made[e.key] >= made[c]
             /\ ~(made[e.key] > made[c])
  <2>1. e \in cache \cup events \/ (e.key = c /\ e.session = created + 1)
    BY <1>1 DEF Enters
  <2>2. e.session = visit'.session => e.key = c
    BY <1>2, <1>3, <1>5, <2>1
  <2> QED
    BY <1>2, <1>3, <1>5, <2>1, <2>2
<1>7. c = state.current
  <2>1. made[c] <= made[state.current]
    BY <1>1 DEF NoneNewer
  <2>2. made[state.current] = made[c]
    BY <1>2, <1>3, <2>1
  <2> QED
    BY <1>3, <2>2 DEF SaltsInOrder, InOrder, Unique
<1>8. \A q \in Requests : request'[q].step = "idle"
  BY <1>1, <1>2, IdleFields DEF Frees, AloneIsAlone
<1>9. KeptUnder(c)'
  <2>1. made' = made
    OBVIOUS
  <2>2. made'[c] * DayLength <= visit'.at /\ visit'.at < (made'[c] + 1) * DayLength
    BY <1>2, <1>4
  <2>3. Serves(c, state.current, state.previous)'
    BY <1>7 DEF Serves
  <2> QED
    BY <1>6, <1>8, <2>2, <2>3 DEF KeptUnder
<1> QED
  BY <1>9

LEMMA YoungBefore ==
  ASSUME SaltInvariant, IdentityTypes, Young',
         visit'.alone => visit.alone, visit'.timely = visit.timely, visit'.at = visit.at,
         Time' = Time \/ Time' = Time + 1
  PROVE  Young
BY TimeIsNumber, VisitFields, IdentityAssumption DEF Young

\* A request that ends with an entry it found.
LEMMA TookKept ==
  ASSUME SaltInvariant, SaltsInOrder, IdentityTypes, LastToGo, AloneIsAlone, MadeGrows,
         UNCHANGED <<day, hour, made, state>>, NEW r \in Requests, NEW e \in cache, Took(r, e),
         Young', Young => \E c \in DOMAIN made : KeptUnder(c)
  PROVE  \E c \in DOMAIN made : KeptUnder(c)'
<1> DEFINE alone == visit.alone /\ request[r].alone
<1>1. /\ Frees(r) /\ Enters(r, e.key, e.session) /\ request[r].step # "idle"
      /\ visit' = [visit EXCEPT !.session = e.session, !.idle = 0, !.warm = TRUE, !.alone = alone]
  BY TookFields DEF Took
<1>2. visit'.session = e.session /\ visit'.at = visit.at /\ visit'.timely = visit.timely
  BY <1>1, VisitFields DEF Visit
<1>3. visit'.alone = alone
  BY <1>1, VisitFields DEF Visit
<1>4. alone
  BY <1>3 DEF Young
<1>5. Young
  <2>1. Time' = Time
    BY DEF Time
  <2> QED
    BY <1>2, <1>4, <2>1, YoungBefore
<1>6. PICK c \in DOMAIN made : KeptUnder(c)
  BY <1>5
<1>7. PICK w \in cache : w.session = visit.session
  BY <1>4 DEF LastToGo
<1>8. e.session = visit.session
  BY <1>1, <1>4, <1>5, <1>6, <1>7, AloneFinds
<1>9. Serves(c, request[r].current, request[r].previous) /\ request[r].current \in DOMAIN made
  BY <1>1, <1>4, <1>6, RequestFields, SaltsAreMade DEF KeptUnder
<1>10. made[request[r].current] >= made[c]
  BY <1>9, HeldAreMade DEF Serves
<1>11. ASSUME NEW f \in cache' \cup events'
       PROVE  \/ \E g \in cache \cup events : f.key = g.key /\ f.session = g.session
              \/ f.session = visit.session /\ f.key \in DOMAIN made /\ made[f.key] >= made[c]
  <2>1. \/ f \in cache \cup events
        \/ f.key = e.key /\ f.session = e.session
        \/ f.key = request[r].current /\ f.session = e.session
    BY <1>1 DEF Enters
  <2> QED
    BY <1>8, <1>9, <1>10, <2>1
<1>12. KeptEntries(c)'
  BY <1>2, <1>6, <1>8, <1>11, KeptEntriesStep
<1>13. Serves(c, state.current, state.previous)'
  BY <1>6 DEF KeptUnder, Serves
<1>14. \A q \in Requests : request'[q].step = "idle"
  BY <1>1, <1>4, IdleFields DEF Frees, AloneIsAlone
<1> QED
  BY <1>12, <1>13, <1>14 DEF KeptUnder, KeptEntries

\* A step that leaves the visitor's session as it is.
LEMMA LeftKept ==
  ASSUME SaltInvariant, IdentityTypes, MadeGrows, NEW c \in DOMAIN made, KeptUnder(c),
         visit'.at = visit.at, visit'.session = visit.session,
         \A e \in cache' \cup events' : \E f \in cache \cup events : e.key = f.key /\ e.session = f.session,
         Serves(c, state.current, state.previous)',
         \A r \in Requests : request'[r].step # "idle" /\ request'[r].alone =>
           \/ request'[r].current = state.current /\ request'[r].previous = state.previous
           \/ /\ request[r].step # "idle" /\ request[r].alone
              /\ request'[r].current = request[r].current /\ request'[r].previous = request[r].previous
  PROVE  KeptUnder(c)'
<1>1. KeptEntries(c)'
  BY KeptEntriesStep
<1>2. /\ \A n \in DOMAIN made : made'[n] = made[n]
      /\ state.current \in DOMAIN made
      /\ \A r \in Requests : request[r].step # "idle" => request[r].current \in DOMAIN made
  BY HeldAreMade, RequestFields, SaltsAreMade DEF MadeGrows
<1>3. ASSUME NEW current \in DOMAIN made, NEW previous, Serves(c, current, previous)
      PROVE  c = current \/ (c = previous /\ made'[current] > made'[c])
  BY <1>2, <1>3 DEF Serves
<1>4. ASSUME NEW r \in Requests, request'[r].step # "idle", request'[r].alone
      PROVE  \/ c = request'[r].current
             \/ c = request'[r].previous /\ made'[request'[r].current] > made'[c]
  <2>1. Serves(c, state.current, state.previous)
    BY DEF KeptUnder
  <2>2. CASE request'[r].current = state.current /\ request'[r].previous = state.previous
    BY <1>2, <1>3, <2>1, <2>2
  <2>3. CASE /\ request[r].step # "idle" /\ request[r].alone
             /\ request'[r].current = request[r].current /\ request'[r].previous = request[r].previous
    <3>1. Serves(c, request[r].current, request[r].previous)
      BY <2>3 DEF KeptUnder
    <3> QED
      BY <1>2, <1>3, <2>3, <3>1
  <2> QED
    BY <1>4, <2>2, <2>3
<1>5. \A r \in Requests : request'[r].step # "idle" /\ request'[r].alone =>
        c = request'[r].current \/ (c = request'[r].previous /\ made'[request'[r].current] > made'[c])
  BY <1>4
<1> QED
  BY <1>1, <1>5 DEF KeptUnder, KeptEntries, Serves

LEMMA KeptStep ==
  ASSUME SaltInvariant, SaltInvariant', SaltsInOrder, SaltsInOrder', StoresNewer, NoneNewer,
         IdentityTypes, LastToGo, AloneIsAlone, MadeGrows, [Next]_vars,
         Young => \E c \in DOMAIN made : KeptUnder(c), Young'
  PROVE  \E c \in DOMAIN made' : KeptUnder(c)'
<1> SUFFICES \E c \in DOMAIN made : KeptUnder(c)'
  BY DEF MadeGrows
<1>1. ASSUME UNCHANGED state, NEW c \in DOMAIN made, KeptUnder(c)
      PROVE  Serves(c, state.current, state.previous)'
  <2>1. Serves(c, state.current, state.previous) /\ state.current \in DOMAIN made
    BY <1>1, HeldAreMade DEF KeptUnder
  <2> QED
    BY <1>1, <2>1 DEF Serves, MadeGrows
<1>2. CASE \E r \in Requests : Arrive(r)
  <2>1. PICK r \in Requests : Arrive(r)
    BY <1>2
  <2>2. /\ UNCHANGED <<day, hour, state, cache, events, visit>>
        /\ request'[r].current = state.current /\ request'[r].previous = state.previous
        /\ \A q \in Requests \ {r} :
             request'[q].step = request[q].step /\ (request'[q].alone <=> request[q].step = "idle")
    BY <2>1, ArriveFields
  <2>3. Young
    BY <2>2, YoungBefore DEF Time
  <2>4. PICK c \in DOMAIN made : KeptUnder(c)
    BY <2>3
  <2>5. KeptUnder(c)'
    BY <1>1, <2>2, <2>4, LeftKept
  <2> QED
    BY <2>5
<1>3. CASE \E r \in Requests : GetCurrent(r) \/ GetPrevious(r) \/ Create(r)
  <2>1. PICK r \in Requests : GetCurrent(r) \/ GetPrevious(r) \/ Create(r)
    BY <1>3
  <2>2. /\ UNCHANGED <<day, hour, made, state>>
        /\ (\E e \in cache : Took(r, e)) \/ Missed(r) \/ Create(r)
    BY <2>1, RequestSteps
  <2>3. CASE Missed(r)
    <3>1. /\ UNCHANGED <<cache, events, visit>>
          /\ \A q \in Requests \ {r} : request'[q] = request[q]
          /\ request'[r].current = request[r].current /\ request'[r].previous = request[r].previous
          /\ request'[r].alone = request[r].alone /\ request[r].step # "idle"
      BY <2>3, MissedFields
    <3>2. Young
      BY <2>2, <3>1, YoungBefore DEF Time
    <3>3. PICK c \in DOMAIN made : KeptUnder(c)
      BY <3>2
    <3>4. KeptUnder(c)'
      BY <1>1, <2>2, <3>1, <3>3, LeftKept
    <3> QED
      BY <3>4
  <2>4. CASE \E e \in cache : Took(r, e)
    BY <2>2, <2>4, TookKept
  <2>5. CASE Create(r)
    BY <2>2, <2>5, CreatedKept
  <2> QED
    BY <2>2, <2>3, <2>4, <2>5
<1>4. CASE /\ UNCHANGED <<day, hour, cache, request, events, visit, created>>
           /\ UNCHANGED state \/ (rotation.step = "store" /\ state' = rotation.read)
  <2>1. Young
    BY <1>4, YoungBefore DEF Time
  <2>2. PICK c \in DOMAIN made : KeptUnder(c)
    BY <2>1
  <2>3. ASSUME rotation.step = "store", state' = rotation.read
        PROVE  Serves(c, state.current, state.previous)'
    <3>1. c \in {state.current, state.previous} \ {0} /\ made[c] + 1 >= day /\ made[c] \in Nat /\ day \in Nat
      BY <2>1, <2>2, YoungDay, SaltsAreMade DEF KeptUnder, Serves, SaltInvariant
    <3>2. c \in {state'.current, state'.previous} /\ made[state.current] <= made[state'.current]
      BY <2>3, <3>1 DEF StoresNewer
    <3>3. made[c] <= made[state.current]
      BY <2>2, HeldAreMade DEF KeptUnder, Serves
    <3>4. state'.current \in DOMAIN made /\ state.current \in DOMAIN made
      BY <2>3, HeldAreMade
    <3>5. made[c] <= made[state'.current]
      BY <3>2, <3>3, <3>4, HeldAreMade
    <3>6. c # state'.current => made[state'.current] > made[c]
      BY <3>4, <3>5, HeldAreMade DEF SaltsInOrder, InOrder, Unique
    <3> QED
      BY <3>2, <3>4, <3>6 DEF Serves, MadeGrows
  <2>4. Serves(c, state.current, state.previous)'
    BY <1>1, <1>4, <2>2, <2>3
  <2>5. KeptUnder(c)'
    BY <1>4, <2>2, <2>4, LeftKept
  <2> QED
    BY <2>5
<1>5. CASE Tick
  <2>1. /\ UNCHANGED <<state, request>> /\ Time' = Time + 1
        /\ cache' = Aged(cache) /\ events' = {OlderRow(e) : e \in events}
        /\ visit' = [visit EXCEPT !.idle = Older(visit.idle)]
    BY <1>5, TickFields
  <2>2. /\ visit'.at = visit.at /\ visit'.session = visit.session /\ visit'.timely = visit.timely
        /\ visit'.alone = visit.alone
    BY <2>1, VisitFields DEF Visit
  <2>3. Young
    BY <2>1, <2>2, YoungBefore
  <2>4. PICK c \in DOMAIN made : KeptUnder(c)
    BY <2>3
  <2>5. \A e \in cache' \cup events' : \E f \in cache \cup events : e.key = f.key /\ e.session = f.session
    <3>1. /\ \A f \in cache' : \E e \in cache : f = OlderEntry(e)
          /\ \A f \in events' : \E e \in events : f = OlderRow(e)
      BY <2>1, AgedFields
    <3> QED
      BY <3>1 DEF OlderEntry, OlderRow
  <2>6. KeptUnder(c)'
    BY <1>1, <2>1, <2>2, <2>4, <2>5, LeftKept
  <2> QED
    BY <2>6
<1>6. CASE Restart
  <2>1. /\ UNCHANGED <<day, hour, request, events>> /\ Quiet /\ state' \in Selected(made', salts', day)
        /\ visit'.session = visit.session /\ visit'.at = visit.at /\ visit'.alone = visit.alone
        /\ visit'.timely = visit.timely
    BY <1>6, WarmedFields DEF Restart, clock
  <2>2. Young
    BY <2>1, YoungBefore DEF Time
  <2>3. PICK c \in DOMAIN made : KeptUnder(c)
    BY <2>2
  <2>4. \A e \in cache' \cup events' : \E f \in cache \cup events : e.key = f.key /\ e.session = f.session
    <3>1. \A e \in cache' : \E f \in events : e = [key |-> f.key, session |-> f.session, idle |-> 0]
      BY <1>6, WarmedFields
    <3>2. \A e \in cache' : \E f \in events : e.key = f.key /\ e.session = f.session
      BY <3>1
    <3> QED
      BY <2>1, <3>2
  <2>5. c \in salts' /\ made'[c] + 1 >= day /\ day \in Nat
    <3>1. made[c] \in Nat /\ day <= made[c] + 1 /\ day \in Nat /\ made'[c] = made[c] /\ c \in DOMAIN made'
      BY <2>2, <2>3, YoungDay DEF SaltInvariant, MadeGrows
    <3>2. c \in salts' \/ made'[c] + 1 < day'
      BY <3>1 DEF SaltsInOrder, InOrder
    <3> QED
      BY <2>1, <3>1, <3>2
  <2>6. Database(made', salts', day)
    BY <2>1 DEF SaltInvariant
  <2>7. c = state'.current \/ (c = state'.previous /\ made'[state'.current] > made'[c])
    BY <2>1, <2>5, <2>6, SelectedServes
  <2>8. Serves(c, state.current, state.previous)'
    BY <2>7 DEF Serves
  <2>9. KeptUnder(c)'
    BY <2>1, <2>3, <2>4, <2>8, LeftKept DEF Quiet
  <2> QED
    BY <2>9
<1> QED
  BY <1>2, <1>3, <1>4, <1>5, <1>6, OthersLeave

-----------------------------------------------------------------------------
(* The invariant and what it gives.                                        *)

LEMMA VisitInvariantInit == Init => VisitInvariant
<1> SUFFICES ASSUME Init PROVE VisitInvariant
  OBVIOUS
<1>1. made = <<0>> /\ Len(made) = 1 /\ DOMAIN made = {1} /\ made[1] = 0 /\ day = 0 /\ hour = 0 /\ Salt = 0 .. 1
  BY DEF Init, Salt
<1>2. DayLength \in Nat /\ DayLength > 2 /\ MaxTime \in Nat /\ MaxSessions \in Nat
  BY IdentityAssumption
<1>3. Time = 0
  BY <1>1, <1>2 DEF Time
<1>4. state \in State /\ NoRotation.read \in State /\ NoRotation.today = 0 /\ NoRotation.step = "idle"
  BY <1>1 DEF Init, State, NoRotation
<1>5. Idle \in Request /\ Idle.step = "idle"
  BY <1>1 DEF Idle, Request, Steps
<1>6. NoVisit \in Visit /\ NoVisit.at = 0 /\ NoVisit.idle = Expiry /\ NoVisit.timely = FALSE
  BY DEF Init, NoVisit, Visit, Expiry
<1>7. IdentityTypes
  <2>1. request \in [Requests -> Request] /\ \A r \in Requests : request[r].step # "idle" => request[r].current # 0
    BY <1>5 DEF Init
  <2>2. visit \in Visit /\ visit.at <= Time
    BY <1>3, <1>6 DEF Init
  <2>3. rotation.today \in 0 .. day /\ rotation.read \in State /\ created \in 0 .. MaxSessions
    BY <1>1, <1>2, <1>4 DEF Init
  <2>4. hour \in 0 .. DayLength - 1 /\ Time <= MaxTime
    BY <1>1, <1>2, <1>3
  <2>5. inFlight \in BOOLEAN /\ cooldown \in BOOLEAN
    BY DEF Init
  <2> QED
    BY <1>4, <2>1, <2>2, <2>3, <2>4, <2>5 DEF Init, IdentityTypes, OnePerKey
<1>8. SaltsInOrder /\ StoresNewer /\ NoneNewer
  BY <1>1, <1>4, <1>5 DEF Init, SaltsInOrder, InOrder, Unique, StoresNewer, NoneNewer
<1>9. LastToGo
  BY <1>6 DEF Init, LastToGo, Expiry
<1>10. AloneIsAlone
  BY <1>5 DEF Init, AloneIsAlone
<1>11. ~Young
  BY <1>6 DEF Init, Young
<1> QED
  BY <1>7, <1>8, <1>9, <1>10, <1>11 DEF VisitInvariant

LEMMA VisitInvariantStep ==
  ASSUME SaltInvariant, SaltInvariant', VisitInvariant, [Next]_vars
  PROVE  VisitInvariant'
<1>1. MadeGrows
  BY SaltsGrow
<1>2. IdentityTypes' /\ SaltsInOrder' /\ StoresNewer' /\ NoneNewer' /\ LastToGo' /\ AloneIsAlone'
  BY <1>1, IdentityTypesStep, InOrderStep, StoresNewerStep, NoneNewerStep, LastToGoStep, AloneIsAloneStep
     DEF VisitInvariant
<1>3. Young' => \E c \in DOMAIN made' : KeptUnder(c)'
  BY <1>1, <1>2, KeptStep DEF VisitInvariant
<1> QED
  BY <1>2, <1>3 DEF VisitInvariant

\* The invariant of the visitor's session holds of every behaviour.
THEOREM IdentityVisitInvariant == Spec => []VisitInvariant
<1>1. Init => VisitInvariant
  BY VisitInvariantInit
<1>2. SaltInvariant /\ SaltInvariant' /\ VisitInvariant /\ [Next]_vars => VisitInvariant'
  BY VisitInvariantStep
<1> QED
  BY <1>1, <1>2, IdentityInvariant, PTL DEF Spec

\* Every variable has its type, and the cache one entry per fingerprint,
\* whatever requests, rotations and starts do to it.
THEOREM IdentityTypesHold == Spec => []TypeOK
<1>1. SaltInvariant /\ VisitInvariant => TypeOK
  <2> SUFFICES ASSUME SaltInvariant, VisitInvariant PROVE TypeOK
    OBVIOUS
  <2>1. day \in Nat /\ \A n \in DOMAIN made : made[n] \in 0 .. day
    BY HeldAreMade DEF SaltInvariant
  <2>2. salts \subseteq Salt \ {0}
    BY SaltsAreMade DEF SaltInvariant, Database
  <2>3. rotation \in [step : {"idle", "insert", "prune", "select", "store"}, today : 0 .. day, read : State]
    BY DEF SaltInvariant, VisitInvariant, IdentityTypes
  <2> QED
    BY <2>1, <2>2, <2>3 DEF VisitInvariant, IdentityTypes, OnePerKey, TypeOK
<1> QED
  BY <1>1, IdentityInvariant, IdentityVisitInvariant, PTL

\* A visitor whose session is in use, is less than a day old and was created
\* with the salt of its day keeps it across midnights, rotations and restarts,
\* whatever rows of the table were merged when a start read them, when no request
\* since its creation overlapped another and no start since its last request left
\* the cache empty.
THEOREM IdentityKeepsSession == Spec => ActiveVisitorKeepsSession
<1> DEFINE Keeps(r) ==
      /\ request[r].step # "idle" /\ request'[r].step = "idle" /\ request[r].alone /\ visit.alone
      /\ visit.idle < Expiry /\ visit.warm /\ visit.timely /\ Time - visit.at < DayLength
      => visit'.session = visit.session
<1>1. ASSUME SaltInvariant, VisitInvariant, [Next]_vars, NEW r \in Requests PROVE Keeps(r)
  <2> SUFFICES ASSUME request[r].step # "idle", request'[r].step = "idle", request[r].alone, Young,
                      visit.idle < Expiry, visit.warm
               PROVE  visit'.session = visit.session
    BY DEF Young
  <2>1. IdentityTypes /\ SaltsInOrder /\ LastToGo /\ AloneIsAlone
    BY <1>1 DEF VisitInvariant
  <2>2. PICK c \in DOMAIN made : KeptUnder(c)
    BY <1>1 DEF VisitInvariant
  <2>3. PICK w \in cache : w.session = visit.session
    BY <2>1 DEF LastToGo, Young
  <2>4. request[r].step # "create" /\ \A e \in cache : Took(r, e) => e.session = visit.session
    BY <1>1, <2>1, <2>2, <2>3, AloneFinds
  <2>5. CASE \E q \in Requests : Arrive(q)
    BY <2>1, <2>5, ArriveFields
  <2>6. CASE \E q \in Requests : GetCurrent(q) \/ GetPrevious(q) \/ Create(q)
    <3>1. PICK q \in Requests : GetCurrent(q) \/ GetPrevious(q) \/ Create(q)
      BY <2>6
    <3>2. (\E e \in cache : Took(q, e)) \/ Missed(q) \/ Create(q)
      BY <3>1, RequestSteps
    <3>3. CASE \E e \in cache : Took(q, e)
      <4>1. PICK e \in cache : Took(q, e)
        BY <3>3
      <4>2. /\ Frees(q) /\ request[q].step # "idle"
            /\ visit' = [visit EXCEPT !.session = e.session, !.idle = 0, !.warm = TRUE,
                              !.alone = visit.alone /\ request[q].alone]
        BY <2>1, <4>1, TookFields DEF Took
      <4>3. q = r
        BY <2>1, <4>2 DEF Frees, AloneIsAlone
      <4>4. visit'.session = e.session
        BY <2>1, <4>2, VisitFields DEF Visit
      <4> QED
        BY <2>4, <4>1, <4>3, <4>4
    <3>4. CASE Missed(q)
      BY <2>1, <3>4, MissedFields
    <3>5. CASE Create(q)
      <4>1. Frees(q) /\ request[q].step = "create"
        BY <2>1, <3>5, CreateFields
      <4>2. q = r
        BY <2>1, <4>1 DEF Frees, AloneIsAlone
      <4> QED
        BY <2>4, <4>1, <4>2
    <3> QED
      BY <3>2, <3>3, <3>4, <3>5
  <2>7. CASE UNCHANGED request
    BY <2>7
  <2>8. CASE Tick \/ Restart
    BY <2>8 DEF Tick, Restart, Quiet
  <2> QED
    BY <1>1, <2>5, <2>6, <2>7, <2>8, OthersLeave
<1>2. SaltInvariant /\ VisitInvariant /\ [Next]_vars => [\A r \in Requests : Keeps(r)]_vars
  BY <1>1
<1> QED
  BY <1>2, IdentityInvariant, IdentityVisitInvariant, PTL DEF Spec, ActiveVisitorKeepsSession

=============================================================================
