--------------------------- MODULE RetentionGrace ---------------------------
(***************************************************************************)
(* Data retention of one dashboard: the setting (dashboardSettings.        *)
(* service.ts), what a change of the owner's plan makes of it (webhook-    *)
(* Handlers.service.ts, applyTierChangeToRetention), and the weekly purge  *)
(* (retention-purge.job.ts).                                               *)
(*                                                                         *)
(* A plan covers a number of days.  When it shrinks, the setting is        *)
(* clamped to it, but for a grace period the purge goes by the old         *)
(* setting, and an upgrade brings it back.                                 *)
(*                                                                         *)
(* Tier changes come from webhooks, each handled in steps and any two at   *)
(* once; the user edits the setting, and the purge deletes table by table  *)
(* by what it read at its start.  Days pass only between these handlers.   *)
(***************************************************************************)
EXTENDS Naturals, FiniteSets, FiniteSetsExt

CONSTANTS
  Ceilings,    \* getMaxRetentionDaysForTier of the tiers
  Grace,       \* RETENTION_GRACE_DAYS
  Tables,      \* the tables of RETENTION_DELETE_STATEMENTS
  Syncs,       \* bound: syncRetentionToTier calls at once
  Purges,      \* bound: invocations of runRetentionPurge at once
  MaxDay,      \* bound: days that pass
  MaxChanges,  \* bound: tier changes and edits
  MaxFailures  \* bound: syncs and deletes that fail

ASSUME RetentionAssumption ==
  /\ Ceilings \subseteq Nat \ {0} /\ Ceilings # {} /\ IsFiniteSet(Ceilings)
  /\ Grace \in Nat \ {0}
  /\ MaxDay \in Nat /\ MaxChanges \in Nat /\ MaxFailures \in Nat

Days == 1..Max(Ceilings)

VARIABLES
  now,        \* the day
  ceiling,    \* what the owner's tier covers
  settings,   \* dataRetentionDays, retentionGraceRestoreDays (0: null), retentionGraceUntil
  syncs,      \* syncs[s]: a call of syncRetentionToTier, with the patch it computed
  edit,       \* the value of an edit that passed the check, 0: none
  purges,     \* purges[p]: a run of the purge
  held,       \* held[t]: the age of the oldest data in the table
  changes,    \* bounded by MaxChanges
  failures,   \* bounded by MaxFailures
  chosen,     \* history: the retention the user may count on
  lostAt,     \* history: the day the plan last stopped covering so many days
  expected,   \* history: the age up to which data must be there
  clobbered,  \* history: what was written had been computed from what no longer held
  missed      \* history: a sync failed

retentionVars == <<now, ceiling, settings, syncs, edit, purges, held, changes, failures,
                   chosen, lostAt, expected, clobbered, missed>>
history == <<chosen, lostAt, expected, clobbered, missed>>

NoSync == [at |-> "idle", max |-> 0, patch |-> {}]
NoPurge == [days |-> 0, age |-> 0, left |-> {}]
Fields == {"days", "restore", "until"}
Settings == [days : Days, restore : Days \cup {0}, until : 0..(MaxDay + Grace)]

\* What a grace period restores is more than the setting, unless a sync wrote
\* over a row it had not read.
GraceRestores ==
  clobbered \/ (settings.restore # 0 => settings.restore > settings.days /\ settings.until # 0)

RetentionTypeOK ==
  /\ now \in 0..MaxDay
  /\ ceiling \in Ceilings
  /\ settings \in Settings /\ GraceRestores
  /\ \A s \in Syncs : /\ syncs[s].at \in {"idle", "tier", "read", "stale"}
                      /\ syncs[s].max \in Ceilings \cup {0}
                      /\ syncs[s].patch \subseteq Settings \cup [days : Days]
                      /\ Cardinality(syncs[s].patch) <= 1
  /\ edit \in Days \cup {0}
  /\ purges \in [Purges -> [days : Days \cup {0}, age : 0..MaxDay, left : SUBSET Tables]]
  /\ held \in [Tables -> 0..MaxDay]
  /\ changes \in 0..MaxChanges /\ failures \in 0..MaxFailures
  /\ chosen \in Days /\ lostAt \in [Days -> 0..MaxDay] /\ expected \in 0..MaxDay
  /\ clobbered \in BOOLEAN /\ missed \in BOOLEAN

\* The retention can be set to what the plan covers, and nothing is stored yet.
RetentionInit ==
  /\ now = 0
  /\ ceiling = Max(Ceilings)
  /\ settings = [days |-> ceiling, restore |-> 0, until |-> 0]
  /\ syncs = [s \in Syncs |-> NoSync]
  /\ edit = 0
  /\ purges = [p \in Purges |-> NoPurge]
  /\ held = [t \in Tables |-> 0]
  /\ changes = 0 /\ failures = 0
  /\ chosen = ceiling
  /\ lostAt = [d \in Days |-> 0]
  /\ expected = 0
  /\ clobbered = FALSE /\ missed = FALSE

Change == changes < MaxChanges /\ changes' = changes + 1
Failure == failures < MaxFailures /\ failures' = failures + 1
Handling == edit # 0 \/ \E s \in Syncs : syncs[s] # NoSync
Least(a, b) == IF a < b THEN a ELSE b

----------------------------------------------------------------------------
\* What the user may count on: the last choice, as far as the plan covers it
\* or covered it less than the grace period ago.
Covered(day) == Max({d \in 1..chosen : d <= ceiling \/ day < lostAt[d] + Grace} \cup {Least(chosen, ceiling)})

\* A day passes: all data gets a day older.
NextDay ==
  /\ now < MaxDay /\ ~Handling
  /\ now' = now + 1
  /\ held' = [t \in Tables |-> held[t] + 1]
  /\ purges' = [p \in Purges |-> IF purges[p] = NoPurge THEN NoPurge
                                 ELSE [purges[p] EXCEPT !.age = @ + 1]]
  /\ chosen' = Covered(now + 1)
  /\ expected' = Least(expected + 1, chosen')
  /\ UNCHANGED <<ceiling, settings, syncs, edit, changes, failures, lostAt, clobbered, missed>>

----------------------------------------------------------------------------
(* The settings.                                                           *)

\* assertRetentionWithinPlan.
CheckEdit(d) ==
  /\ Change
  /\ edit = 0 /\ d <= ceiling
  /\ edit' = d
  /\ UNCHANGED <<now, ceiling, settings, syncs, purges, held, failures, history>>

\* Syncs that read the settings earlier know nothing of a change to them.
Outdated(ss) == [s \in Syncs |-> IF s \in ss /\ syncs[s].at = "read" THEN [syncs[s] EXCEPT !.at = "stale"]
                                 ELSE syncs[s]]

\* A sync that has yet to read the settings sees what is written before.
SyncToCome == \E s \in Syncs : syncs[s].at = "tier" /\ syncs[s].max = ceiling

ApplyEdit ==
  /\ edit # 0
  /\ syncs' = Outdated(Syncs)
  /\ clobbered' = (clobbered \/ (edit > ceiling /\ ~SyncToCome))
  /\ settings' = [days |-> edit, restore |-> 0, until |-> 0]
  /\ edit' = 0
  /\ chosen' = edit
  /\ expected' = Least(expected, edit)
  /\ UNCHANGED <<now, ceiling, purges, held, changes, failures, lostAt, missed>>

----------------------------------------------------------------------------
(* Tier changes.  The webhook stores the tier and then syncs the retention. *)

ChangeTier(s, max) ==
  /\ Change
  /\ syncs[s] = NoSync /\ max # ceiling
  /\ ceiling' = max
  /\ syncs' = [syncs EXCEPT ![s] = [NoSync EXCEPT !.at = "tier", !.max = max]]
  /\ lostAt' = [d \in Days |-> IF max < d /\ d <= ceiling THEN now ELSE lostAt[d]]
  /\ UNCHANGED <<now, settings, edit, purges, held, failures, chosen, expected, clobbered, missed>>

\* Fault: the grace period is left in place.
RestoreKeeping == [settings EXCEPT !.days = settings.restore]
Restore == [days |-> settings.restore, restore |-> 0, until |-> 0]
\* Fault: the end of a running grace period is kept.
ClampRunning(max) == [days |-> max, restore |-> Max({settings.restore, settings.days}),
                      until |-> IF settings.until > now THEN settings.until ELSE now + Grace]
Clamp(max) == [days |-> max, restore |-> Max({settings.restore, settings.days}), until |-> now + Grace]
Raise(max) == [days |-> max]

\* Fault: a higher plan that falls short of the restored days raises nothing.
PatchNoRaise(max) ==
  IF settings.days <= max /\ ~(settings.until > now /\ settings.restore # 0) THEN {}
  ELSE IF settings.restore # 0 /\ settings.restore <= max THEN {Restore}
  ELSE IF settings.days > max THEN {Clamp(max)}
  ELSE {}

\* findOwnerSettingsForRetentionSync, and the patch for what it finds.
PatchFor(max) ==
  IF settings.days <= max /\ ~(settings.until > now /\ settings.restore # 0) THEN {}
  ELSE IF settings.restore # 0 /\ settings.restore <= max THEN {Restore}
  ELSE IF settings.days > max THEN {Clamp(max)}
  ELSE IF max > settings.days THEN {Raise(max)}
  ELSE {}

ReadSettings(s) ==
  /\ syncs[s].at = "tier"
  /\ syncs' = [syncs EXCEPT ![s].at = "read", ![s].patch = PatchFor(syncs[s].max)]
  /\ UNCHANGED <<now, ceiling, settings, edit, purges, held, changes, failures, history>>

ApplyPatch(s) ==
  /\ syncs[s].at \in {"read", "stale"}
  /\ \/ syncs[s].patch = {} /\ UNCHANGED <<settings, clobbered>>
     \/ \E p \in syncs[s].patch :
          /\ settings' = [f \in Fields |-> IF f \in DOMAIN p THEN p[f] ELSE settings[f]]
          /\ clobbered' = (clobbered \/ syncs[s].at = "stale" \/ (syncs[s].max # ceiling /\ ~SyncToCome))
  /\ syncs' = IF syncs[s].patch = {} THEN [syncs EXCEPT ![s] = NoSync]
              ELSE [Outdated(Syncs \ {s}) EXCEPT ![s] = NoSync]
  /\ UNCHANGED <<now, ceiling, edit, purges, held, changes, failures, chosen, lostAt, expected, missed>>

\* The webhook is retried, but sees a tier that did not change.
SyncFails(s) ==
  /\ Failure
  /\ syncs[s] # NoSync
  /\ syncs' = [syncs EXCEPT ![s] = NoSync]
  /\ missed' = TRUE
  /\ UNCHANGED <<now, ceiling, settings, edit, purges, held, changes, chosen, lostAt, expected, clobbered>>

----------------------------------------------------------------------------
(* The purge.                                                              *)

\* Fault: the end of the grace period is not looked at.
EffectiveAlways == IF settings.restore > settings.days THEN settings.restore ELSE settings.days
EffectiveDays ==
  IF settings.until > now /\ settings.restore > settings.days THEN settings.restore ELSE settings.days

StartPurge(p) ==
  /\ purges[p] = NoPurge
  /\ purges' = [purges EXCEPT ![p] = [days |-> EffectiveDays, age |-> 0, left |-> Tables]]
  /\ UNCHANGED <<now, ceiling, settings, syncs, edit, held, changes, failures, history>>

\* The table is done: after the last one the run ends, with an error if a
\* delete failed.  It is run again later in any case.
Rest(p, t) == IF purges[p].left = {t} THEN NoPurge ELSE [purges[p] EXCEPT !.left = @ \ {t}]

\* The cutoff is that of the day the run started.
Delete(p, t) ==
  /\ t \in purges[p].left
  /\ held' = [held EXCEPT ![t] = Least(@, purges[p].days + purges[p].age)]
  /\ purges' = [purges EXCEPT ![p] = Rest(p, t)]
  /\ UNCHANGED <<now, ceiling, settings, syncs, edit, changes, failures, history>>

DeleteFails(p, t) ==
  /\ Failure
  /\ t \in purges[p].left
  /\ purges' = [purges EXCEPT ![p] = Rest(p, t)]
  /\ UNCHANGED <<now, ceiling, settings, syncs, edit, held, changes, history>>

RetentionNext ==
  \/ NextDay
  \/ \E d \in Days : CheckEdit(d)
  \/ ApplyEdit
  \/ \E s \in Syncs : \/ \E max \in Ceilings : ChangeTier(s, max)
                      \/ ReadSettings(s) \/ ApplyPatch(s) \/ SyncFails(s)
  \/ \E p \in Purges : \/ StartPurge(p)
                       \/ \E t \in Tables : Delete(p, t) \/ DeleteFails(p, t)

\* Purges are scheduled every week, and a query is answered or fails.
RetentionFairness ==
  /\ WF_retentionVars(ApplyEdit)
  /\ \A s \in Syncs : WF_retentionVars(ReadSettings(s) \/ ApplyPatch(s))
  /\ \A p \in Purges : WF_retentionVars(StartPurge(p) \/ \E t \in Tables : Delete(p, t))

RetentionSpec == RetentionInit /\ [][RetentionNext]_retentionVars /\ RetentionFairness

----------------------------------------------------------------------------
\* No purge deletes data that the user may count on: what the last choice
\* keeps is there as long as the plan covers it and for the grace period after
\* that, through downgrades, partial and full upgrades.  Tier changes and
\* edits handled at the same time, and a sync that failed, can cost it.
ExpectedIsHeld == clobbered \/ missed \/ \A t \in Tables : expected <= held[t]

\* When nothing is being handled the setting is within the plan, and as far as
\* the plan covers it, it is what the user chose: an upgrade within the grace
\* period brings the choice back (or more: a further downgrade prolongs the
\* grace of an earlier one).
SettingFollowsPlan ==
  \/ clobbered \/ missed \/ Handling
  \/ Least(chosen, ceiling) <= settings.days /\ settings.days <= ceiling

\* In the end every table holds only what the setting keeps: deletes that
\* failed are made up for, and a grace period that ran out counts no more.
TablesArePurged == \A t \in Tables : []<>(held[t] <= settings.days \/ now < settings.until)
============================================================================
