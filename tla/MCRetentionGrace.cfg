SPECIFICATION RetentionSpec
CONSTANTS
  Ceilings = {1, 2, 3}
  Grace = 2
  Tables = {events, sessions}
  Syncs = {s1, s2}
  Purges = {p1}
  MaxDay = 3
  MaxChanges = 3
  MaxFailures = 1
INVARIANTS
  RetentionTypeOK
  ExpectedIsHeld
  SettingFollowsPlan
PROPERTIES
  TablesArePurged
