SPECIFICATION Spec
CONSTANTS
  Users = {u1, u2}
  Limit = 1
  Requests = {q1, q2}
  Invitations = {i1, i2}
  MaxFaults = 1
INVARIANT
  ExpiredCanBeInvitedAgain
