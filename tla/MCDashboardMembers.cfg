SPECIFICATION Spec
CONSTANTS
  Users = {u1, u2, u3}
  Limit = 2
  Requests = {q1, q2}
  Invitations = {i1, i2}
  MaxFaults = 1
SYMMETRY Symmetry
INVARIANTS
  MembersHaveNoInvitation
  AcceptedMeansJoined
PROPERTY
  LimitIsKept
