------------------------- MODULE MCDashboardMembers -------------------------
(* Users who can be invited to a dashboard with fewer seats than users.    *)
EXTENDS DashboardMembers, TLC
Symmetry == Permutations(Users) \cup Permutations(Requests) \cup Permutations(Invitations)
============================================================================
