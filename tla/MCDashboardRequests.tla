------------------------ MODULE MCDashboardRequests ------------------------
(* Instances of DashboardRequests for TLC. *)
EXTENDS DashboardRequestsProps
=============================================================================
