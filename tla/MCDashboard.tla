---------------------------- MODULE MCDashboard ----------------------------
(* A small instance of the dashboard. *)
EXTENDS Dashboard

CONSTANTS d1, d2
=============================================================================
