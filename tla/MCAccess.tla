------------------------------ MODULE MCAccess ------------------------------
(* Two CLI processes, two passwords and three credentials.                 *)
EXTENDS Access
=============================================================================
