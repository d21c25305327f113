-------------------------------- MODULE MCAccess ------------------------------
(***************************************************************************)
(* Values for the constants of UserLogin.                                   *)
(***************************************************************************)
EXTENDS AccessProps, TLC

CONSTANT u1
==============================================================================
