------------------------------- MODULE MCRequests -----------------------------
(***************************************************************************)
(* Values for the constants of Requests.                                    *)
(***************************************************************************)
EXTENDS RequestProps, TLC

CONSTANTS n1, s1

AllFaults == {"Commit", "Crash", "Cache", "Revoke", "Hang"}
==============================================================================
