------------------------------- MODULE MCBundle ------------------------------
(***************************************************************************)
(* Values for the constants of BundleJob.                                   *)
(***************************************************************************)
EXTENDS BundleProps, TLC

CONSTANTS u1, u2

NoFaults  == {}
AllFaults  == {"Submit", "Store", "Hang", "Finish", "Crash"}
MostFaults == AllFaults \ {"Submit"}
SubmitOnly == {"Submit"}
==============================================================================
