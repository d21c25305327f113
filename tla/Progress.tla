-------------------------------- MODULE Progress -----------------------------
(***************************************************************************)
(* What the backend promises about the way of one user through one project: *)
(* the status only ever takes one of the steps below, and nobody submits    *)
(* before agreeing to the project's non-disclosure agreement.  How the      *)
(* status follows from the tables is left to the specifications that        *)
(* implement this one.                                                      *)
(***************************************************************************)
EXTENDS ProjectUser

CONSTANTS Puids,        \* the project users there can be
          NeedsNda      \* those whose project has a non-disclosure agreement

VARIABLES status, agreed

NotJoined == "NotJoined"

(***************************************************************************)
(* A rejected user tries again; a passed one goes on.  Managers may master  *)
(* before the last review, so that a review ends in Mastered, or in Mixed   *)
(* when a bundle job came first, whatever the verdict was.                  *)
(***************************************************************************)
Edges ==
    { << NotJoined, "Entered" >>,
      << "Entered", "PreSubmitted" >>,
      << "PreSubmitted", "PreSubmitRejected" >>,
      << "PreSubmitted", "PreSubmitPassed" >>,
      << "PreSubmitRejected", "PreSubmitted" >>,
      << "PreSubmitPassed", "Submitted" >>,
      << "SubmitRejected", "Submitted" >> }
    \cup {"Submitted"} \X {"SubmitRejected", "SubmitPassed", "Mastered", "Mixed"}
    \cup {"SubmitRejected", "SubmitPassed"} \X {"Mastered"}

Init == status = [puid \in Puids |-> NotJoined] /\ agreed = {}

MayLeave(puid, next) ==
    next = "Submitted" /\ puid \in NeedsNda => puid \in agreed

Move(puid) ==
    \E next \in Status :
        /\ << status[puid], next >> \in Edges
        /\ MayLeave(puid, next)
        /\ status' = [status EXCEPT ![puid] = next]
        /\ UNCHANGED agreed

Agree(puid) ==
    /\ puid \in NeedsNda
    /\ status[puid] = "PreSubmitPassed"
    /\ agreed' = agreed \cup {puid}
    /\ UNCHANGED status

\* A bundle job marks all the users it mixed at once.
Mix(puids) ==
    /\ \A puid \in puids : status[puid] = "Mastered"
    /\ status' = [puid \in Puids |-> IF puid \in puids THEN "Mixed" ELSE status[puid]]
    /\ UNCHANGED agreed

Next ==
    \/ \E puid \in Puids : Move(puid) \/ Agree(puid)
    \/ \E puids \in SUBSET Puids : Mix(puids)

Spec == Init /\ [][Next]_<< status, agreed >>
==============================================================================
