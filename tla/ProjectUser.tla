------------------------------- MODULE ProjectUser ---------------------------
(***************************************************************************)
(* How far a user has come in a project.  The backend keeps no status       *)
(* column: project_user::Status::get_by_puid derives the status from the    *)
(* pre-submits, submits, reviews, masters and mixes recorded for the        *)
(* project user, and file::Stage::try_from derives from the status which    *)
(* kind of file the user may hand in next.                                  *)
(***************************************************************************)
EXTENDS Naturals, Sequences

Verdict == {"Rejected", "Passed"}
Review  == Verdict \cup {"Unreviewed"}

Status == {"Entered", "PreSubmitted", "PreSubmitRejected", "PreSubmitPassed",
           "Submitted", "SubmitRejected", "SubmitPassed", "Mastered", "Mixed"}

\* The statuses the code orders after PreSubmitPassed.
AfterPreSubmitPassed ==
    {"Submitted", "SubmitRejected", "SubmitPassed", "Mastered", "Mixed"}

Stage   == {"PreSubmit", "Submit", "Master"}
NoStage == "NoStage"

Latest(s) == s[Len(s)]

PreSubmitStatus == [Unreviewed |-> "PreSubmitted",
                    Rejected   |-> "PreSubmitRejected",
                    Passed     |-> "PreSubmitPassed"]

SubmitStatus == [Unreviewed |-> "Submitted",
                 Rejected   |-> "SubmitRejected",
                 Passed     |-> "SubmitPassed"]

(***************************************************************************)
(* pre and sub are the sequences of pre-submits and submits of one project  *)
(* user, oldest first, each with the review it got.  The master is looked   *)
(* up only once the latest submit has been reviewed, whatever the verdict;  *)
(* the mix only once there is a master.                                     *)
(***************************************************************************)
StatusOf(pre, sub, mastered, mixed) ==
    IF pre = << >>
    THEN "Entered"
    ELSE IF Latest(pre).review = "Unreviewed" \/ sub = << >>
    THEN PreSubmitStatus[Latest(pre).review]
    ELSE IF Latest(sub).review = "Unreviewed" \/ ~mastered
    THEN SubmitStatus[Latest(sub).review]
    ELSE IF mixed THEN "Mixed" ELSE "Mastered"

\* Mutant of StageOf: a new pre-submit while the last awaits its review.
StageOf_Unreviewed(status) ==
    CASE status \in {"Entered", "PreSubmitted", "PreSubmitRejected"} -> "PreSubmit"
      [] status \in {"PreSubmitPassed", "SubmitRejected"} -> "Submit"
      [] status = "SubmitPassed"                          -> "Master"
      [] OTHER                                            -> NoStage

\* The stage whose files the user hands in next; none while a review is due
\* and after the master.
StageOf(status) ==
    CASE status \in {"Entered", "PreSubmitRejected"}      -> "PreSubmit"
      [] status \in {"PreSubmitPassed", "SubmitRejected"} -> "Submit"
      [] status = "SubmitPassed"                          -> "Master"
      [] OTHER                                            -> NoStage
==============================================================================
