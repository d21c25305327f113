------------------------------- MODULE Reviewing -----------------------------
(***************************************************************************)
(* What the backend promises about the review of a submission: it gets one  *)
(* review at most, in one instant, and keeps it.  Recruit takes a review    *)
(* for such a step; how requests, retries, transactions and messages make   *)
(* one of it is left to the specification that implements this one.         *)
(***************************************************************************)
CONSTANTS Submissions, Reviews

VARIABLE reviewsOf

Init == reviewsOf = [s \in Submissions |-> {}]

\* A submission gets its review, and no other is touched.
Review(s, review) ==
    /\ reviewsOf[s] = {} /\ reviewsOf'[s] = {review}
    /\ reviewsOf' = [reviewsOf EXCEPT ![s] = {review}]

Next == \E s \in Submissions, review \in Reviews : Review(s, review)

Spec == Init /\ [][Next]_reviewsOf
==============================================================================
