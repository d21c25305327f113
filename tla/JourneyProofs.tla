----------------------------- MODULE JourneyProofs ---------------------------
(***************************************************************************)
(* Recruit implements Progress: whatever the handlers do to the tables, the *)
(* status they add up to only takes the promised steps.  And it implements  *)
(* Reviewing: a submission is decided on once.                              *)
(***************************************************************************)
EXTENDS ReviewProofs

-----------------------------------------------------------------------------
(* The steps that touch the tables the status is computed from.             *)

journeyVars == << joined, preSubmits, submits, ndaAgreed, masters, mixed >>

\* Every step is one that the journey sees, or leaves all it depends on alone.
LEMMA JourneyStepOrNot ==
    [Next]_vars =>
        \/ UNCHANGED journeyVars
        \/ \E puid \in Puids : \/ ReviewStep(puid)
                              \/ JoinProject(puid)
                              \/ \E m \in Managers : Master(m, puid)
        \/ \E puids \in SUBSET Puids : MarkMixed(puids)
BY DEF Next, UserStep, FileStep, ManagerStep, BundleStep, AccessStep, OutsideStep,
       ReviewStep, UserUploadStart, UploadContinue, UploadFinish, DeleteFile,
       ManagerUploadStart, ProjectManagerEdit, ProjectEnds, PutObject, UrlExpires,
       vars, placeVars, reviewVars, journeyVars

\* A review step leaves everything else of the journey alone, and the
\* submissions of the others.
LEMMA ReviewStepLeaves ==
    ASSUME TypeOK, NEW puid \in Puids, ReviewStep(puid)
    PROVE  /\ UNCHANGED << joined, masters, mixed >>
           /\ \A q \in Puids \ {puid} : /\ preSubmits'[q] = preSubmits[q]
                                       /\ submits'[q] = submits[q]
BY DEF TypeOK, ReviewStep, PreSubmit, AgreeNda, Submit, PreSubmitReview,
       SubmitReview, placeVars

-----------------------------------------------------------------------------
(* What the mapping needs beside the order of the reviews.                  *)

\* Only a user who joined submits, and a bundle job only mixes who is mastered.
JoinedAndMastered(puid) ==
    /\ preSubmits[puid] # << >> => puid \in joined
    /\ puid \in mixed => IsMastered(puid)

JourneyInv == ReviewInv /\ \A puid \in Puids : JoinedAndMastered(puid)

\* Nobody has joined at first.
LEMMA JourneyInit == Init => JourneyInv
BY ReviewInit DEF Init, JourneyInv, JoinedAndMastered

\* Every step keeps the invariant.
LEMMA JourneyNext == JourneyInv /\ [Next]_vars => JourneyInv'
<1> SUFFICES ASSUME JourneyInv, [Next]_vars, NEW q \in Puids
             PROVE  JoinedAndMastered(q)'
  BY ReviewNext DEF JourneyInv
<1>1. TypeOK /\ JoinedAndMastered(q)
  BY DEF JourneyInv, ReviewInv, TypeInv
<1>2. ASSUME NEW puid \in Puids, ReviewStep(puid) PROVE JoinedAndMastered(q)'
  <2>1. ASSUME NEW m \in Managers, NEW i \in DOMAIN preSubmits[puid],
               NEW verdict \in Verdict, NEW choir \in BOOLEAN,
               PreSubmitReview(m, puid, i, verdict, choir)
        PROVE  puid \in joined
    BY DEF JourneyInv, JoinedAndMastered
  <2>2. puid \in joined \/ preSubmits' = preSubmits
    BY <1>2, <2>1 DEF ReviewStep, PreSubmit, JoinedAndOpen, AgreeNda, Submit,
                      SubmitReview
  <2>3. /\ preSubmits'[q] # << >> => q \in joined
        /\ UNCHANGED << joined, masters, mixed >>
    BY <1>1, <1>2, <2>2, ReviewStepLeaves DEF JoinedAndMastered
  <2> QED BY <1>1, <2>3 DEF JoinedAndMastered, IsMastered
<1>3. ASSUME NEW puid \in Puids, JoinProject(puid) PROVE JoinedAndMastered(q)'
  BY <1>1, <1>3 DEF JoinProject, JoinedAndMastered, IsMastered, reviewVars
<1>4. ASSUME NEW puid \in Puids, NEW m \in Managers, Master(m, puid)
      PROVE  JoinedAndMastered(q)'
  BY <1>1, <1>4 DEF Master, JoinedAndMastered, IsMastered, placeVars
<1>5. ASSUME NEW puids \in SUBSET Puids, MarkMixed(puids)
      PROVE  JoinedAndMastered(q)'
  BY <1>1, <1>5 DEF MarkMixed, JoinedAndMastered, IsMastered, placeVars
<1>6. CASE UNCHANGED journeyVars
  BY <1>1, <1>6 DEF journeyVars, JoinedAndMastered, IsMastered
<1> QED BY <1>2, <1>3, <1>4, <1>5, <1>6, JourneyStepOrNot

\* Only who joined submits or is mastered.
LEMMA JourneyInvariant == Spec => []JourneyInv
BY JourneyInit, JourneyNext, PTL DEF Spec

-----------------------------------------------------------------------------
(* The mapping.                                                            *)

\* A step that moves one project user along an edge, or not at all.
LEMMA MoveImplements ==
    ASSUME NEW puid \in Puids,
           \A q \in Puids \ {puid} : JourneyStatus'[q] = JourneyStatus[q],
           UNCHANGED ndaAgreed,
           \/ JourneyStatus'[puid] = JourneyStatus[puid]
           \/ /\ << JourneyStatus[puid], JourneyStatus'[puid] >> \in Journey!Edges
              /\ JourneyStatus'[puid] \in Status
              /\ JourneyStatus'[puid] = "Submitted" => ~NdaPending(puid)
    PROVE  [Journey!Next]_<< JourneyStatus, ndaAgreed >>
<1> DEFINE next == JourneyStatus'[puid]
<1>1. JourneyStatus' = [JourneyStatus EXCEPT ![puid] = next]
  BY DEF JourneyStatus
<1>2. CASE next = JourneyStatus[puid]
  BY <1>1, <1>2 DEF JourneyStatus
<1>3. CASE /\ << JourneyStatus[puid], next >> \in Journey!Edges
           /\ next \in Status
           /\ next = "Submitted" => ~NdaPending(puid)
  <2>1. Journey!MayLeave(puid, next)
    BY <1>3 DEF Journey!MayLeave, NdaPending
  <2>2. next \in Journey!Status
    BY <1>3 DEF Status, Journey!Status
  <2> HIDE DEF next
  <2>3. Journey!Move(puid)
    BY <1>1, <1>3, <2>1, <2>2 DEF Journey!Move
  <2> QED BY <2>3 DEF Journey!Next
<1> QED BY <1>2, <1>3

\* The abstract status of who joined is the status derived from the tables.
LEMMA JourneyStatusOf ==
    ASSUME NEW q \in Puids
    PROVE  /\ JourneyStatus[q] = IF q \in joined THEN StatusOfPuid(q) ELSE "NotJoined"
           /\ JourneyStatus'[q] = IF q \in joined' THEN StatusOfPuid(q)' ELSE "NotJoined"
BY DEF JourneyStatus

\* A review step is a move of the abstract journey, an agreement, or neither.
LEMMA ReviewStepImplements ==
    ASSUME JourneyInv, JourneyInv', NEW puid \in Puids, ReviewStep(puid)
    PROVE  [Journey!Next]_<< JourneyStatus, ndaAgreed >>
<1> DEFINE pre == preSubmits[puid]
           sub == submits[puid]
<1>1. /\ TypeOK /\ InOrder(puid) /\ JoinedAndMastered(puid)
      /\ pre \in Seq(PreSubmitSet) /\ sub \in Seq(SubmitSet)
  BY DEF JourneyInv, ReviewInv, TypeInv, TypeOK, PreSubmitSet, SubmitSet
<1>2. /\ UNCHANGED << joined, masters, mixed >>
      /\ \A q \in Puids \ {puid} : JourneyStatus'[q] = JourneyStatus[q]
  <2>1. ASSUME NEW q \in Puids \ {puid}
        PROVE  (q \in joined' <=> q \in joined) /\ StatusOfPuid(q)' = StatusOfPuid(q)
    BY <1>1, ReviewStepLeaves DEF StatusOfPuid, IsMastered
  <2> QED BY <1>1, <2>1, ReviewStepLeaves, JourneyStatusOf
<1>3. ASSUME NEW skip \in BOOLEAN, PreSubmit(puid, skip)
      PROVE  [Journey!Next]_<< JourneyStatus, ndaAgreed >>
  <2>1. JourneyStatus[puid] \in {"Entered", "PreSubmitRejected"}
    BY <1>3, JourneyStatusOf DEF PreSubmit, JoinedAndOpen, StageOfPuid, StageOf, NoStage
  <2>2. JourneyStatus'[puid] = "PreSubmitted"
    <3>1. preSubmits'[puid] = Append(pre, [review |-> "Unreviewed", choir |-> FALSE])
      BY <1>1, <1>3 DEF PreSubmit, TypeOK
    <3>2. [review |-> "Unreviewed", choir |-> FALSE] \in PreSubmitSet
      BY DEF PreSubmitSet, Review
    <3>3. preSubmits'[puid] # << >> /\ Latest(preSubmits'[puid]).review = "Unreviewed"
      BY <1>1, <3>1, <3>2, AppendFacts, EmptySeq, LenProperties DEF Latest
    <3>4. StatusOfPuid(puid)' = "PreSubmitted"
      BY <3>3 DEF StatusOfPuid, StatusOf, PreSubmitStatus
    <3> QED BY <1>2, <1>3, <3>4, JourneyStatusOf DEF PreSubmit, JoinedAndOpen
  <2> QED BY <1>2, <1>3, <2>1, <2>2, MoveImplements DEF PreSubmit, Journey!Edges, Status
<1>4. ASSUME AgreeNda(puid)
      PROVE  [Journey!Next]_<< JourneyStatus, ndaAgreed >>
  <2>1. JourneyStatus[puid] = "PreSubmitPassed" /\ UNCHANGED JourneyStatus
    BY <1>2, <1>4, JourneyStatusOf
       DEF AgreeNda, JoinedAndOpen, JourneyStatus, StatusOfPuid, IsMastered
  <2>2. Journey!Agree(puid)
    BY <1>4, <2>1 DEF AgreeNda, Journey!Agree, NdaPending
  <2> QED BY <2>2 DEF Journey!Next
<1>5. ASSUME NEW include \in BOOLEAN, Submit(puid, include)
      PROVE  [Journey!Next]_<< JourneyStatus, ndaAgreed >>
  <2>1. JourneyStatus[puid] \in {"PreSubmitPassed", "SubmitRejected"}
    BY <1>5, JourneyStatusOf
       DEF Submit, ReadyToSubmit, JoinedAndOpen, StageOfPuid, StageOf, NoStage
  <2>2. JourneyStatus'[puid] = "Submitted"
    <3>1. submits'[puid] = Append(sub, [review |-> "Unreviewed", group |-> NoGroup])
      BY <1>1, <1>5 DEF Submit, TypeOK
    <3>2. [review |-> "Unreviewed", group |-> NoGroup] \in SubmitSet
      BY DEF SubmitSet, Review
    <3>3. submits'[puid] # << >> /\ Latest(submits'[puid]).review = "Unreviewed"
      BY <1>1, <3>1, <3>2, AppendFacts, EmptySeq, LenProperties DEF Latest
    <3>4. InOrder(puid)'
      BY DEF JourneyInv, ReviewInv
    <3>5. StatusOfPuid(puid)' = "Submitted"
      BY <3>3, <3>4 DEF InOrder, StatusOfPuid, StatusOf, SubmitStatus
    <3> QED BY <1>2, <1>5, <3>5, JourneyStatusOf DEF Submit, JoinedAndOpen
  <2> QED BY <1>2, <1>5, <2>1, <2>2, MoveImplements
          DEF Submit, ReadyToSubmit, Journey!Edges, Status
<1>6. ASSUME NEW m \in Managers, NEW i \in DOMAIN pre, NEW verdict \in Verdict,
             NEW choir \in BOOLEAN, PreSubmitReview(m, puid, i, verdict, choir)
      PROVE  [Journey!Next]_<< JourneyStatus, ndaAgreed >>
  <2> DEFINE new == [review |-> verdict, choir |-> choir]
             t == [pre EXCEPT ![i] = new]
  <2>1. /\ new \in PreSubmitSet /\ pre[i].review = "Unreviewed"
        /\ preSubmits'[puid] = t /\ submits' = submits /\ ndaAgreed' = ndaAgreed
    BY <1>1, <1>6 DEF PreSubmitReview, NotReviewed, TypeOK, PreSubmitSet, Review
  <2> HIDE DEF new
  <2>2. i = Len(pre) /\ pre # << >> /\ t # << >>
    BY <1>1, <2>1, ReviewKeepsOrder DEF InOrder
  <2>3. Len(t) = Len(pre) /\ Latest(t) = new
    BY <1>1, <2>1, <2>2, ExceptSeq, LenProperties DEF Latest
  <2> HIDE DEF t
  <2>4. sub = << >> /\ puid \in joined
    BY <1>1, <2>1, <2>2 DEF InOrder, JoinedAndMastered, Latest
  <2>5. JourneyStatus[puid] = "PreSubmitted"
    BY <2>1, <2>2, <2>4, JourneyStatusOf DEF StatusOfPuid, StatusOf, Latest, PreSubmitStatus
  <2>6. JourneyStatus'[puid] \in {"PreSubmitRejected", "PreSubmitPassed"}
    BY <1>2, <2>1, <2>2, <2>3, <2>4, JourneyStatusOf
       DEF StatusOfPuid, StatusOf, PreSubmitStatus, Verdict, new
  <2> QED BY <1>2, <2>1, <2>5, <2>6, MoveImplements DEF Journey!Edges, Status
<1>7. ASSUME NEW m \in Managers, NEW i \in DOMAIN sub, NEW verdict \in Verdict,
             NEW checked \in CheckLists, SubmitReview(m, puid, i, verdict, checked)
      PROVE  [Journey!Next]_<< JourneyStatus, ndaAgreed >>
  <2>1. PICK g \in Nat \cup {NoGroup} :
            submits' = [submits EXCEPT ![puid] =
                           [@ EXCEPT ![i] = [review |-> verdict, group |-> g]]]
    <3>1. NextGroupId \in Nat
      BY NextGroupIdType DEF JourneyInv, ReviewInv, TypeInv, TypeOK
    <3> QED BY <1>7, <3>1 DEF SubmitReview
  <2> DEFINE new == [review |-> verdict, group |-> g]
             t == [sub EXCEPT ![i] = new]
  <2>2. /\ new \in SubmitSet /\ sub[i].review = "Unreviewed"
        /\ submits'[puid] = t /\ preSubmits' = preSubmits /\ ndaAgreed' = ndaAgreed
    BY <1>1, <1>7, <2>1 DEF SubmitReview, NotReviewed, TypeOK, SubmitSet, Review
  <2> HIDE DEF new
  <2>3. i = Len(sub) /\ sub # << >> /\ t # << >>
    BY <1>1, <2>2, ReviewKeepsOrder DEF InOrder
  <2>4. Len(t) = Len(sub) /\ Latest(t) = new
    BY <1>1, <2>2, <2>3, ExceptSeq, LenProperties DEF Latest
  <2> HIDE DEF t
  <2>5. pre # << >> /\ Latest(pre).review = "Passed" /\ puid \in joined
    BY <1>1, <2>3 DEF InOrder, JoinedAndMastered
  <2>6. JourneyStatus[puid] = "Submitted"
    BY <2>2, <2>3, <2>5, JourneyStatusOf DEF StatusOfPuid, StatusOf, Latest, SubmitStatus
  <2>7. JourneyStatus'[puid] \in {"SubmitRejected", "SubmitPassed", "Mastered", "Mixed"}
    BY <1>2, <2>2, <2>3, <2>4, <2>5, JourneyStatusOf
       DEF StatusOfPuid, StatusOf, SubmitStatus, Verdict, new
  <2> QED BY <1>2, <2>2, <2>6, <2>7, MoveImplements DEF Journey!Edges, Status
<1> QED BY <1>3, <1>4, <1>5, <1>6, <1>7 DEF ReviewStep

\* Mastering is a move of the abstract journey or none.
LEMMA MasterImplements ==
    ASSUME JourneyInv, NEW puid \in Puids, NEW m \in Managers, Master(m, puid)
    PROVE  [Journey!Next]_<< JourneyStatus, ndaAgreed >>
<1> DEFINE pre == preSubmits[puid]
           sub == submits[puid]
<1>1. /\ UNCHANGED << joined, preSubmits, submits, ndaAgreed, mixed >>
      /\ puid \in joined /\ ~IsMastered(puid) /\ IsMastered(puid)'
      /\ \A q \in Puids \ {puid} : IsMastered(q)' <=> IsMastered(q)
  BY DEF Master, placeVars, IsMastered
<1>2. puid \notin mixed
  BY <1>1 DEF JourneyInv, JoinedAndMastered
<1>3. \A q \in Puids \ {puid} : JourneyStatus'[q] = JourneyStatus[q]
  BY <1>1, JourneyStatusOf DEF StatusOfPuid, StatusOf
<1>4. CASE \/ pre = << >> \/ Latest(pre).review = "Unreviewed"
           \/ sub = << >> \/ Latest(sub).review = "Unreviewed"
  <2>1. JourneyStatus'[puid] = JourneyStatus[puid]
    BY <1>1, <1>4, JourneyStatusOf DEF StatusOfPuid, StatusOf
  <2> QED BY <1>1, <1>3, <2>1, MoveImplements
<1>5. CASE /\ pre # << >> /\ Latest(pre).review # "Unreviewed"
           /\ sub # << >> /\ Latest(sub).review # "Unreviewed"
  <2>1. Latest(sub).review \in Review
    BY <1>5, LatestType DEF JourneyInv, ReviewInv, TypeInv, TypeOK, SubmitSet
  <2>2. JourneyStatus[puid] \in {"SubmitRejected", "SubmitPassed"}
    BY <1>1, <1>5, <2>1, JourneyStatusOf
       DEF StatusOfPuid, StatusOf, SubmitStatus, Review, Verdict
  <2>3. JourneyStatus'[puid] = "Mastered"
    BY <1>1, <1>2, <1>5, JourneyStatusOf DEF StatusOfPuid, StatusOf
  <2> QED BY <1>1, <1>3, <2>2, <2>3, MoveImplements DEF Journey!Edges, Status
<1> QED BY <1>4, <1>5

\* A bundle job mixes those whose status was Mastered; one mastered before the
\* last review does not show it yet.
LEMMA MarkMixedImplements ==
    ASSUME JourneyInv, NEW puids \in SUBSET Puids, MarkMixed(puids)
    PROVE  [Journey!Next]_<< JourneyStatus, ndaAgreed >>
<1> DEFINE seen == {puid \in puids : JourneyStatus[puid] = "Mastered"}
<1>1. /\ UNCHANGED << joined, preSubmits, submits, ndaAgreed, masters >>
      /\ mixed' = mixed \cup puids
      /\ \A puid \in puids : IsMastered(puid) /\ puid \notin mixed
                             /\ preSubmits[puid] # << >>
  BY DEF MarkMixed, placeVars
<1>2. ASSUME NEW q \in Puids \ puids
      PROVE  JourneyStatus'[q] = JourneyStatus[q]
  BY <1>1, JourneyStatusOf DEF StatusOfPuid, StatusOf, IsMastered
<1>3. ASSUME NEW q \in puids
      PROVE  JourneyStatus'[q] = IF q \in seen THEN "Mixed" ELSE JourneyStatus[q]
  <2> DEFINE pre == preSubmits[q]
             sub == submits[q]
  <2>1. /\ q \in joined /\ q \in joined' /\ q \in mixed' /\ q \notin mixed
        /\ IsMastered(q) /\ IsMastered(q)' /\ pre # << >>
    BY <1>1 DEF JourneyInv, JoinedAndMastered, IsMastered
  <2>2. CASE \/ Latest(pre).review = "Unreviewed"
             \/ sub = << >> \/ Latest(sub).review = "Unreviewed"
    <3>1. /\ Latest(pre).review \in Review
          /\ sub # << >> => Latest(sub).review \in Review
      BY <2>1, LatestType
         DEF JourneyInv, ReviewInv, TypeInv, TypeOK, PreSubmitSet, SubmitSet
    <3>2. StatusOfPuid(q) # "Mastered" /\ StatusOfPuid(q)' = StatusOfPuid(q)
      BY <1>1, <2>1, <2>2, <3>1
         DEF StatusOfPuid, StatusOf, PreSubmitStatus, SubmitStatus, Review, Verdict
    <3> QED BY <2>1, <3>2, JourneyStatusOf
  <2>3. CASE ~(\/ Latest(pre).review = "Unreviewed"
               \/ sub = << >> \/ Latest(sub).review = "Unreviewed")
    <3>1. StatusOfPuid(q) = "Mastered" /\ StatusOfPuid(q)' = "Mixed"
      BY <1>1, <2>1, <2>3 DEF StatusOfPuid, StatusOf
    <3> QED BY <2>1, <3>1, JourneyStatusOf
  <2> QED BY <2>2, <2>3
<1>4. JourneyStatus' =
          [q \in Puids |-> IF q \in seen THEN "Mixed" ELSE JourneyStatus[q]]
  <2>1. \A q \in Puids :
            JourneyStatus'[q] = IF q \in seen THEN "Mixed" ELSE JourneyStatus[q]
    BY <1>2, <1>3
  <2> QED BY <2>1 DEF JourneyStatus
<1>5. seen \in SUBSET Puids /\ \A q \in seen : JourneyStatus[q] = "Mastered"
  OBVIOUS
<1> HIDE DEF seen
<1>6. Journey!Mix(seen)
  BY <1>1, <1>4, <1>5 DEF Journey!Mix
<1> QED BY <1>5, <1>6 DEF Journey!Next

\* Every step is one of the abstract journey.
LEMMA JourneyStepImplements ==
    JourneyInv /\ JourneyInv' /\ [Next]_vars
        => [Journey!Next]_<< JourneyStatus, ndaAgreed >>
<1> SUFFICES ASSUME JourneyInv, JourneyInv', [Next]_vars
             PROVE  [Journey!Next]_<< JourneyStatus, ndaAgreed >>
  OBVIOUS
<1>1. ASSUME NEW puid \in Puids, JoinProject(puid)
      PROVE  [Journey!Next]_<< JourneyStatus, ndaAgreed >>
  <2>1. /\ puid \notin joined /\ puid \in joined' /\ joined' = joined \cup {puid}
        /\ UNCHANGED << preSubmits, submits, ndaAgreed, masters, mixed >>
    BY <1>1 DEF JoinProject, reviewVars
  <2>2. preSubmits[puid] = << >>
    BY <2>1 DEF JourneyInv, JoinedAndMastered
  <2>3. JourneyStatus[puid] = "NotJoined" /\ JourneyStatus'[puid] = "Entered"
    BY <2>1, <2>2, JourneyStatusOf DEF StatusOfPuid, StatusOf
  <2>4. \A q \in Puids \ {puid} : JourneyStatus'[q] = JourneyStatus[q]
    BY <2>1, JourneyStatusOf DEF StatusOfPuid, IsMastered
  <2> QED BY <2>1, <2>3, <2>4, MoveImplements
          DEF Journey!Edges, Journey!NotJoined, Status
<1>2. CASE UNCHANGED journeyVars
  BY <1>2 DEF journeyVars, JourneyStatus, StatusOfPuid, IsMastered
<1> QED BY <1>1, <1>2, JourneyStepOrNot, ReviewStepImplements, MasterImplements,
           MarkMixedImplements

\* Every handler takes every project user along the promised steps, however
\* many users, projects and managers there are.
THEOREM RecruitImplementsProgress == Spec => FollowsProgress
<1>1. Init => Journey!Init
  BY DEF Init, Journey!Init, Journey!NotJoined, JourneyStatus
<1> QED BY <1>1, JourneyInvariant, JourneyStepImplements, PTL
        DEF Spec, FollowsProgress, Journey!Spec

-----------------------------------------------------------------------------
(* The decisions on submissions, as Reviewing has them.                     *)

DecisionMap == [s \in Submissions |-> DecisionsOn(s)]

\* The decision on a row, if there is one.
DecisionIn(rows, i) ==
    IF i \in DOMAIN rows /\ rows[i].review # "Unreviewed" THEN {DecisionOf(rows[i])} ELSE {}

\* What DecisionsOn finds, in the state before and in the state after a step.
LEMMA DecisionsFound ==
    ASSUME NEW puid, NEW i
    PROVE  /\ DecisionsOn(<< "PreSubmit", puid, i >>) = DecisionIn(preSubmits[puid], i)
           /\ DecisionsOn(<< "PreSubmit", puid, i >>)' = DecisionIn(preSubmits'[puid], i)
           /\ DecisionsOn(<< "Submit", puid, i >>) = DecisionIn(submits[puid], i)
           /\ DecisionsOn(<< "Submit", puid, i >>)' = DecisionIn(submits'[puid], i)
BY DEF DecisionsOn, DecisionIn

\* A submission is a pre-submit or a submit.
LEMMA SubmissionParts ==
    ASSUME NEW s \in Submissions
    PROVE  \E puid \in Puids, i \in Nat :
               s = << "PreSubmit", puid, i >> \/ s = << "Submit", puid, i >>
BY DEF Submissions

\* A step that changes no decision stutters.
LEMMA SameDecisions ==
    ASSUME \A puid \in Puids, i \in Nat :
               /\ DecisionIn(preSubmits'[puid], i) = DecisionIn(preSubmits[puid], i)
               /\ DecisionIn(submits'[puid], i) = DecisionIn(submits[puid], i)
    PROVE  UNCHANGED DecisionMap
<1>1. ASSUME NEW s \in Submissions PROVE DecisionsOn(s)' = DecisionsOn(s)
  <2>1. PICK puid \in Puids, i \in Nat :
            s = << "PreSubmit", puid, i >> \/ s = << "Submit", puid, i >>
    BY SubmissionParts
  <2>2. CASE s = << "PreSubmit", puid, i >>
    BY <2>2, DecisionsFound
  <2>3. CASE s = << "Submit", puid, i >>
    BY <2>3, DecisionsFound
  <2> QED BY <2>1, <2>2, <2>3
<1>2. Submissions' = Submissions
  BY DEF Submissions, Puids
<1> QED BY <1>1, <1>2 DEF DecisionMap

\* One that decides where there was no decision is a review.
LEMMA NewDecision ==
    ASSUME NEW s \in Submissions, NEW d \in Verdict \cup {"Choir"},
           DecisionsOn(s) = {}, DecisionsOn(s)' = {d},
           \A r \in Submissions \ {s} : DecisionsOn(r)' = DecisionsOn(r)
    PROVE  Decisions!Next
<1>1. Submissions' = Submissions
  BY DEF Submissions, Puids
<1>2. DecisionMap' = [DecisionMap EXCEPT ![s] = {d}]
  BY <1>1 DEF DecisionMap
<1>3. Decisions!Review(s, d)
  BY <1>2 DEF Decisions!Review, DecisionMap
<1> QED BY <1>3 DEF Decisions!Next

\* A new row carries no decision.
LEMMA AppendUndecided ==
    ASSUME NEW S, NEW rows \in Seq(S), NEW e \in S, e.review = "Unreviewed", NEW i
    PROVE  DecisionIn(Append(rows, e), i) = DecisionIn(rows, i)
<1>1. /\ DOMAIN Append(rows, e) = 1 .. Len(rows) + 1 /\ DOMAIN rows = 1 .. Len(rows)
      /\ Len(rows) \in Nat /\ Append(rows, e)[Len(rows) + 1] = e
      /\ \A j \in 1 .. Len(rows) : Append(rows, e)[j] = rows[j]
  BY AppendFacts, LenProperties
<1> DEFINE t == Append(rows, e)
<1> HIDE DEF t
<1>2. CASE i \in 1 .. Len(rows)
  BY <1>1, <1>2 DEF DecisionIn, t
<1>3. CASE i = Len(rows) + 1
  BY <1>1, <1>3 DEF DecisionIn, t
<1>4. CASE i \notin 1 .. Len(rows) + 1
  BY <1>1, <1>4 DEF DecisionIn, t
<1> QED BY <1>1, <1>2, <1>3, <1>4

\* The row that a review handler writes carries one, and the others do as before.
LEMMA ReviewDecides ==
    ASSUME NEW S, NEW rows \in Seq(S), NEW i \in DOMAIN rows, NEW e,
           e.review \in Verdict, rows[i].review = "Unreviewed"
    PROVE  /\ DecisionIn(rows, i) = {}
           /\ DecisionIn([rows EXCEPT ![i] = e], i) = {DecisionOf(e)}
           /\ DecisionOf(e) \in Verdict \cup {"Choir"}
           /\ \A j : j # i => DecisionIn([rows EXCEPT ![i] = e], j) = DecisionIn(rows, j)
<1> DEFINE t == [rows EXCEPT ![i] = e]
<1>1. DOMAIN t = DOMAIN rows /\ t[i] = e /\ \A j \in DOMAIN rows \ {i} : t[j] = rows[j]
  OBVIOUS
<1> HIDE DEF t
<1>2. e.review # "Unreviewed"
  BY DEF Verdict
<1>3. DecisionOf(e) \in Verdict \cup {"Choir"}
  BY DEF DecisionOf
<1>4. DecisionIn(rows, i) = {} /\ DecisionIn(t, i) = {DecisionOf(e)}
  BY <1>1, <1>2 DEF DecisionIn
<1>5. \A j : j # i => DecisionIn(t, j) = DecisionIn(rows, j)
  BY <1>1 DEF DecisionIn
<1> QED BY <1>3, <1>4, <1>5 DEF t

\* A pre-submit is no submit.
LEMMA OtherSubmissions ==
    ASSUME NEW kind \in {"PreSubmit", "Submit"}, NEW q, NEW i, NEW r \in Submissions,
           r # << kind, q, i >>,
           \A puid \in Puids, j \in Nat :
               /\ kind = "Submit" \/ puid # q \/ j # i =>
                      DecisionIn(preSubmits'[puid], j) = DecisionIn(preSubmits[puid], j)
               /\ kind = "PreSubmit" \/ puid # q \/ j # i =>
                      DecisionIn(submits'[puid], j) = DecisionIn(submits[puid], j)
    PROVE  DecisionsOn(r)' = DecisionsOn(r)
<1>1. PICK puid \in Puids, j \in Nat :
          r = << "PreSubmit", puid, j >> \/ r = << "Submit", puid, j >>
  BY SubmissionParts
<1>2. CASE r = << "PreSubmit", puid, j >>
  <2>1. kind = "Submit" \/ puid # q \/ j # i
    BY <1>2
  <2>2. DecisionIn(preSubmits'[puid], j) = DecisionIn(preSubmits[puid], j)
    BY <2>1
  <2> QED BY <1>2, <2>2, DecisionsFound
<1>3. CASE r = << "Submit", puid, j >>
  <2>1. kind = "PreSubmit" \/ puid # q \/ j # i
    BY <1>3
  <2>2. DecisionIn(submits'[puid], j) = DecisionIn(submits[puid], j)
    BY <2>1
  <2> QED BY <1>3, <2>2, DecisionsFound
<1> QED BY <1>1, <1>2, <1>3

\* Every step is a review of the abstract specification or none.
LEMMA DecisionStep == TypeInv /\ [Next]_vars => [Decisions!Next]_DecisionMap
<1> SUFFICES ASSUME TypeInv, [Next]_vars PROVE [Decisions!Next]_DecisionMap
  OBVIOUS
<1>1. /\ preSubmits \in [Puids -> Seq(PreSubmitSet)]
      /\ submits \in [Puids -> Seq(SubmitSet)]
  BY DEF TypeInv, TypeOK, PreSubmitSet, SubmitSet
<1>2. ASSUME NEW q \in Puids, NEW skip \in BOOLEAN, PreSubmit(q, skip)
      PROVE  UNCHANGED DecisionMap
  <2> DEFINE new == [review |-> "Unreviewed", choir |-> FALSE]
  <2>1. new \in PreSubmitSet /\ new.review = "Unreviewed"
    BY DEF PreSubmitSet, Review
  <2>2. /\ submits' = submits /\ preSubmits'[q] = Append(preSubmits[q], new)
        /\ \A puid \in Puids \ {q} : preSubmits'[puid] = preSubmits[puid]
    BY <1>1, <1>2 DEF PreSubmit
  <2> HIDE DEF new
  <2>3. \A i : DecisionIn(preSubmits'[q], i) = DecisionIn(preSubmits[q], i)
    BY <1>1, <2>1, <2>2, AppendUndecided
  <2> QED BY <2>2, <2>3, SameDecisions
<1>3. ASSUME NEW q \in Puids, NEW include \in BOOLEAN, Submit(q, include)
      PROVE  UNCHANGED DecisionMap
  <2> DEFINE new == [review |-> "Unreviewed", group |-> NoGroup]
  <2>1. new \in SubmitSet /\ new.review = "Unreviewed"
    BY DEF SubmitSet, Review
  <2>2. /\ preSubmits' = preSubmits /\ submits'[q] = Append(submits[q], new)
        /\ \A puid \in Puids \ {q} : submits'[puid] = submits[puid]
    BY <1>1, <1>3 DEF Submit
  <2> HIDE DEF new
  <2>3. \A i : DecisionIn(submits'[q], i) = DecisionIn(submits[q], i)
    BY <1>1, <2>1, <2>2, AppendUndecided
  <2> QED BY <2>2, <2>3, SameDecisions
<1>4. ASSUME NEW m \in Managers, NEW q \in Puids, NEW i \in DOMAIN preSubmits[q],
             NEW verdict \in Verdict, NEW choir \in BOOLEAN,
             PreSubmitReview(m, q, i, verdict, choir)
      PROVE  [Decisions!Next]_DecisionMap
  <2> DEFINE e == [review |-> verdict, choir |-> choir]
             s == << "PreSubmit", q, i >>
  <2>1. /\ submits' = submits /\ preSubmits[q][i].review = "Unreviewed"
        /\ preSubmits'[q] = [preSubmits[q] EXCEPT ![i] = e]
        /\ \A puid \in Puids \ {q} : preSubmits'[puid] = preSubmits[puid]
        /\ e.review \in Verdict
    BY <1>1, <1>4 DEF PreSubmitReview, NotReviewed
  <2> HIDE DEF e
  <2>2. /\ DecisionIn(preSubmits[q], i) = {} /\ DecisionIn(preSubmits'[q], i) = {DecisionOf(e)}
        /\ DecisionOf(e) \in Verdict \cup {"Choir"}
        /\ \A j : j # i => DecisionIn(preSubmits'[q], j) = DecisionIn(preSubmits[q], j)
    <3>1. preSubmits[q] \in Seq(PreSubmitSet)
      BY <1>1
    <3> QED BY <2>1, <3>1, ReviewDecides
  <2>3. \A r \in Submissions \ {s} : DecisionsOn(r)' = DecisionsOn(r)
    BY <2>1, <2>2, OtherSubmissions
  <2>4. DecisionsOn(s) = {} /\ DecisionsOn(s)' = {DecisionOf(e)}
    BY <2>2, DecisionsFound
  <2> HIDE DEF s
  <2>5. CASE s \in Submissions
    BY <2>2, <2>3, <2>4, <2>5, NewDecision
  <2>6. CASE s \notin Submissions
    <3>1. Submissions' = Submissions
      BY DEF Submissions, Puids
    <3> QED BY <2>3, <2>6, <3>1 DEF DecisionMap
  <2> QED BY <2>5, <2>6
<1>5. ASSUME NEW m \in Managers, NEW q \in Puids, NEW i \in DOMAIN submits[q],
             NEW verdict \in Verdict, NEW checked \in CheckLists,
             SubmitReview(m, q, i, verdict, checked)
      PROVE  [Decisions!Next]_DecisionMap
  <2> DEFINE s == << "Submit", q, i >>
  <2>1. PICK g : submits' = [submits EXCEPT ![q] =
                                [@ EXCEPT ![i] = [review |-> verdict, group |-> g]]]
    BY <1>5 DEF SubmitReview
  <2> DEFINE e == [review |-> verdict, group |-> g]
  <2>0. /\ preSubmits' = preSubmits /\ submits[q][i].review = "Unreviewed"
        /\ submits'[q] = [submits[q] EXCEPT ![i] = e]
        /\ \A puid \in Puids \ {q} : submits'[puid] = submits[puid]
        /\ e.review \in Verdict
    BY <1>1, <1>5, <2>1 DEF SubmitReview, NotReviewed
  <2> HIDE DEF e
  <2>2. /\ DecisionIn(submits[q], i) = {} /\ DecisionIn(submits'[q], i) = {DecisionOf(e)}
        /\ DecisionOf(e) \in Verdict \cup {"Choir"}
        /\ \A j : j # i => DecisionIn(submits'[q], j) = DecisionIn(submits[q], j)
    <3>1. submits[q] \in Seq(SubmitSet)
      BY <1>1
    <3> QED BY <2>0, <3>1, ReviewDecides
  <2>3. \A r \in Submissions \ {s} : DecisionsOn(r)' = DecisionsOn(r)
    BY <2>0, <2>2, OtherSubmissions
  <2>4. DecisionsOn(s) = {} /\ DecisionsOn(s)' = {DecisionOf(e)}
    BY <2>2, DecisionsFound
  <2> HIDE DEF s
  <2>5. CASE s \in Submissions
    BY <2>2, <2>3, <2>4, <2>5, NewDecision
  <2>6. CASE s \notin Submissions
    <3>1. Submissions' = Submissions
      BY DEF Submissions, Puids
    <3> QED BY <2>3, <2>6, <3>1 DEF DecisionMap
  <2> QED BY <2>5, <2>6
<1>6. CASE UNCHANGED << preSubmits, submits >>
  BY <1>6, SameDecisions
<1>7. ASSUME NEW q \in Puids, AgreeNda(q) PROVE UNCHANGED << preSubmits, submits >>
  BY <1>7 DEF AgreeNda
<1> QED BY <1>2, <1>3, <1>4, <1>5, <1>6, <1>7, ReviewStepOrNot DEF ReviewStep

\* Whoever reviews what and when, a submission is decided on once: the handlers
\* do for every submission what Requests shows of one of them.
THEOREM RecruitFollowsReviewing == Spec => FollowsReviewing
<1>1. Init => Decisions!Init
  <2> SUFFICES ASSUME Init, NEW s \in Submissions PROVE DecisionsOn(s) = {}
    BY DEF Decisions!Init
  <2>1. \A puid \in Puids : preSubmits[puid] = << >> /\ submits[puid] = << >>
    BY DEF Init
  <2>2. PICK puid \in Puids, i \in Nat :
            s = << "PreSubmit", puid, i >> \/ s = << "Submit", puid, i >>
    BY SubmissionParts
  <2>3. DecisionIn(<< >>, i) = {}
    BY DEF DecisionIn
  <2>4. CASE s = << "PreSubmit", puid, i >>
    BY <2>1, <2>3, <2>4, DecisionsFound
  <2>5. CASE s = << "Submit", puid, i >>
    BY <2>1, <2>3, <2>5, DecisionsFound
  <2> QED BY <2>2, <2>4, <2>5
<1> QED BY <1>1, TypeInvariant, DecisionStep, PTL
        DEF Spec, FollowsReviewing, Decisions!Spec, DecisionMap
=============================================================================
