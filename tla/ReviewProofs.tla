------------------------------ MODULE ReviewProofs ---------------------------
(***************************************************************************)
(* Proofs about the order in which submissions are reviewed.                *)
(***************************************************************************)
EXTENDS RecruitProofs

-----------------------------------------------------------------------------
(* The status in terms of the submissions.                                 *)

PreSubmitSet == [review : Review, choir : BOOLEAN]
SubmitSet    == [review : Review, group : Nat \cup {NoGroup}]

\* The latest submission is one of the submissions there can be.
LEMMA LatestType ==
    /\ \A s \in Seq(PreSubmitSet) : s # << >> => Latest(s) \in PreSubmitSet
    /\ \A s \in Seq(SubmitSet) : s # << >> => Latest(s) \in SubmitSet
<1>1. ASSUME NEW S, NEW s \in Seq(S), s # << >> PROVE Latest(s) \in S
  BY <1>1, EmptySeq, LenProperties DEF Latest
<1> QED BY <1>1

\* What status and stage say about the submissions and their last reviews.
LEMMA StatusBySubmissions ==
    ASSUME TypeOK, NEW puid \in Puids
    PROVE  LET pre == preSubmits[puid]
               sub == submits[puid]
           IN  /\ StatusOfPuid(puid) \in Status
               /\ StageOfPuid(puid) = "PreSubmit" =>
                      \/ pre = << >>
                      \/ sub = << >> /\ Latest(pre).review = "Rejected"
               /\ StageOfPuid(puid) = "Submit" =>
                      /\ pre # << >>
                      /\ \/ sub = << >> /\ Latest(pre).review = "Passed"
                         \/ sub # << >> /\ Latest(sub).review = "Rejected"
               /\ StatusOfPuid(puid) = "PreSubmitPassed" => sub = << >>
               /\ StatusOfPuid(puid) \in AfterPreSubmitPassed => sub # << >>
<1>1. /\ preSubmits[puid] # << >> => Latest(preSubmits[puid]).review \in Review
      /\ submits[puid] # << >> => Latest(submits[puid]).review \in Review
  BY LatestType DEF TypeOK, PreSubmitSet, SubmitSet
<1> DEFINE preReview == Latest(preSubmits[puid]).review
           subReview == Latest(submits[puid]).review
<1> QED
  BY <1>1 DEF StageOfPuid, StageOf, StatusOfPuid, StatusOf, PreSubmitStatus,
              SubmitStatus, Status, AfterPreSubmitPassed, Review, Verdict, NoStage

-----------------------------------------------------------------------------
(* Every step is a review step, or leaves the submissions and agreements    *)
(* alone.                                                                   *)

ReviewStep(puid) ==
    \/ \E skip \in BOOLEAN : PreSubmit(puid, skip)
    \/ AgreeNda(puid)
    \/ \E include \in BOOLEAN : Submit(puid, include)
    \/ \E m \in Managers, i \in DOMAIN preSubmits[puid], verdict \in Verdict,
          choir \in BOOLEAN : PreSubmitReview(m, puid, i, verdict, choir)
    \/ \E m \in Managers, i \in DOMAIN submits[puid], verdict \in Verdict,
          checked \in CheckLists : SubmitReview(m, puid, i, verdict, checked)

\* A step leaves reviews and agreements alone or is one of their handlers.
LEMMA ReviewStepOrNot ==
    [Next]_vars => \/ UNCHANGED << preSubmits, submits, ndaAgreed >>
                   \/ \E puid \in Puids : ReviewStep(puid)
BY DEF Next, UserStep, FileStep, ManagerStep, BundleStep, AccessStep, OutsideStep,
       ReviewStep, JoinProject, UserUploadStart, UploadContinue, UploadFinish,
       DeleteFile, ManagerUploadStart, Master, MarkMixed, ProjectManagerEdit,
       ProjectEnds, PutObject, UrlExpires, vars, reviewVars

-----------------------------------------------------------------------------
(* The order of the reviews.                                               *)

OnlyLatestOpen(s) == \A i \in DOMAIN s : i < Len(s) => s[i].review = "Rejected"

\* A submission is added only after a rejected one or as the first.
LEMMA AppendKeepsOrder ==
    ASSUME NEW S, NEW s \in Seq(S), NEW e \in S, OnlyLatestOpen(s),
           s = << >> \/ Latest(s).review = "Rejected"
    PROVE  /\ OnlyLatestOpen(Append(s, e))
           /\ Append(s, e) # << >>
<1>1. Len(s) \in Nat /\ DOMAIN s = 1 .. Len(s) /\ (s = << >> <=> Len(s) = 0)
  BY LenProperties, EmptySeq
<1>2. \A i \in 1 .. Len(s) : s[i].review = "Rejected"
  BY <1>1 DEF OnlyLatestOpen, Latest
<1> DEFINE t == Append(s, e)
<1>3. /\ Len(t) = Len(s) + 1 /\ DOMAIN t = 1 .. Len(s) + 1
      /\ \A i \in 1 .. Len(s) : t[i] = s[i]
  BY AppendFacts
<1>4. t # << >>
  BY <1>1, <1>3, EmptySeq
<1> HIDE DEF t
<1>5. OnlyLatestOpen(t)
  BY <1>1, <1>2, <1>3 DEF OnlyLatestOpen
<1> QED BY <1>4, <1>5 DEF t

\* The one submission that can be reviewed is the latest.
LEMMA ReviewKeepsOrder ==
    ASSUME NEW S, NEW s \in Seq(S), NEW e \in S, OnlyLatestOpen(s),
           NEW i \in DOMAIN s, s[i].review = "Unreviewed"
    PROVE  /\ i = Len(s)
           /\ s # << >>
           /\ OnlyLatestOpen([s EXCEPT ![i] = e])
           /\ [s EXCEPT ![i] = e] # << >>
<1>1. Len(s) \in Nat /\ DOMAIN s = 1 .. Len(s) /\ (s = << >> <=> Len(s) = 0)
  BY LenProperties, EmptySeq
<1>2. i = Len(s)
  BY <1>1 DEF OnlyLatestOpen
<1> DEFINE t == [s EXCEPT ![i] = e]
<1>3. /\ t \in Seq(S) /\ Len(t) = Len(s)
      /\ \A j \in 1 .. Len(s) : t[j] = IF j = i THEN e ELSE s[j]
  BY <1>1, ExceptSeq
<1>4. DOMAIN t = 1 .. Len(s)
  BY <1>1
<1>5. t # << >>
  BY <1>1, <1>3, EmptySeq
<1> HIDE DEF t
<1>6. OnlyLatestOpen(t)
  BY <1>1, <1>2, <1>3, <1>4 DEF OnlyLatestOpen
<1> QED BY <1>1, <1>2, <1>5, <1>6 DEF t

\* What makes ReviewHistory and NdaBeforeSubmit inductive: as long as an
\* agreement is pending there is no submit at all.
InOrder(puid) ==
    /\ OnlyLatestOpen(preSubmits[puid])
    /\ OnlyLatestOpen(submits[puid])
    /\ submits[puid] # << >> => /\ preSubmits[puid] # << >>
                                /\ Latest(preSubmits[puid]).review = "Passed"
    /\ NdaPending(puid) => submits[puid] = << >>

ReviewInv == TypeInv /\ \A puid \in Puids : InOrder(puid)

\* Nobody has submitted at first.
LEMMA ReviewInit == Init => ReviewInv
BY TypeInit DEF Init, ReviewInv, InOrder, OnlyLatestOpen

\* A step of one project user keeps the order of its reviews.
LEMMA ReviewStepKeepsOrder ==
    ASSUME ReviewInv, TypeInv', NEW puid \in Puids, ReviewStep(puid), NEW q \in Puids
    PROVE  InOrder(q)'
<1> DEFINE pre == preSubmits[puid]
           sub == submits[puid]
<1>1. /\ TypeOK /\ TypeOK' /\ InOrder(puid) /\ InOrder(q)
      /\ pre \in Seq(PreSubmitSet) /\ sub \in Seq(SubmitSet)
      /\ preSubmits \in [Puids -> Seq(PreSubmitSet)]
      /\ submits \in [Puids -> Seq(SubmitSet)]
  BY DEF ReviewInv, TypeInv, TypeOK, PreSubmitSet, SubmitSet
<1>2. \A r \in Review, c \in BOOLEAN : [review |-> r, choir |-> c] \in PreSubmitSet
  BY DEF PreSubmitSet
<1>3. ASSUME NEW skip \in BOOLEAN, PreSubmit(puid, skip) PROVE InOrder(q)'
  <2> DEFINE new == [review |-> "Unreviewed", choir |-> FALSE]
  <2>1. /\ StageOfPuid(puid) = "PreSubmit"
        /\ preSubmits' = [preSubmits EXCEPT ![puid] = Append(@, new)]
        /\ submits' = submits /\ ndaAgreed' = ndaAgreed
    BY <1>3 DEF PreSubmit
  <2>2. sub = << >> /\ (pre = << >> \/ Latest(pre).review = "Rejected")
    BY <1>1, <2>1, StatusBySubmissions DEF InOrder
  <2>3. new \in PreSubmitSet
    BY <1>2 DEF Review
  <2> HIDE DEF new
  <2>4. OnlyLatestOpen(Append(pre, new))
    BY <1>1, <2>2, <2>3, AppendKeepsOrder DEF InOrder
  <2>5. /\ preSubmits'[q] = IF q = puid THEN Append(pre, new) ELSE preSubmits[q]
        /\ submits'[q] = submits[q]
    BY <1>1, <2>1
  <2> QED BY <1>1, <2>1, <2>2, <2>4, <2>5 DEF InOrder, NdaPending
<1>4. ASSUME AgreeNda(puid) PROVE InOrder(q)'
  BY <1>1, <1>4 DEF AgreeNda, InOrder, NdaPending
<1>5. ASSUME NEW include \in BOOLEAN, Submit(puid, include) PROVE InOrder(q)'
  <2> DEFINE new == [review |-> "Unreviewed", group |-> NoGroup]
  <2>1. /\ StageOfPuid(puid) = "Submit" /\ ~NdaPending(puid)
        /\ submits' = [submits EXCEPT ![puid] = Append(@, new)]
        /\ preSubmits' = preSubmits /\ ndaAgreed' = ndaAgreed
    BY <1>5 DEF Submit, ReadyToSubmit
  <2>2. /\ pre # << >> /\ Latest(pre).review = "Passed"
        /\ sub = << >> \/ Latest(sub).review = "Rejected"
    BY <1>1, <2>1, StatusBySubmissions DEF InOrder
  <2>3. new \in SubmitSet
    BY DEF SubmitSet, Review
  <2> HIDE DEF new
  <2>4. OnlyLatestOpen(Append(sub, new))
    BY <1>1, <2>2, <2>3, AppendKeepsOrder DEF InOrder
  <2>5. /\ submits'[q] = IF q = puid THEN Append(sub, new) ELSE submits[q]
        /\ preSubmits'[q] = preSubmits[q]
    BY <1>1, <2>1
  <2> QED BY <1>1, <2>1, <2>2, <2>4, <2>5 DEF InOrder, NdaPending
<1>6. ASSUME NEW m \in Managers, NEW i \in DOMAIN preSubmits[puid],
             NEW verdict \in Verdict, NEW choir \in BOOLEAN,
             PreSubmitReview(m, puid, i, verdict, choir)
      PROVE  InOrder(q)'
  <2> DEFINE new == [review |-> verdict, choir |-> choir]
             t == [pre EXCEPT ![i] = new]
  <2>1. /\ pre[i].review = "Unreviewed"
        /\ preSubmits' = [preSubmits EXCEPT ![puid] = [@ EXCEPT ![i] = new]]
        /\ submits' = submits /\ ndaAgreed' = ndaAgreed
    BY <1>6 DEF PreSubmitReview, NotReviewed
  <2>2. new \in PreSubmitSet
    BY <1>2 DEF Review
  <2> HIDE DEF new
  <2>3. i = Len(pre) /\ pre # << >> /\ OnlyLatestOpen(t)
    BY <1>1, <2>1, <2>2, ReviewKeepsOrder DEF InOrder
  <2>4. sub = << >>
    BY <1>1, <2>1, <2>3 DEF InOrder, Latest
  <2>5. preSubmits'[q] = (IF q = puid THEN t ELSE preSubmits[q]) /\ submits'[q] = submits[q]
    BY <1>1, <2>1
  <2> HIDE DEF t
  <2> QED BY <1>1, <2>1, <2>3, <2>4, <2>5 DEF InOrder, NdaPending
<1>7. ASSUME NEW m \in Managers, NEW i \in DOMAIN submits[puid],
             NEW verdict \in Verdict, NEW checked \in CheckLists,
             SubmitReview(m, puid, i, verdict, checked)
      PROVE  InOrder(q)'
  <2>1. PICK g \in Nat \cup {NoGroup} :
            submits' = [submits EXCEPT ![puid] =
                           [@ EXCEPT ![i] = [review |-> verdict, group |-> g]]]
    <3>1. NextGroupId \in Nat
      BY NextGroupIdType DEF ReviewInv, TypeInv, TypeOK
    <3> QED BY <1>7, <3>1 DEF SubmitReview
  <2> DEFINE new == [review |-> verdict, group |-> g]
             t == [sub EXCEPT ![i] = new]
  <2>2. /\ sub[i].review = "Unreviewed"
        /\ preSubmits' = preSubmits /\ ndaAgreed' = ndaAgreed
    BY <1>7 DEF SubmitReview, NotReviewed
  <2>3. new \in SubmitSet
    BY DEF SubmitSet, Review
  <2>4. submits' = [submits EXCEPT ![puid] = t]
    BY <2>1
  <2> HIDE DEF new
  <2>5. sub # << >> /\ OnlyLatestOpen(t)
    BY <1>1, <2>2, <2>3, ReviewKeepsOrder DEF InOrder
  <2> HIDE DEF t
  <2>6. submits'[q] = (IF q = puid THEN t ELSE submits[q]) /\ preSubmits'[q] = preSubmits[q]
    BY <1>1, <2>2, <2>4
  <2> QED BY <1>1, <2>2, <2>5, <2>6 DEF InOrder, NdaPending
<1> QED BY <1>3, <1>4, <1>5, <1>6, <1>7 DEF ReviewStep

\* Every step keeps the invariant.
LEMMA ReviewNext == ReviewInv /\ [Next]_vars => ReviewInv'
<1> SUFFICES ASSUME ReviewInv, [Next]_vars PROVE ReviewInv'
  OBVIOUS
<1>1. TypeInv'
  BY TypeStep DEF ReviewInv
<1>2. ASSUME NEW puid \in Puids, ReviewStep(puid) PROVE ReviewInv'
  BY <1>1, <1>2, ReviewStepKeepsOrder DEF ReviewInv
<1>3. CASE UNCHANGED << preSubmits, submits, ndaAgreed >>
  BY <1>1, <1>3 DEF ReviewInv, InOrder, NdaPending
<1> QED BY <1>2, <1>3, ReviewStepOrNot

\* The inductive form of ReviewsInOrder and NdaComesFirst.
LEMMA ReviewInvariant == Spec => []ReviewInv
BY ReviewInit, ReviewNext, PTL DEF Spec

\* Submissions are reviewed in order: all but the latest have been rejected,
\* and whoever has submitted has passed the pre-submit.
THEOREM ReviewsInOrder == Spec => []ReviewHistory
<1>1. ReviewInv => ReviewHistory
  BY DEF ReviewInv, InOrder, OnlyLatestOpen, ReviewHistory
<1> QED BY <1>1, ReviewInvariant, PTL

\* Nobody gets beyond PreSubmitPassed with the agreement of the project pending.
THEOREM NdaComesFirst == Spec => []NdaBeforeSubmit
<1>1. ReviewInv => NdaBeforeSubmit
  BY StatusBySubmissions DEF ReviewInv, TypeInv, InOrder, NdaBeforeSubmit
<1> QED BY <1>1, ReviewInvariant, PTL

\* Submissions are only added, by PreSubmit and Submit.
LEMMA SubmissionsStay ==
    ASSUME TypeInv, [Next]_vars, NEW q \in Puids
    PROVE  /\ DOMAIN preSubmits[q] \subseteq DOMAIN preSubmits'[q]
           /\ DOMAIN submits[q] \subseteq DOMAIN submits'[q]
           /\ Len(preSubmits'[q]) # Len(preSubmits[q]) \/ Len(submits'[q]) # Len(submits[q])
                => \/ \E skip \in BOOLEAN : PreSubmit(q, skip)
                   \/ \E include \in BOOLEAN : Submit(q, include)
<1>1. /\ preSubmits \in [Puids -> Seq(PreSubmitSet)]
      /\ submits \in [Puids -> Seq(SubmitSet)]
  BY DEF TypeInv, TypeOK, PreSubmitSet, SubmitSet
<1>2. ASSUME NEW S, NEW s \in Seq(S), NEW e \in S
      PROVE  DOMAIN s \subseteq DOMAIN Append(s, e)
  BY AppendFacts, LenProperties
<1>3. ASSUME NEW S, NEW s \in Seq(S), NEW i, NEW e
      PROVE  /\ DOMAIN [s EXCEPT ![i] = e] = DOMAIN s
             /\ Len([s EXCEPT ![i] = e]) = Len(s)
  BY LenProperties
<1>4. ASSUME NEW puid \in Puids, NEW skip \in BOOLEAN, PreSubmit(puid, skip)
      PROVE  /\ DOMAIN preSubmits[q] \subseteq DOMAIN preSubmits'[q]
             /\ q # puid => preSubmits'[q] = preSubmits[q]
             /\ submits' = submits
  <2>1. [review |-> "Unreviewed", choir |-> FALSE] \in PreSubmitSet
    BY DEF PreSubmitSet, Review
  <2> QED BY <1>1, <1>2, <1>4, <2>1 DEF PreSubmit
<1>5. ASSUME NEW puid \in Puids, NEW include \in BOOLEAN, Submit(puid, include)
      PROVE  /\ DOMAIN submits[q] \subseteq DOMAIN submits'[q]
             /\ q # puid => submits'[q] = submits[q]
             /\ preSubmits' = preSubmits
  <2>1. [review |-> "Unreviewed", group |-> NoGroup] \in SubmitSet
    BY DEF SubmitSet, Review
  <2> QED BY <1>1, <1>2, <1>5, <2>1 DEF Submit
<1>6. ASSUME NEW m \in Managers, NEW puid \in Puids, NEW j \in DOMAIN preSubmits[puid],
             NEW verdict \in Verdict, NEW choir \in BOOLEAN,
             PreSubmitReview(m, puid, j, verdict, choir)
      PROVE  /\ DOMAIN preSubmits'[q] = DOMAIN preSubmits[q]
             /\ Len(preSubmits'[q]) = Len(preSubmits[q])
             /\ submits' = submits
  BY <1>1, <1>3, <1>6 DEF PreSubmitReview
<1>7. ASSUME NEW m \in Managers, NEW puid \in Puids, NEW j \in DOMAIN submits[puid],
             NEW verdict \in Verdict, NEW checked \in CheckLists,
             SubmitReview(m, puid, j, verdict, checked)
      PROVE  /\ DOMAIN submits'[q] = DOMAIN submits[q]
             /\ Len(submits'[q]) = Len(submits[q])
             /\ preSubmits' = preSubmits
  BY <1>1, <1>3, <1>7 DEF SubmitReview
<1>8. ASSUME NEW puid \in Puids, AgreeNda(puid)
      PROVE  UNCHANGED << preSubmits, submits >>
  BY <1>8 DEF AgreeNda
<1>9. CASE UNCHANGED << preSubmits, submits, ndaAgreed >>
  BY <1>9
<1>10. ASSUME NEW puid \in Puids, ReviewStep(puid)
       PROVE  \/ UNCHANGED << preSubmits, submits >>
              \/ \E skip \in BOOLEAN : PreSubmit(puid, skip)
              \/ \E include \in BOOLEAN : Submit(puid, include)
              \/ \E m \in Managers, j \in DOMAIN preSubmits[puid], verdict \in Verdict,
                    choir \in BOOLEAN : PreSubmitReview(m, puid, j, verdict, choir)
              \/ \E m \in Managers, j \in DOMAIN submits[puid], verdict \in Verdict,
                    checked \in CheckLists : SubmitReview(m, puid, j, verdict, checked)
  BY <1>8, <1>10 DEF ReviewStep
<1> QED BY <1>4, <1>5, <1>6, <1>7, <1>9, <1>10, ReviewStepOrNot

\* No step takes a verdict back or changes it.
LEMMA VerdictsStep == TypeInv /\ [Next]_vars => VerdictsKept
<1> SUFFICES ASSUME TypeInv, [Next]_vars, NEW q \in Puids
             PROVE  /\ \A i \in DOMAIN preSubmits[q] :
                          preSubmits[q][i].review # "Unreviewed" =>
                              preSubmits'[q][i] = preSubmits[q][i]
                    /\ \A i \in DOMAIN submits[q] :
                          submits[q][i].review # "Unreviewed" =>
                              submits'[q][i] = submits[q][i]
  BY DEF VerdictsKept
<1>1. /\ preSubmits \in [Puids -> Seq(PreSubmitSet)]
      /\ submits \in [Puids -> Seq(SubmitSet)]
  BY DEF TypeInv, TypeOK, PreSubmitSet, SubmitSet
<1>2. ASSUME NEW S, NEW s \in Seq(S), NEW e \in S, NEW i \in DOMAIN s
      PROVE  Append(s, e)[i] = s[i]
  BY AppendFacts, LenProperties
<1>3. ASSUME NEW puid \in Puids, NEW skip \in BOOLEAN, PreSubmit(puid, skip)
      PROVE  /\ \A i \in DOMAIN preSubmits[q] : preSubmits'[q][i] = preSubmits[q][i]
             /\ submits' = submits
  <2>1. [review |-> "Unreviewed", choir |-> FALSE] \in PreSubmitSet
    BY DEF PreSubmitSet, Review
  <2> QED BY <1>1, <1>2, <1>3, <2>1 DEF PreSubmit
<1>4. ASSUME NEW puid \in Puids, NEW include \in BOOLEAN, Submit(puid, include)
      PROVE  /\ \A i \in DOMAIN submits[q] : submits'[q][i] = submits[q][i]
             /\ preSubmits' = preSubmits
  <2>1. [review |-> "Unreviewed", group |-> NoGroup] \in SubmitSet
    BY DEF SubmitSet, Review
  <2> QED BY <1>1, <1>2, <1>4, <2>1 DEF Submit
<1>5. ASSUME NEW m \in Managers, NEW puid \in Puids, NEW j \in DOMAIN preSubmits[puid],
             NEW verdict \in Verdict, NEW choir \in BOOLEAN,
             PreSubmitReview(m, puid, j, verdict, choir)
      PROVE  /\ \A i \in DOMAIN preSubmits[q] :
                   preSubmits[q][i].review # "Unreviewed" =>
                       preSubmits'[q][i] = preSubmits[q][i]
             /\ submits' = submits
  BY <1>1, <1>5 DEF PreSubmitReview, NotReviewed
<1>6. ASSUME NEW m \in Managers, NEW puid \in Puids, NEW j \in DOMAIN submits[puid],
             NEW verdict \in Verdict, NEW checked \in CheckLists,
             SubmitReview(m, puid, j, verdict, checked)
      PROVE  /\ \A i \in DOMAIN submits[q] :
                   submits[q][i].review # "Unreviewed" =>
                       submits'[q][i] = submits[q][i]
             /\ preSubmits' = preSubmits
  BY <1>1, <1>6 DEF SubmitReview, NotReviewed
<1>7. ASSUME NEW puid \in Puids, AgreeNda(puid)
      PROVE  UNCHANGED << preSubmits, submits >>
  BY <1>7 DEF AgreeNda
<1> QED BY <1>3, <1>4, <1>5, <1>6, <1>7, ReviewStepOrNot DEF ReviewStep

\* A verdict is final, whoever reviews again.
THEOREM VerdictsStay == Spec => VerdictsFinal
BY VerdictsStep, TypeInvariant, PTL DEF Spec, VerdictsFinal

-----------------------------------------------------------------------------
(* The lists of checked files, as long as none is empty.                   *)

\* What recruit_empty_list shows to be needed.
NoEmptyList == {} \notin CheckLists

\* The groups of the reviews have rows, so that the next id is larger than all.
GroupsHaveRows ==
    \A puid \in Puids : \A i \in DOMAIN submits[puid] :
        LET group == submits[puid][i].group
        IN  /\ group # NoGroup => \E row \in checkedFiles : row[1] = group
            /\ submits[puid][i].review = "Unreviewed" => group = NoGroup

ListInv == TypeInv /\ GroupsHaveRows

\* The list that is shown is that of a group that has rows.
LEMMA LatestGroup ==
    ASSUME ListInv, NEW puid \in Puids
    PROVE  /\ \A g \in GroupIds(puid) : g \in Nat /\ g < NextGroupId
           /\ IsFiniteSet(GroupIds(puid))
           /\ GroupIds(puid) # {} => Max(GroupIds(puid)) \in GroupIds(puid)
<1>1. /\ submits[puid] \in Seq(SubmitSet) /\ NextGroupId \in Nat
      /\ \A row \in checkedFiles : row[1] < NextGroupId
  BY NextGroupIdType DEF ListInv, TypeInv, TypeOK, SubmitSet
<1>2. ASSUME NEW g \in GroupIds(puid) PROVE g \in Nat /\ g < NextGroupId
  <2>1. PICK i \in DOMAIN submits[puid] : g = submits[puid][i].group /\ g # NoGroup
    BY <1>2 DEF GroupIds
  <2>2. submits[puid][i] \in SubmitSet
    BY <1>1
  <2>3. PICK row \in checkedFiles : row[1] = g
    BY <2>1 DEF ListInv, GroupsHaveRows
  <2> QED BY <1>1, <2>1, <2>2, <2>3 DEF SubmitSet
<1>3. GroupIds(puid) \in SUBSET Nat /\ \A g \in GroupIds(puid) : g <= NextGroupId
  BY <1>1, <1>2
<1>4. IsFiniteSet(GroupIds(puid))
  BY <1>1, <1>3, FS_BoundedSetOfNaturals
<1>5. GroupIds(puid) # {} => Max(GroupIds(puid)) \in GroupIds(puid)
  BY <1>3, <1>4, MaxOfNat
<1> QED BY <1>2, <1>4, <1>5

\* A list gets a group unless there is none or it is the one there is.
IsNewList(puid, checked) == checked # NoCheck /\ checked # CheckedList(puid)
GroupFor(puid, checked)  == IF IsNewList(puid, checked) THEN NextGroupId ELSE NoGroup
RowsFor(puid, checked)   ==
    IF IsNewList(puid, checked) THEN {GroupFor(puid, checked)} \X checked ELSE {}

\* What a review does to the groups and lists.
LEMMA ReviewGroups ==
    ASSUME ListInv, NEW m, NEW puid \in Puids, NEW i \in DOMAIN submits[puid],
           NEW verdict \in Verdict, NEW checked \in CheckLists,
           SubmitReview(m, puid, i, verdict, checked)
    PROVE  /\ submits'[puid] = [submits[puid] EXCEPT
                  ![i] = [review |-> verdict, group |-> GroupFor(puid, checked)]]
           /\ \A q \in Puids \ {puid} : submits'[q] = submits[q]
           /\ checkedFiles' = checkedFiles \cup RowsFor(puid, checked)
           /\ GroupIds(puid)' = GroupIds(puid) \cup
                  (IF IsNewList(puid, checked) THEN {GroupFor(puid, checked)} ELSE {})
<1> DEFINE isNew == IsNewList(puid, checked)
           group == GroupFor(puid, checked)
<1>1. submits \in [Puids -> Seq(SubmitSet)]
  BY DEF ListInv, TypeInv, TypeOK, SubmitSet
<1>2. submits[puid][i].group = NoGroup
  BY DEF ListInv, GroupsHaveRows, SubmitReview, NotReviewed
<1>3. /\ submits' = [submits EXCEPT ![puid] =
                         [@ EXCEPT ![i] = [review |-> verdict, group |-> group]]]
      /\ checkedFiles' = checkedFiles \cup RowsFor(puid, checked)
  BY DEF SubmitReview, IsNewList, GroupFor, RowsFor
<1>4. isNew => group # NoGroup
  BY NextGroupIdType, ConstantsAssumption DEF ListInv, TypeInv, TypeOK, GroupFor
<1>5. ~isNew => group = NoGroup
  BY DEF GroupFor
<1> HIDE DEF group, isNew
<1>6. /\ submits'[puid] =
             [submits[puid] EXCEPT ![i] = [review |-> verdict, group |-> group]]
      /\ \A q \in Puids \ {puid} : submits'[q] = submits[q]
  BY <1>1, <1>3
<1>7. DOMAIN submits'[puid] = DOMAIN submits[puid]
      /\ \A j \in DOMAIN submits[puid] :
            submits'[puid][j].group = IF j = i THEN group ELSE submits[puid][j].group
  BY <1>1, <1>6
<1>8. GroupIds(puid)' = GroupIds(puid) \cup (IF isNew THEN {group} ELSE {})
  BY <1>2, <1>4, <1>5, <1>7 DEF GroupIds
<1> QED BY <1>3, <1>6, <1>8 DEF group, isNew

\* The rows of the groups there were are left alone.
LEMMA GroupsApart ==
    ASSUME ListInv, NEW checked, NEW q \in Puids, submits'[q] = submits[q],
           \/ checkedFiles' = checkedFiles
           \/ checkedFiles' = checkedFiles \cup ({NextGroupId} \X checked)
    PROVE  CheckedList(q)' = CheckedList(q)
<1>1. GroupIds(q)' = GroupIds(q)
  BY DEF GroupIds
<1>2. ASSUME NEW g \in GroupIds(q) PROVE FilesOfGroup(g)' = FilesOfGroup(g)
  <2>1. g \in Nat /\ g < NextGroupId /\ NextGroupId \in Nat
    BY <1>2, LatestGroup, NextGroupIdType DEF ListInv, TypeInv, TypeOK
  <2> QED BY <2>1 DEF FilesOfGroup
<1> QED BY <1>1, <1>2, LatestGroup DEF CheckedList

\* A review sets the list it carries.
LEMMA ReviewSetsList ==
    ASSUME ListInv, NEW m, NEW puid \in Puids, NEW i \in DOMAIN submits[puid],
           NEW verdict \in Verdict, NEW checked \in CheckLists,
           SubmitReview(m, puid, i, verdict, checked)
    PROVE  CheckedList(puid)' = IF checked = NoCheck THEN CheckedList(puid) ELSE checked
<1> DEFINE g == NextGroupId
<1>1. CASE ~IsNewList(puid, checked)
  <2>1. GroupIds(puid)' = GroupIds(puid) /\ checkedFiles' = checkedFiles
    BY <1>1, ReviewGroups DEF RowsFor
  <2>2. CheckedList(puid)' = CheckedList(puid)
    BY <2>1 DEF CheckedList, FilesOfGroup
  <2> QED BY <1>1, <2>2 DEF IsNewList
<1>2. CASE IsNewList(puid, checked)
  <2>1. /\ GroupIds(puid)' = GroupIds(puid) \cup {g}
        /\ checkedFiles' = checkedFiles \cup ({g} \X checked)
    BY <1>2, ReviewGroups DEF RowsFor, GroupFor
  <2>2. /\ g \in Nat /\ \A row \in checkedFiles : row[1] \in Nat /\ row[1] < g
    BY NextGroupIdType DEF ListInv, TypeInv, TypeOK
  <2>3. Max(GroupIds(puid) \cup {g}) = g
    <3> DEFINE S == GroupIds(puid) \cup {g}
    <3>1. S \in SUBSET Nat /\ g \in S /\ \A n \in S : n <= g
      BY <2>2, LatestGroup
    <3>2. IsFiniteSet(S)
      BY LatestGroup, FS_AddElement
    <3> HIDE DEF S
    <3>3. Max(S) \in S /\ \A n \in S : n <= Max(S)
      BY <3>1, <3>2, MaxOfNat
    <3>4. Max(S) \in Nat /\ Max(S) <= g /\ g <= Max(S)
      BY <3>1, <3>3
    <3> QED BY <2>2, <3>4 DEF S
  <2> HIDE DEF g
  <2>4. CheckedList(puid)' = {row[2] : row \in {r \in checkedFiles' : r[1] = g}}
    BY <2>1, <2>3 DEF CheckedList, FilesOfGroup
  <2>5. {r \in checkedFiles' : r[1] = g} = {g} \X checked
    BY <2>1, <2>2
  <2>6. {row[2] : row \in {g} \X checked} = checked
    <3>1. \A c \in checked : << g, c >> \in {g} \X checked /\ << g, c >>[2] = c
      OBVIOUS
    <3> QED BY <3>1
  <2> QED BY <1>2, <2>4, <2>5, <2>6 DEF IsNewList
<1> QED BY <1>1, <1>2

\* Every step that reviews no submit leaves the lists and groups alone.
LEMMA OtherSteps ==
    ASSUME TypeInv, [Next]_vars
    PROVE  \/ \E m \in Managers, puid \in Puids :
                 \E i \in DOMAIN submits[puid], verdict \in Verdict, checked \in CheckLists :
                     SubmitReview(m, puid, i, verdict, checked)
           \/ /\ checkedFiles' = checkedFiles
              /\ \/ submits' = submits
                 \/ \E puid \in Puids :
                       submits' = [submits EXCEPT ![puid] =
                           Append(@, [review |-> "Unreviewed", group |-> NoGroup])]
<1>1. CASE UserStep
  BY <1>1 DEF UserStep, JoinProject, UserUploadStart, PreSubmit, AgreeNda, Submit, reviewVars
<1>2. CASE ManagerStep
  <2>1. ASSUME NEW m \in Managers, NEW puid \in Puids,
               \/ \E i \in DOMAIN preSubmits[puid], verdict \in Verdict, choir \in BOOLEAN :
                      PreSubmitReview(m, puid, i, verdict, choir)
               \/ \E md5 \in Md5s, size \in Sizes : ManagerUploadStart(m, puid, md5, size)
               \/ Master(m, puid)
        PROVE  UNCHANGED << checkedFiles, submits >>
    BY <2>1 DEF PreSubmitReview, ManagerUploadStart, Master, reviewVars
  <2> QED BY <1>2, <2>1 DEF ManagerStep
<1>3. CASE FileStep \/ BundleStep \/ AccessStep \/ OutsideStep \/ UNCHANGED vars
  BY <1>3 DEF FileStep, BundleStep, AccessStep, OutsideStep, UploadContinue, UploadFinish,
              DeleteFile, MarkMixed, ProjectManagerEdit, ProjectEnds, PutObject, UrlExpires,
              vars, reviewVars
<1> QED BY <1>1, <1>2, <1>3 DEF Next

\* Every step keeps the invariant.
LEMMA ListNext ==
    ASSUME NoEmptyList, ListInv, [Next]_vars
    PROVE  ListInv'
<1>1. TypeInv' /\ TypeInv /\ submits \in [Puids -> Seq(SubmitSet)]
  BY TypeStep DEF ListInv, TypeInv, TypeOK, SubmitSet
<1>2. ASSUME NEW m \in Managers, NEW puid \in Puids, NEW verdict \in Verdict,
             NEW checked \in CheckLists, NEW i \in DOMAIN submits[puid],
             SubmitReview(m, puid, i, verdict, checked)
      PROVE  GroupsHaveRows'
  <2> DEFINE group == GroupFor(puid, checked)
  <2>1. /\ submits'[puid] =
               [submits[puid] EXCEPT ![i] = [review |-> verdict, group |-> group]]
        /\ \A q \in Puids \ {puid} : submits'[q] = submits[q]
        /\ checkedFiles' = checkedFiles \cup RowsFor(puid, checked)
    BY <1>2, ReviewGroups
  <2>2. PICK c \in checked : TRUE
    BY DEF NoEmptyList
  <2>3. group # NoGroup => \E row \in checkedFiles' : row[1] = group
    <3>1. group # NoGroup => << group, c >> \in checkedFiles' /\ << group, c >>[1] = group
      BY <2>1, <2>2 DEF GroupFor, RowsFor
    <3> QED BY <3>1
  <2>4. verdict # "Unreviewed"
    BY DEF Verdict
  <2> HIDE DEF group
  <2>5. \A j \in DOMAIN submits'[puid] :
           /\ j \in DOMAIN submits[puid]
           /\ submits'[puid][j] = IF j = i THEN [review |-> verdict, group |-> group]
                                  ELSE submits[puid][j]
    BY <1>1, <2>1
  <2>6. checkedFiles \subseteq checkedFiles'
    BY <2>1
  <2> QED BY <2>1, <2>3, <2>4, <2>5, <2>6 DEF ListInv, GroupsHaveRows
<1>3. ASSUME checkedFiles' = checkedFiles, NEW puid \in Puids,
             submits' = [submits EXCEPT ![puid] =
                             Append(@, [review |-> "Unreviewed", group |-> NoGroup])]
      PROVE  GroupsHaveRows'
  <2> DEFINE new == [review |-> "Unreviewed", group |-> NoGroup]
  <2>1. new \in SubmitSet /\ submits[puid] \in Seq(SubmitSet)
    BY <1>1 DEF SubmitSet, Review
  <2>2. new.review = "Unreviewed" /\ new.group = NoGroup
    OBVIOUS
  <2> HIDE DEF new
  <2>3. \A q \in Puids : submits'[q] = IF q = puid THEN Append(submits[puid], new) ELSE submits[q]
    BY <1>1, <1>3 DEF new
  <2>4. \A i \in DOMAIN Append(submits[puid], new) :
           \/ i \in DOMAIN submits[puid] /\ Append(submits[puid], new)[i] = submits[puid][i]
           \/ Append(submits[puid], new)[i] = new
    BY <2>1, AppendFacts, LenProperties
  <2> QED BY <1>3, <2>2, <2>3, <2>4 DEF ListInv, GroupsHaveRows
<1>4. CASE UNCHANGED << checkedFiles, submits >>
  BY <1>1, <1>4 DEF ListInv, GroupsHaveRows
<1> QED BY <1>1, <1>2, <1>3, <1>4, OtherSteps DEF ListInv

\* The checked lists keep their shape in every state.
LEMMA ListInvariant ==
    ASSUME NoEmptyList
    PROVE  Spec => []ListInv
<1>1. Init => ListInv
  BY TypeInit DEF Init, ListInv, GroupsHaveRows
<1>2. ListInv /\ [Next]_vars => ListInv'
  BY ListNext
<1> QED BY <1>1, <1>2, PTL DEF Spec

\* Without empty lists, the review of one project user never changes the checked
\* files of another.
THEOREM ListsApart ==
    ASSUME NoEmptyList
    PROVE  Spec => CheckedListsApart
<1> DEFINE Apart == \A puid \in Puids :
          submits'[puid] = submits[puid] => CheckedList(puid)' = CheckedList(puid)
<1>1. ListInv /\ [Next]_vars => Apart
  <2> SUFFICES ASSUME ListInv, [Next]_vars, NEW q \in Puids, submits'[q] = submits[q]
               PROVE  CheckedList(q)' = CheckedList(q)
    OBVIOUS
  <2>1. ASSUME NEW m \in Managers, NEW p \in Puids, NEW verdict \in Verdict,
               NEW checked \in CheckLists, NEW i \in DOMAIN submits[p],
               SubmitReview(m, p, i, verdict, checked)
        PROVE  CheckedList(q)' = CheckedList(q)
    <3>1. \/ checkedFiles' = checkedFiles
          \/ checkedFiles' = checkedFiles \cup ({NextGroupId} \X checked)
      BY <2>1, ReviewGroups DEF RowsFor, GroupFor
    <3> QED BY <3>1, GroupsApart
  <2>2. CASE checkedFiles' = checkedFiles
    BY <2>2, GroupsApart
  <2> QED BY <2>1, <2>2, OtherSteps DEF ListInv
<1>2. CheckedListsApart <=> [][Apart]_vars
  BY DEF CheckedListsApart
<1> QED BY <1>1, <1>2, ListInvariant, PTL DEF Spec

\* Without empty lists, a review leaves exactly the list it carries.
THEOREM ReviewsSetLists ==
    ASSUME NoEmptyList
    PROVE  Spec => ReviewSetsCheckedList
<1> DEFINE Sets ==
        \A m \in Managers, puid \in Puids, checked \in CheckLists :
          \A i \in DOMAIN submits[puid], verdict \in Verdict :
              SubmitReview(m, puid, i, verdict, checked) =>
                  CheckedList(puid)' =
                      IF checked = NoCheck THEN CheckedList(puid) ELSE checked
<1>1. ListInv => Sets
  BY ReviewSetsList
<1>2. ReviewSetsCheckedList <=> [][Sets]_vars
  BY DEF ReviewSetsCheckedList
<1> QED BY <1>1, <1>2, ListInvariant, PTL
==============================================================================
