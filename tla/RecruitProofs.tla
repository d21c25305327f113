----------------------------- MODULE RecruitProofs ---------------------------
(***************************************************************************)
(* Proofs about Recruit, for any number of users, projects, managers and    *)
(* files and any limits: maxima and sums of finite sets, the shape of the   *)
(* tables, and the capacity.                                                *)
(***************************************************************************)
EXTENDS RecruitProps, FiniteSetTheorems, SequenceTheorems, TLAPS

-----------------------------------------------------------------------------
(* Lemmas about the helpers.                                               *)

\* The ids over which the backend takes a MAX have one.
LEMMA MaxOfNat ==
    ASSUME NEW S \in SUBSET Nat, IsFiniteSet(S), S # {}
    PROVE  Max(S) \in S /\ \A n \in S : n <= Max(S)
<1> DEFINE HasMax(T) == \E x \in T : \A y \in T : x >= y
           Bad == {T \in FiniteSubsetsOf(Nat) : T # {} /\ ~HasMax(T)}
           Less == StrictSubsetOrdering(Nat)
<1>1. Bad = {}
  <2> SUFFICES ASSUME Bad # {} PROVE FALSE
    OBVIOUS
  <2>1. IsWellFoundedOn(Less, FiniteSubsetsOf(Nat))
    BY FS_StrictSubsetOrderingWellFounded
  <2>2. PICK T \in Bad : \A U \in Bad : ~(<< U, T >> \in Less)
    <3> HIDE DEF HasMax
    <3>1. Bad \subseteq FiniteSubsetsOf(Nat)
      OBVIOUS
    <3> HIDE DEF Bad, Less
    <3> QED BY <2>1, <3>1, WFMin
  <2>3. PICK x \in T : TRUE
    OBVIOUS
  <2> DEFINE U == T \ {x}
  <2>4. T \subseteq Nat /\ IsFiniteSet(T) /\ ~HasMax(T)
    BY DEF FiniteSubsetsOf
  <2>5. U \in FiniteSubsetsOf(Nat)
    BY <2>4, FS_RemoveElement DEF FiniteSubsetsOf
  <2>6. << U, T >> \in Less
    BY <2>3, <2>4 DEF StrictSubsetOrdering
  <2>7. U = {} \/ HasMax(U)
    BY <2>2, <2>5, <2>6
  <2>8. CASE U = {}
    <3>1. \A y \in T : x >= y
      BY <2>3, <2>4, <2>8
    <3> QED BY <2>3, <2>4, <3>1
  <2>9. CASE HasMax(U)
    <3>1. PICK z \in U : \A y \in U : z >= y
      BY <2>9
    <3>2. CASE x >= z
      <4>1. \A y \in T : x >= y
        BY <2>3, <2>4, <3>1, <3>2
      <4> QED BY <2>3, <2>4, <4>1
    <3>3. CASE z >= x
      <4>1. \A y \in T : z >= y
        BY <2>3, <2>4, <3>1, <3>3
      <4> QED BY <2>4, <3>1, <4>1
    <3>4. x >= z \/ z >= x
      BY <2>3, <2>4, <3>1
    <3> QED BY <3>2, <3>3, <3>4
  <2> QED BY <2>7, <2>8, <2>9
<1>2. S \in FiniteSubsetsOf(Nat)
  BY DEF FiniteSubsetsOf
<1>3. \E x \in S : \A y \in S : x >= y
  BY <1>1, <1>2
<1>4. Max(S) \in S /\ \A y \in S : Max(S) >= y
  BY <1>3 DEF Max
<1> QED BY <1>4

\* What Append does to length, domain and elements.
LEMMA AppendFacts ==
    ASSUME NEW S, NEW s \in Seq(S), NEW e \in S
    PROVE  /\ Append(s, e) \in Seq(S)
           /\ Len(Append(s, e)) = Len(s) + 1
           /\ DOMAIN Append(s, e) = 1 .. Len(s) + 1
           /\ \A i \in 1 .. Len(s) : Append(s, e)[i] = s[i]
           /\ Append(s, e)[Len(s) + 1] = e
OBVIOUS

\* File ids are the positions of the rows.
LEMMA FileIdsOf ==
    ASSUME files \in Seq(FileRow)
    PROVE  /\ FileIds = 1 .. Len(files)
           /\ \A f \in FileIds : files[f] \in FileRow
BY DEF FileIds

\* The key of a row is one of the keys there can be.
LEMMA KeyOfType == \A row \in FileRow : KeyOf(row) \in S3Keys
BY DEF KeyOf, S3Keys, FileRow

\* Starting an upload adds a row and leaves the others as they are.
LEMMA InsertFileProperties ==
    ASSUME files \in Seq(FileRow), urls \subseteq S3Keys,
           NEW row \in FileRow, InsertFile(row)
    PROVE  /\ files' \in Seq(FileRow)
           /\ FileIds' = FileIds \cup {Len(files) + 1}
           /\ \A f \in FileIds : files'[f] = files[f]
           /\ urls' \subseteq S3Keys
BY AppendFacts, FileIdsOf, KeyOfType DEF InsertFile, FileIds

\* What the lists of checked files need: group ids are numbers.
LEMMA NextGroupIdType ==
    ASSUME checkedFiles \subseteq Nat \X Nat, IsFiniteSet(checkedFiles)
    PROVE  /\ NextGroupId \in Nat
           /\ \A row \in checkedFiles : row[1] < NextGroupId
<1> DEFINE Id(row) == row[1]
           Ids == {Id(row) : row \in checkedFiles}
<1>1. Ids \cup {0} \in SUBSET Nat /\ Ids \cup {0} # {}
  OBVIOUS
<1>2. IsFiniteSet(Ids)
  <2>1. [row \in checkedFiles |-> row[1]] \in Surjection(checkedFiles, Ids)
    BY DEF Surjection
  <2> HIDE DEF Ids
  <2> QED BY <2>1, FS_Surjection
<1>3. IsFiniteSet(Ids \cup {0})
  <2> HIDE DEF Ids
  <2> QED BY <1>2, FS_AddElement
<1> DEFINE max == Max(Ids \cup {0})
<1>4. max \in Ids \cup {0} /\ \A n \in Ids \cup {0} : n <= max
  <2> HIDE DEF Ids
  <2> QED BY <1>1, <1>3, MaxOfNat
<1>5. NextGroupId = max + 1
  BY DEF NextGroupId
<1>6. max \in Nat
  <2> HIDE DEF max
  <2> QED BY <1>1, <1>4
<1>7. \A row \in checkedFiles : row[1] \in Nat /\ row[1] <= max
  <2> HIDE DEF max
  <2> QED BY <1>4
<1> HIDE DEF max
<1> QED BY <1>5, <1>6, <1>7

-----------------------------------------------------------------------------
(* Types.  The group id of a new list is one more than the largest so far,  *)
(* which is a number only because the rows are finitely many.               *)

TypeInv == TypeOK /\ IsFiniteSet(checkedFiles)

\* The empty tables are of their shape.
LEMMA TypeInit == Init => TypeInv
<1> SUFFICES ASSUME Init PROVE TypeInv
  OBVIOUS
<1>1. TypeOK
  BY DEF Init, TypeOK, FileIds
<1> QED BY <1>1, FS_EmptySet DEF Init, TypeInv

\* Adding a submission, and recording the review of one.
LEMMA SubmissionTypes ==
    ASSUME NEW R, NEW table \in [Puids -> Seq(R)], NEW puid \in Puids, NEW r \in R
    PROVE  /\ [table EXCEPT ![puid] = Append(@, r)] \in [Puids -> Seq(R)]
           /\ \A i \in DOMAIN table[puid] :
                 [table EXCEPT ![puid] = [@ EXCEPT ![i] = r]] \in [Puids -> Seq(R)]
<1>1. table[puid] \in Seq(R)
  OBVIOUS
<1>2. Append(table[puid], r) \in Seq(R)
  BY <1>1
<1>3. \A i \in DOMAIN table[puid] : [table[puid] EXCEPT ![i] = r] \in Seq(R)
  BY <1>1, ExceptSeq
<1> QED BY <1>2, <1>3

\* Every step keeps the shape of the tables.
LEMMA TypeStep == TypeInv /\ [Next]_vars => TypeInv'
<1> SUFFICES ASSUME TypeInv, [Next]_vars PROVE TypeInv'
  OBVIOUS
<1> USE DEF TypeInv
<1>fin. checkedFiles' = checkedFiles => IsFiniteSet(checkedFiles')
  OBVIOUS
<1>nat. \A puid \in Puids : /\ Len(preSubmits[puid]) \in Nat
                              /\ Len(submits[puid]) \in Nat
  BY DEF TypeOK
<1>1. ASSUME NEW puid \in Puids, JoinProject(puid) PROVE TypeInv'
  BY <1>1, <1>fin DEF TypeOK, FileIds, JoinProject, fileVars, s3Vars, reviewVars
<1>2. ASSUME NEW puid \in Puids, NEW md5 \in Md5s, NEW size \in Sizes,
             UserUploadStart(puid, md5, size)
      PROVE  TypeInv'
  <2> DEFINE row == [project |-> puid[1], user |-> puid[2], manager |-> NoManager,
                     stage |-> StageOfPuid(puid), md5 |-> md5, size |-> size]
  <2>1. row \in FileRow /\ InsertFile(row)
    BY <1>2 DEF UserUploadStart, FileRow, Stage, Puids
  <2>2. /\ files' \in Seq(FileRow) /\ FileIds \subseteq FileIds'
        /\ urls' \subseteq S3Keys
    <3> HIDE DEF row
    <3> QED BY <2>1, InsertFileProperties DEF TypeOK
  <2> QED BY <1>2, <1>fin, <2>2 DEF TypeOK, UserUploadStart, placeVars, reviewVars
<1>3. ASSUME NEW puid \in Puids, NEW skip \in BOOLEAN, PreSubmit(puid, skip)
      PROVE  TypeInv'
  <2> DEFINE pending == PendingOf(puid[1], puid[2], NoManager, "PreSubmit")
             new == [review |-> "Unreviewed", choir |-> FALSE]
  <2>1. pending \subseteq FileIds
    BY DEF PendingOf, FilesOf
  <2>2. fileInfos' \subseteq [file : FileIds, type : Stage, target : Puids \X Nat]
    BY <1>3, <1>nat, <2>1 DEF PreSubmit, UseFiles, TypeOK, Stage
  <2>3. preSubmits' \in [Puids -> Seq([review : Review, choir : BOOLEAN])]
    <3>1. new \in [review : Review, choir : BOOLEAN]
      BY DEF Review
    <3>2. preSubmits' = [preSubmits EXCEPT ![puid] = Append(@, new)]
      BY <1>3 DEF PreSubmit
    <3> HIDE DEF new
    <3> QED BY <3>1, <3>2, SubmissionTypes DEF TypeOK
  <2> QED BY <1>3, <1>fin, <2>2, <2>3
          DEF TypeOK, FileIds, PreSubmit, placeVars, s3Vars
<1>4. ASSUME NEW puid \in Puids, AgreeNda(puid) PROVE TypeInv'
  BY <1>4, <1>fin DEF TypeOK, FileIds, AgreeNda, placeVars, fileVars, s3Vars
<1>5. ASSUME NEW puid \in Puids, NEW include \in BOOLEAN, Submit(puid, include)
      PROVE  TypeInv'
  <2> DEFINE used == PendingOf(puid[1], puid[2], NoManager, "Submit")
                       \cup IF include THEN PreSubmitFileForSubmit(puid) ELSE {}
             new == [review |-> "Unreviewed", group |-> NoGroup]
  <2>1. used \subseteq FileIds
    BY DEF PendingOf, FilesOf, PreSubmitFileForSubmit
  <2>2. fileInfos' \subseteq [file : FileIds, type : Stage, target : Puids \X Nat]
    BY <1>5, <1>nat, <2>1 DEF Submit, UseFiles, TypeOK, Stage
  <2>3. submits' \in [Puids -> Seq([review : Review, group : Nat \cup {NoGroup}])]
    <3>1. new \in [review : Review, group : Nat \cup {NoGroup}]
      BY DEF Review
    <3>2. submits' = [submits EXCEPT ![puid] = Append(@, new)]
      BY <1>5 DEF Submit
    <3> HIDE DEF new
    <3> QED BY <3>1, <3>2, SubmissionTypes DEF TypeOK
  <2> QED BY <1>5, <1>fin, <2>2, <2>3
          DEF TypeOK, FileIds, Submit, placeVars, s3Vars
<1>6. ASSUME NEW f \in FileIds, UploadContinue(f) PROVE TypeInv'
  <2>1. KeyOf(files[f]) \in S3Keys
    BY FileIdsOf, KeyOfType DEF TypeOK
  <2> QED BY <1>6, <1>fin, <2>1
          DEF TypeOK, FileIds, UploadContinue, placeVars, fileVars, reviewVars
<1>7. ASSUME NEW f \in FileIds, UploadFinish(f) PROVE TypeInv'
  BY <1>7, <1>fin DEF TypeOK, FileIds, UploadFinish, placeVars, s3Vars, reviewVars
<1>8. ASSUME NEW f \in FileIds, DeleteFile(f) PROVE TypeInv'
  BY <1>8, <1>fin DEF TypeOK, FileIds, DeleteFile, placeVars, s3Vars, reviewVars
<1>9. ASSUME NEW m \in Managers, NEW puid \in Puids, NEW i \in DOMAIN preSubmits[puid],
             NEW verdict \in Verdict, NEW choir \in BOOLEAN,
             PreSubmitReview(m, puid, i, verdict, choir)
      PROVE  TypeInv'
  <2> DEFINE new == [review |-> verdict, choir |-> choir]
  <2>1. preSubmits' \in [Puids -> Seq([review : Review, choir : BOOLEAN])]
    <3>1. new \in [review : Review, choir : BOOLEAN]
      BY DEF Review
    <3>2. preSubmits' = [preSubmits EXCEPT ![puid] = [@ EXCEPT ![i] = new]]
      BY <1>9 DEF PreSubmitReview
    <3> HIDE DEF new
    <3> QED BY <3>1, <3>2, SubmissionTypes DEF TypeOK
  <2> QED BY <1>9, <1>fin, <2>1
          DEF TypeOK, FileIds, PreSubmitReview, placeVars, fileVars, s3Vars
<1>10. ASSUME NEW m \in Managers, NEW puid \in Puids, NEW i \in DOMAIN submits[puid],
              NEW verdict \in Verdict, NEW checked \in CheckLists,
              SubmitReview(m, puid, i, verdict, checked)
       PROVE  TypeInv'
  <2> DEFINE newGroup == checked # NoCheck /\ checked # CheckedList(puid)
             group == IF newGroup THEN NextGroupId ELSE NoGroup
             new == [review |-> verdict, group |-> group]
             rows == IF newGroup THEN {group} \X checked ELSE {}
  <2>1. NextGroupId \in Nat
    BY NextGroupIdType DEF TypeOK
  <2>2. group \in Nat \cup {NoGroup}
    BY <2>1
  <2>3. submits' \in [Puids -> Seq([review : Review, group : Nat \cup {NoGroup}])]
    <3>1. new \in [review : Review, group : Nat \cup {NoGroup}]
      BY <2>2 DEF Review
    <3>2. submits' = [submits EXCEPT ![puid] = [@ EXCEPT ![i] = new]]
      BY <1>10 DEF SubmitReview
    <3> HIDE DEF new
    <3> QED BY <3>1, <3>2, SubmissionTypes DEF TypeOK
  <2>4. rows \subseteq Nat \X Nat /\ IsFiniteSet(rows)
    <3>1. CASE newGroup
      <4>1. checked \subseteq Nat /\ IsFiniteSet(checked)
        BY <3>1, ConstantsAssumption
      <4>2. rows = {group} \X checked /\ group \in Nat
        BY <3>1, <2>1
      <4> HIDE DEF group, rows
      <4>3. [n \in checked |-> << group, n >>] \in Surjection(checked, rows)
        BY <4>2 DEF Surjection
      <4>4. IsFiniteSet(rows)
        BY <4>1, <4>3, FS_Surjection
      <4> QED BY <4>1, <4>2, <4>4
    <3>2. CASE ~newGroup
      BY <3>2, FS_EmptySet
    <3> QED BY <3>1, <3>2
  <2>5. checkedFiles' = checkedFiles \cup rows
    BY <1>10 DEF SubmitReview
  <2> HIDE DEF rows
  <2>6. checkedFiles' \subseteq Nat \X Nat /\ IsFiniteSet(checkedFiles')
    BY <2>4, <2>5, FS_Union DEF TypeOK
  <2> QED BY <1>10, <2>3, <2>6
          DEF TypeOK, FileIds, SubmitReview, placeVars, fileVars, s3Vars
<1>11. ASSUME NEW m \in Managers, NEW puid \in Puids, NEW md5 \in Md5s,
              NEW size \in Sizes, ManagerUploadStart(m, puid, md5, size)
       PROVE  TypeInv'
  <2> DEFINE row == [project |-> puid[1], user |-> puid[2], manager |-> m,
                     stage |-> "Master", md5 |-> md5, size |-> size]
  <2>1. row \in FileRow /\ InsertFile(row)
    BY <1>11 DEF ManagerUploadStart, FileRow, Stage, Puids
  <2>2. /\ files' \in Seq(FileRow) /\ FileIds \subseteq FileIds'
        /\ urls' \subseteq S3Keys
    <3> HIDE DEF row
    <3> QED BY <2>1, InsertFileProperties DEF TypeOK
  <2> QED BY <1>11, <1>fin, <2>2 DEF TypeOK, ManagerUploadStart, placeVars, reviewVars
<1>12. ASSUME NEW m \in Managers, NEW puid \in Puids, Master(m, puid) PROVE TypeInv'
  <2>1. PendingOf(puid[1], puid[2], m, "Master") \subseteq FileIds
    BY DEF PendingOf, FilesOf
  <2>2. fileInfos' \subseteq [file : FileIds, type : Stage, target : Puids \X Nat]
    BY <1>12, <2>1 DEF Master, UseFiles, TypeOK, Stage
  <2>3. masters' \subseteq Puids \X Managers
    BY <1>12 DEF Master, TypeOK
  <2> QED BY <1>12, <1>fin, <2>2, <2>3 DEF TypeOK, FileIds, Master, placeVars, s3Vars
<1>13. ASSUME NEW puids \in SUBSET Puids, MarkMixed(puids) PROVE TypeInv'
  BY <1>13, <1>fin DEF TypeOK, FileIds, MarkMixed, placeVars, fileVars, s3Vars
<1>14. ASSUME NEW m \in Managers, NEW p \in Projects, NEW revoke \in BOOLEAN,
              ProjectManagerEdit(m, p, revoke)
       PROVE  TypeInv'
  <2>1. access' \subseteq Projects \X Managers
    BY <1>14 DEF ProjectManagerEdit, TypeOK
  <2> QED BY <1>14, <1>fin, <2>1
          DEF TypeOK, FileIds, ProjectManagerEdit, fileVars, s3Vars, reviewVars
<1>15. ASSUME NEW p \in Projects, ProjectEnds(p) PROVE TypeInv'
  BY <1>15, <1>fin DEF TypeOK, FileIds, ProjectEnds, fileVars, s3Vars, reviewVars
<1>16. ASSUME NEW key \in urls, PutObject(key) \/ UrlExpires(key) PROVE TypeInv'
  BY <1>16, <1>fin
     DEF TypeOK, FileIds, PutObject, UrlExpires, placeVars, fileVars, reviewVars
<1>17. CASE UNCHANGED vars
  BY <1>17, <1>fin
     DEF TypeOK, FileIds, vars, placeVars, fileVars, s3Vars, reviewVars
<1> QED BY <1>1, <1>2, <1>3, <1>4, <1>5, <1>6, <1>7, <1>8, <1>9, <1>10, <1>11,
           <1>12, <1>13, <1>14, <1>15, <1>16, <1>17
        DEF Next, UserStep, FileStep, ManagerStep, BundleStep, AccessStep, OutsideStep

\* The tables only ever hold rows of their shape, whatever the handlers do.
THEOREM TypeCorrect == Spec => []TypeOK
<1>1. TypeInv => TypeOK
  BY DEF TypeInv
<1> QED BY TypeInit, TypeStep, <1>1, PTL DEF Spec

\* The inductive form of TypeCorrect.
LEMMA TypeInvariant == Spec => []TypeInv
BY TypeInit, TypeStep, PTL DEF Spec

-----------------------------------------------------------------------------
(* Sums.  The size of the unused files is a fold over a set, a recursive    *)
(* function chosen anew for every set; what holds of it for every finite    *)
(* set is shown from a smallest set for which it does not hold.             *)

Pick(T) == CHOOSE x \in T : TRUE

\* g sums up the sizes of the rows in every subset of T.
Sums(g, rows, T) ==
    g = [U \in SUBSET T |->
            IF U = {} THEN 0 ELSE rows[Pick(U)].size + g[U \ {Pick(U)}]]

SumsOf(rows, T) == CHOOSE g : Sums(g, rows, T)
SizeOf(rows, T) == SumsOf(rows, T)[T]

\* The fold of the library is such a sum.
LEMMA FoldIsSize ==
    ASSUME NEW rows, NEW T
    PROVE  LET size(f) == rows[f].size IN MapThenSumSet(size, T) = SizeOf(rows, T)
<1> DEFINE g == CHOOSE g : g = [U \in SUBSET T |->
                   IF U = {} THEN 0
                   ELSE rows[CHOOSE x \in U : TRUE].size + g[U \ {CHOOSE x \in U : TRUE}]]
<1>1. g = SumsOf(rows, T)
  BY Zenon DEF SumsOf, Sums, Pick
<1>2. LET size(f) == rows[f].size IN MapThenSumSet(size, T) = g[T]
  BY Zenon DEF MapThenSumSet, MapThenFoldSet
<1> QED BY <1>1, <1>2 DEF SizeOf

\* Among the finite subsets of T with a property, if any, is a smallest.
LEMMA SmallestSet ==
    ASSUME NEW T, NEW Bad, Bad \subseteq FiniteSubsetsOf(T), Bad # {}
    PROVE  \E S \in Bad : \A U : U \subseteq S /\ U # S => U \notin Bad
<1> DEFINE Less == StrictSubsetOrdering(T)
<1>1. IsWellFoundedOn(Less, FiniteSubsetsOf(T))
  BY FS_StrictSubsetOrderingWellFounded
<1>2. PICK S \in Bad : \A U \in Bad : ~(<< U, S >> \in Less)
  <2> HIDE DEF Less
  <2> QED BY <1>1, WFMin
<1>3. ASSUME NEW U, U \subseteq S, U # S, U \in Bad PROVE FALSE
  <2>1. U \in SUBSET T /\ S \in SUBSET T
    BY <1>3 DEF FiniteSubsetsOf
  <2>2. << U, S >> \in Less
    BY <1>3, <2>1 DEF StrictSubsetOrdering
  <2> QED BY <1>2, <1>3, <2>2
<1> QED BY <1>3

\* Removing an element gives a smaller one.
LEMMA SmallerSets ==
    ASSUME NEW S, NEW T, S \in FiniteSubsetsOf(T), NEW x \in S
    PROVE  S \ {x} \in FiniteSubsetsOf(T) /\ S \ {x} \subseteq S /\ S \ {x} # S
BY FS_RemoveElement DEF FiniteSubsetsOf

\* The element a fold goes on with is one of the set.
LEMMA PickIn == ASSUME NEW T, T # {} PROVE Pick(T) \in T
BY DEF Pick

\* Whatever set it was chosen for, and from whatever rows of the same sizes, a
\* sum is the same.
LEMMA SumsUnique ==
    ASSUME NEW g, NEW v, NEW S, Sums(g, v, S), NEW h, NEW w, NEW T, Sums(h, w, T),
           NEW U, U \subseteq S, U \subseteq T, IsFiniteSet(U),
           \A x \in U : v[x].size = w[x].size
    PROVE  g[U] = h[U]
<1> DEFINE Bad == {V \in FiniteSubsetsOf(U) : g[V] # h[V]}
<1>1. SUFFICES ASSUME Bad # {} PROVE FALSE
  <2>1. U \in FiniteSubsetsOf(U)
    BY DEF FiniteSubsetsOf
  <2> QED BY <2>1
<1>2. PICK V \in Bad : \A W : W \subseteq V /\ W # V => W \notin Bad
  <2>1. Bad \subseteq FiniteSubsetsOf(U)
    OBVIOUS
  <2> HIDE DEF Bad
  <2> QED BY <1>1, <2>1, SmallestSet
<1>3. V \subseteq U /\ V \in FiniteSubsetsOf(U) /\ g[V] # h[V]
  BY DEF FiniteSubsetsOf
<1>4. /\ g[V] = IF V = {} THEN 0 ELSE v[Pick(V)].size + g[V \ {Pick(V)}]
      /\ h[V] = IF V = {} THEN 0 ELSE w[Pick(V)].size + h[V \ {Pick(V)}]
  BY <1>3 DEF Sums
<1>5. V # {}
  BY <1>3, <1>4
<1>6. Pick(V) \in V
  BY <1>5, PickIn
<1>7. g[V \ {Pick(V)}] = h[V \ {Pick(V)}]
  <2>1. V \ {Pick(V)} \in FiniteSubsetsOf(U) /\ V \ {Pick(V)} \notin Bad
    BY <1>2, <1>3, <1>6, SmallerSets
  <2> QED BY <2>1
<1>8. v[Pick(V)].size = w[Pick(V)].size
  BY <1>3, <1>6
<1> QED BY <1>3, <1>4, <1>5, <1>7, <1>8

\* Every finite set has its sums.
LEMMA SumsExist ==
    ASSUME NEW rows, NEW T, IsFiniteSet(T)
    PROVE  Sums(SumsOf(rows, T), rows, T)
<1> DEFINE Has(S) == \E g : Sums(g, rows, S)
           Bad == {S \in FiniteSubsetsOf(T) : ~Has(S)}
<1>1. SUFFICES ASSUME Bad # {} PROVE FALSE
  <2>1. T \in FiniteSubsetsOf(T)
    BY DEF FiniteSubsetsOf
  <2>2. \E g : Sums(g, rows, T)
    BY <2>1
  <2> QED BY <2>2 DEF SumsOf
<1>2. PICK S \in Bad : \A U : U \subseteq S /\ U # S => U \notin Bad
  <2>1. Bad \subseteq FiniteSubsetsOf(T)
    OBVIOUS
  <2> HIDE DEF Bad
  <2> QED BY <1>1, <2>1, SmallestSet
<1>3. S \subseteq T /\ IsFiniteSet(S) /\ ~Has(S)
  BY DEF FiniteSubsetsOf
<1>4. \A U : U \subseteq S /\ U # S => Sums(SumsOf(rows, U), rows, U) /\ IsFiniteSet(U)
  <2> SUFFICES ASSUME NEW U, U \subseteq S, U # S
               PROVE  Sums(SumsOf(rows, U), rows, U) /\ IsFiniteSet(U)
    OBVIOUS
  <2>1. IsFiniteSet(U)
    BY <1>3, FS_Subset
  <2>2. U \in FiniteSubsetsOf(T)
    BY <1>3, <2>1 DEF FiniteSubsetsOf
  <2>3. \E g : Sums(g, rows, U)
    BY <1>2, <2>2
  <2> QED BY <2>1, <2>3 DEF SumsOf
<1> DEFINE g == [U \in SUBSET S |->
                    IF U = {} THEN 0
                    ELSE rows[Pick(U)].size + SizeOf(rows, U \ {Pick(U)})]
<1>5. \A U \in SUBSET S : U # {} =>
          U \ {Pick(U)} \subseteq S /\ U \ {Pick(U)} # S /\ Pick(U) \in U
  BY PickIn
<1>6. ASSUME NEW V, V \subseteq S, V # S PROVE g[V] = SizeOf(rows, V)
  <2>1. SizeOf(rows, V) = IF V = {} THEN 0
                          ELSE rows[Pick(V)].size + SumsOf(rows, V)[V \ {Pick(V)}]
    <3>1. Sums(SumsOf(rows, V), rows, V)
      BY <1>4, <1>6
    <3> QED BY <3>1 DEF Sums, SizeOf
  <2>2. g[V] = IF V = {} THEN 0 ELSE rows[Pick(V)].size + SizeOf(rows, V \ {Pick(V)})
    BY <1>6
  <2>3. ASSUME V # {}
        PROVE  SumsOf(rows, V)[V \ {Pick(V)}] = SizeOf(rows, V \ {Pick(V)})
    <3> DEFINE W == V \ {Pick(V)}
    <3>1. W \subseteq S /\ W # S /\ W \subseteq V
      BY <1>5, <1>6, <2>3
    <3>2. /\ Sums(SumsOf(rows, V), rows, V) /\ Sums(SumsOf(rows, W), rows, W)
          /\ IsFiniteSet(W)
      BY <1>4, <1>6, <3>1
    <3> HIDE DEF W
    <3>3. SumsOf(rows, V)[W] = SumsOf(rows, W)[W]
      BY <3>1, <3>2, SumsUnique
    <3> QED BY <3>3 DEF SizeOf, W
  <2> QED BY <2>1, <2>2, <2>3
<1>7. Sums(g, rows, S)
  <2>1. \A U \in SUBSET S : U # {} =>
            g[U \ {Pick(U)}] = SizeOf(rows, U \ {Pick(U)})
    <3> HIDE DEF g
    <3> QED BY <1>5, <1>6
  <2>2. g = [U \in SUBSET S |->
                IF U = {} THEN 0 ELSE rows[Pick(U)].size + g[U \ {Pick(U)}]]
    <3> DEFINE h == [U \in SUBSET S |->
                IF U = {} THEN 0 ELSE rows[Pick(U)].size + g[U \ {Pick(U)}]]
    <3>1. \A U \in SUBSET S : g[U] = h[U]
      <4>1. \A U \in SUBSET S : g[U] = IF U = {} THEN 0
                    ELSE rows[Pick(U)].size + SizeOf(rows, U \ {Pick(U)})
        OBVIOUS
      <4>2. \A U \in SUBSET S : h[U] = IF U = {} THEN 0
                    ELSE rows[Pick(U)].size + g[U \ {Pick(U)}]
        BY Zenon
      <4> HIDE DEF g, h
      <4> QED BY <2>1, <4>1, <4>2
    <3>2. g = [U \in SUBSET S |-> g[U]] /\ h = [U \in SUBSET S |-> h[U]]
      BY Zenon
    <3> HIDE DEF g, h
    <3>3. g = h
      BY <3>1, <3>2
    <3> QED BY <3>3 DEF h
  <2> QED BY <2>2 DEF Sums
<1> QED BY <1>3, <1>7

\* The sizes of equal rows sum up to the same.
LEMMA SizeOfSame ==
    ASSUME NEW v, NEW w, NEW T, IsFiniteSet(T), \A x \in T : v[x].size = w[x].size
    PROVE  SizeOf(v, T) = SizeOf(w, T)
BY SumsExist, SumsUnique DEF SizeOf

\* The sum over no row, and over some: a first one and the others.
LEMMA SizeOfPick ==
    ASSUME NEW rows, NEW T, IsFiniteSet(T)
    PROVE  SizeOf(rows, T) = IF T = {} THEN 0
                             ELSE rows[Pick(T)].size + SizeOf(rows, T \ {Pick(T)})
<1> DEFINE W == T \ {Pick(T)}
<1>1. IsFiniteSet(W) /\ W \subseteq T
  BY FS_RemoveElement
<1>2. Sums(SumsOf(rows, T), rows, T) /\ Sums(SumsOf(rows, W), rows, W)
  BY <1>1, SumsExist
<1>3. SumsOf(rows, T)[T] = IF T = {} THEN 0
                           ELSE rows[Pick(T)].size + SumsOf(rows, T)[W]
  BY <1>2 DEF Sums
<1> HIDE DEF W
<1>4. SumsOf(rows, T)[W] = SumsOf(rows, W)[W]
  BY <1>1, <1>2, SumsUnique
<1> QED BY <1>3, <1>4 DEF SizeOf, W

\* A sum of sizes is a number.
LEMMA SizeOfType ==
    ASSUME NEW rows, NEW T, IsFiniteSet(T), \A x \in T : rows[x].size \in Int
    PROVE  SizeOf(rows, T) \in Int
<1> DEFINE Bad == {S \in FiniteSubsetsOf(T) : SizeOf(rows, S) \notin Int}
<1>1. SUFFICES ASSUME Bad # {} PROVE FALSE
  <2>1. T \in FiniteSubsetsOf(T)
    BY DEF FiniteSubsetsOf
  <2> QED BY <2>1
<1>2. PICK S \in Bad : \A U : U \subseteq S /\ U # S => U \notin Bad
  <2>1. Bad \subseteq FiniteSubsetsOf(T)
    OBVIOUS
  <2> HIDE DEF Bad
  <2> QED BY <1>1, <2>1, SmallestSet
<1>3. S \in FiniteSubsetsOf(T) /\ S \subseteq T /\ IsFiniteSet(S) /\ SizeOf(rows, S) \notin Int
  BY DEF FiniteSubsetsOf
<1>4. SizeOf(rows, S) = IF S = {} THEN 0
                        ELSE rows[Pick(S)].size + SizeOf(rows, S \ {Pick(S)})
  BY <1>3, SizeOfPick
<1>5. S # {} => SizeOf(rows, S \ {Pick(S)}) \in Int
  BY <1>2, <1>3, SmallerSets, PickIn
<1>6. S # {} => rows[Pick(S)].size \in Int
  BY <1>3, PickIn
<1> QED BY <1>3, <1>4, <1>5, <1>6

\* Any row may be the first.
LEMMA SizeOfAny ==
    ASSUME NEW rows, NEW T, IsFiniteSet(T), \A y \in T : rows[y].size \in Int,
           NEW x \in T
    PROVE  SizeOf(rows, T) = rows[x].size + SizeOf(rows, T \ {x})
<1> DEFINE Splits(S, y) == SizeOf(rows, S) = rows[y].size + SizeOf(rows, S \ {y})
           Bad == {S \in FiniteSubsetsOf(T) : \E y \in S : ~Splits(S, y)}
<1>1. SUFFICES ASSUME Bad # {} PROVE FALSE
  <2>1. T \in FiniteSubsetsOf(T)
    BY DEF FiniteSubsetsOf
  <2>2. \A y \in T : Splits(T, y)
    BY <2>1
  <2> QED BY <2>2
<1>2. PICK S \in Bad : \A U : U \subseteq S /\ U # S => U \notin Bad
  <2>1. Bad \subseteq FiniteSubsetsOf(T)
    OBVIOUS
  <2> HIDE DEF Bad
  <2> QED BY <1>1, <2>1, SmallestSet
<1>3. PICK y \in S : ~Splits(S, y)
  OBVIOUS
<1> DEFINE z == Pick(S)
<1>4. S \in FiniteSubsetsOf(T) /\ S \subseteq T /\ IsFiniteSet(S) /\ z \in S
  BY PickIn DEF FiniteSubsetsOf
<1>5. SizeOf(rows, S) = rows[z].size + SizeOf(rows, S \ {z})
  BY <1>4, SizeOfPick
<1>6. y # z
  BY <1>3, <1>5
<1> HIDE DEF z
<1>7. /\ S \ {z} \in FiniteSubsetsOf(T) /\ S \ {z} \notin Bad
      /\ S \ {y} \in FiniteSubsetsOf(T) /\ S \ {y} \notin Bad
  BY <1>2, <1>4, SmallerSets
<1>8. SizeOf(rows, S \ {z}) = rows[y].size + SizeOf(rows, (S \ {z}) \ {y})
  <2>1. Splits(S \ {z}, y)
    <3> HIDE DEF Splits
    <3> QED BY <1>6, <1>7
  <2> QED BY <2>1
<1>9. SizeOf(rows, S \ {y}) = rows[z].size + SizeOf(rows, (S \ {y}) \ {z})
  BY <1>4, <1>6, <1>7
<1>10. (S \ {z}) \ {y} = (S \ {y}) \ {z}
  OBVIOUS
<1>11. rows[y].size \in Int /\ rows[z].size \in Int
  BY <1>4
<1>12. SizeOf(rows, (S \ {y}) \ {z}) \in Int
  <2>1. IsFiniteSet((S \ {y}) \ {z}) /\ (S \ {y}) \ {z} \subseteq T
    BY <1>4, FS_Subset
  <2> QED BY <2>1, SizeOfType
<1>13. SizeOf(rows, S \ {z}) = rows[y].size + SizeOf(rows, (S \ {y}) \ {z})
  BY <1>8, <1>10
<1>14. SizeOf(rows, S) = rows[y].size + SizeOf(rows, S \ {y})
  BY <1>5, <1>9, <1>11, <1>12, <1>13
<1> QED BY <1>3, <1>14

\* Leaving out rows that are not negative makes a sum no larger, and leaving
\* out rows that are not positive makes it no smaller.
LEMMA SizeOfFewer ==
    ASSUME NEW rows, NEW T, IsFiniteSet(T), \A x \in T : rows[x].size \in Int,
           NEW U \in SUBSET T
    PROVE  /\ (\A x \in T \ U : rows[x].size >= 0) => SizeOf(rows, U) <= SizeOf(rows, T)
           /\ (\A x \in T \ U : rows[x].size <= 0) => SizeOf(rows, T) <= SizeOf(rows, U)
<1> DEFINE Right(S) ==
        /\ (\A x \in S \ U : rows[x].size >= 0) => SizeOf(rows, U) <= SizeOf(rows, S)
        /\ (\A x \in S \ U : rows[x].size <= 0) => SizeOf(rows, S) <= SizeOf(rows, U)
           Bad == {S \in FiniteSubsetsOf(T) : U \subseteq S /\ ~Right(S)}
<1>1. SUFFICES ASSUME Bad # {} PROVE FALSE
  <2>1. T \in FiniteSubsetsOf(T)
    BY DEF FiniteSubsetsOf
  <2>2. Right(T)
    <3> HIDE DEF Right
    <3> QED BY <2>1
  <2> QED BY <2>2
<1>2. PICK S \in Bad : \A V : V \subseteq S /\ V # S => V \notin Bad
  <2>1. Bad \subseteq FiniteSubsetsOf(T)
    OBVIOUS
  <2> HIDE DEF Bad
  <2> QED BY <1>1, <2>1, SmallestSet
<1>3. /\ S \in FiniteSubsetsOf(T) /\ S \subseteq T /\ IsFiniteSet(S) /\ U \subseteq S
      /\ ~Right(S)
  <2> HIDE DEF Right
  <2> QED BY DEF FiniteSubsetsOf
<1>4. SizeOf(rows, U) \in Int
  BY FS_Subset, SizeOfType
<1>5. U # S
  BY <1>3, <1>4
<1>6. PICK x \in S : x \notin U
  BY <1>3, <1>5
<1>7. Right(S \ {x})
  <2>1. S \ {x} \in FiniteSubsetsOf(T) /\ S \ {x} \notin Bad /\ U \subseteq S \ {x}
    BY <1>2, <1>3, <1>6, SmallerSets
  <2> HIDE DEF Right
  <2> QED BY <2>1
<1>8. SizeOf(rows, S) = rows[x].size + SizeOf(rows, S \ {x})
  BY <1>3, SizeOfAny
<1>9. rows[x].size \in Int /\ SizeOf(rows, S \ {x}) \in Int
  <2>1. IsFiniteSet(S \ {x}) /\ S \ {x} \subseteq T
    BY <1>3, FS_RemoveElement
  <2> QED BY <1>3, <2>1, SizeOfType
<1>10. ASSUME \A y \in S \ U : rows[y].size >= 0
       PROVE  SizeOf(rows, U) <= SizeOf(rows, S)
  <2>1. SizeOf(rows, U) <= SizeOf(rows, S \ {x}) /\ rows[x].size >= 0
    BY <1>6, <1>7, <1>10
  <2> QED BY <1>4, <1>8, <1>9, <2>1
<1>11. ASSUME \A y \in S \ U : rows[y].size <= 0
       PROVE  SizeOf(rows, S) <= SizeOf(rows, U)
  <2>1. SizeOf(rows, S \ {x}) <= SizeOf(rows, U) /\ rows[x].size <= 0
    BY <1>6, <1>7, <1>11
  <2> QED BY <1>4, <1>8, <1>9, <2>1
<1> QED BY <1>3, <1>10, <1>11

-----------------------------------------------------------------------------
(* Capacity.                                                               *)

UnusedOf(u, m) == {f \in UploadedBy(u, m) : Unused(f)}

SumOfUnused ==
    \A u \in Users, m \in Managers \cup {NoManager} :
        /\ UnusedSize(u, m) = SizeOf(files, UnusedOf(u, m))
        /\ SizeWithoutRoom(u, m) = SizeOf(files, UnusedOrNegative(u, m))

\* In every state, the size of the unused files is such a sum.
LEMMA UnusedSizeSum == SumOfUnused
BY FoldIsSize DEF SumOfUnused, UnusedSize, UnusedOf, SizeWithoutRoom

\* So it is in the state after a step.
LEMMA UnusedSizeSumNext == SumOfUnused'
BY UnusedSizeSum, PTL

\* It is a sum of finitely many numbers.
LEMMA UnusedFinite ==
    ASSUME TypeOK, NEW u, NEW m
    PROVE  /\ IsFiniteSet(UnusedOf(u, m)) /\ IsFiniteSet(UnusedOrNegative(u, m))
           /\ UnusedOf(u, m) \subseteq UnusedOrNegative(u, m)
           /\ \A f \in UnusedOrNegative(u, m) : f \in FileIds /\ files[f].size \in Int
<1>1. /\ UnusedOf(u, m) \subseteq UnusedOrNegative(u, m)
      /\ UnusedOrNegative(u, m) \subseteq FileIds
  BY DEF UnusedOf, UnusedOrNegative, UploadedBy
<1>2. FileIds = 1..Len(files) /\ Len(files) \in Nat
  BY DEF TypeOK, FileIds
<1>3. IsFiniteSet(FileIds)
  BY <1>2, FS_Interval
<1>4. \A f \in FileIds : files[f] \in FileRow
  BY DEF TypeOK, FileIds
<1>5. \A f \in FileIds : files[f].size \in Int
  BY <1>4, ConstantsAssumption DEF FileRow
<1> QED BY <1>1, <1>3, <1>5, FS_Subset

\* What the handlers keep: the part of WithinCapacity that needs no condition.
CapacityInv ==
    \A u \in Users, m \in Managers \cup {NoManager} : SizeWithoutRoom(u, m) <= Capacity

\* The rest follows: without a negative size both sums are over the same files.
LEMMA CapacityEnough == TypeOK /\ CapacityInv => WithinCapacity
<1> SUFFICES ASSUME TypeOK, CapacityInv,
                    NEW u \in Users, NEW m \in Managers \cup {NoManager},
                    \A f \in UploadedBy(u, m) : files[f].size >= 0
             PROVE  UnusedSize(u, m) <= Capacity
  BY DEF CapacityInv, WithinCapacity
<1>1. \A f \in UnusedOrNegative(u, m) : files[f].size \in Int /\ files[f].size >= 0
  BY UnusedFinite DEF UnusedOrNegative
<1>2. \A f \in UnusedOrNegative(u, m) : ~(files[f].size < 0)
  BY <1>1
<1>3. UnusedOrNegative(u, m) = UnusedOf(u, m)
  BY <1>2 DEF UnusedOrNegative, UnusedOf
<1> QED BY <1>3, UnusedSizeSum DEF SumOfUnused, CapacityInv

\* A step that uploads nothing leaves no more unused than there was: a use is
\* never taken back.
LEMMA CapacityKept ==
    ASSUME TypeOK, CapacityInv, files' = files, fileInfos \subseteq fileInfos'
    PROVE  CapacityInv'
<1> SUFFICES ASSUME NEW u \in Users, NEW m \in Managers \cup {NoManager}
             PROVE  SizeWithoutRoom(u, m)' <= Capacity
  BY DEF CapacityInv
<1> DEFINE Before == UnusedOrNegative(u, m)
           After == UnusedOrNegative(u, m)'
<1>1. /\ SizeWithoutRoom(u, m) = SizeOf(files, Before)
      /\ SizeWithoutRoom(u, m)' = SizeOf(files, After)
  BY UnusedSizeSum, UnusedSizeSumNext DEF SumOfUnused
<1>2. IsFiniteSet(Before) /\ \A f \in Before : f \in FileIds /\ files[f].size \in Int
  BY UnusedFinite
<1>3. /\ After \subseteq Before
      /\ \A f \in Before \ After : ~(files[f].size < 0)
  BY DEF UnusedOrNegative, UploadedBy, Unused, FileIds
<1>4. SizeWithoutRoom(u, m) <= Capacity
  BY DEF CapacityInv
<1> HIDE DEF Before, After
<1>5. \A f \in Before \ After : files[f].size >= 0
  BY <1>2, <1>3
<1>6. SizeOf(files, After) <= SizeOf(files, Before)
  BY <1>2, <1>3, <1>5, SizeOfFewer
<1>7. SizeOf(files, After) \in Int /\ SizeOf(files, Before) \in Int
  BY <1>2, <1>3, FS_Subset, SizeOfType
<1> QED BY <1>1, <1>4, <1>6, <1>7, ConstantsAssumption

\* An upload adds its size to one sum, that of its uploader, after checking
\* that it fits with the unused files, of which the sum is no larger.
LEMMA CapacityUpload ==
    ASSUME TypeOK, CapacityInv, NEW row \in FileRow, InsertFile(row),
           EnoughCapacity(row.user, row.manager, row.size), UNCHANGED fileInfos
    PROVE  CapacityInv'
<1> SUFFICES ASSUME NEW u \in Users, NEW m \in Managers \cup {NoManager}
             PROVE  SizeWithoutRoom(u, m)' <= Capacity
  BY DEF CapacityInv
<1> DEFINE n == Len(files) + 1
           Before == UnusedOrNegative(u, m)
           After == UnusedOrNegative(u, m)'
<1>1. /\ files' = Append(files, row) /\ files \in Seq(FileRow)
      /\ FileIds' = FileIds \cup {n} /\ n \notin FileIds
      /\ \A f \in FileIds : files'[f] = files[f]
      /\ files'[n] = row
  BY DEF InsertFile, TypeOK, FileIds
<1>2. /\ SizeWithoutRoom(u, m) = SizeOf(files, Before)
      /\ SizeWithoutRoom(u, m)' = SizeOf(files', After)
      /\ UnusedSize(u, m) = SizeOf(files, UnusedOf(u, m))
  BY UnusedSizeSum, UnusedSizeSumNext DEF SumOfUnused
<1>3. /\ IsFiniteSet(Before) /\ IsFiniteSet(UnusedOf(u, m))
      /\ UnusedOf(u, m) \subseteq Before
      /\ \A f \in Before : f \in FileIds /\ files[f].size \in Int
  BY UnusedFinite
<1>4. SizeWithoutRoom(u, m) <= Capacity
  BY DEF CapacityInv
<1>5. /\ Before \subseteq After /\ After \subseteq Before \cup {n}
      /\ n \in After => row.manager = m /\ (m = NoManager => row.user = u)
  <2> HIDE DEF n
  <2> QED BY <1>1 DEF UnusedOrNegative, UploadedBy, Unused
<1>6. \A f \in Before : files'[f] = files[f]
  BY <1>1, <1>3
<1>7. \A f \in Before \ UnusedOf(u, m) : files[f].size < 0
  BY DEF UnusedOrNegative, UnusedOf
<1> HIDE DEF n, Before, After
<1>8. SizeOf(files', Before) = SizeOf(files, Before)
  BY <1>3, <1>6, SizeOfSame
<1>9. CASE n \notin After
  <2>1. After = Before
    BY <1>5, <1>9
  <2> QED BY <1>2, <1>4, <1>8, <2>1
<1>10. CASE n \in After
  <2>1. After = Before \cup {n} /\ After \ {n} = Before
    BY <1>1, <1>3, <1>5, <1>10
  <2>2. IsFiniteSet(After)
    BY <1>3, <2>1, FS_AddElement
  <2>3. row.size \in Int
    BY ConstantsAssumption DEF FileRow
  <2>4. \A f \in After : files'[f].size \in Int
    BY <1>1, <1>3, <1>6, <2>1, <2>3
  <2>5. SizeOf(files', After) = row.size + SizeOf(files, Before)
    <3>1. SizeOf(files', After) = files'[n].size + SizeOf(files', After \ {n})
      BY <1>10, <2>2, <2>4, SizeOfAny
    <3>2. files'[n].size = row.size
      BY <1>1
    <3> QED BY <1>8, <2>1, <3>1, <3>2
  <2>6. SizeOf(files, Before) \in Int /\ SizeOf(files, UnusedOf(u, m)) \in Int
    BY <1>3, SizeOfType
  <2>7. UnusedSize(row.user, row.manager) = UnusedSize(u, m)
    <3>1. row.manager = m /\ (m = NoManager => row.user = u)
      BY <1>5, <1>10
    <3>2. UploadedBy(row.user, row.manager) = UploadedBy(u, m)
      BY <3>1 DEF UploadedBy
    <3> QED BY <3>2 DEF UnusedSize
  <2>8. UnusedSize(u, m) + row.size <= Capacity
    BY <2>7 DEF EnoughCapacity
  <2>9. SizeOf(files, Before) <= SizeOf(files, UnusedOf(u, m))
    <3> DEFINE U == UnusedOf(u, m)
    <3>1. U \in SUBSET Before /\ \A f \in Before \ U : files[f].size < 0
      BY <1>3, <1>7
    <3> HIDE DEF U
    <3>2. \A f \in Before \ U : files[f].size <= 0
      BY <1>3, <3>1
    <3>3. SizeOf(files, Before) <= SizeOf(files, U)
      BY <1>3, <3>1, <3>2, SizeOfFewer
    <3> QED BY <3>3 DEF U
  <2> QED BY <1>2, <2>3, <2>5, <2>6, <2>8, <2>9, ConstantsAssumption
<1> QED BY <1>9, <1>10

\* Nothing is uploaded yet.
LEMMA CapacityInit == Init => CapacityInv
<1> SUFFICES ASSUME Init, NEW u \in Users, NEW m \in Managers \cup {NoManager}
             PROVE  SizeWithoutRoom(u, m) <= Capacity
  BY DEF CapacityInv
<1>1. UnusedOrNegative(u, m) = {}
  BY DEF Init, UnusedOrNegative, UploadedBy, FileIds
<1>2. SizeOf(files, {}) = 0
  BY FS_EmptySet, SizeOfPick
<1>3. SizeWithoutRoom(u, m) = 0
  BY <1>1, <1>2, UnusedSizeSum DEF SumOfUnused
<1> QED BY <1>3, ConstantsAssumption

\* Both uploads check; everything else uses files or leaves them alone.
LEMMA CapacityStep == TypeInv /\ CapacityInv /\ [Next]_vars => CapacityInv'
<1> SUFFICES ASSUME TypeOK, CapacityInv, [Next]_vars PROVE CapacityInv'
  BY DEF TypeInv
<1>1. ASSUME NEW puid \in Puids, NEW md5 \in Md5s, NEW size \in Sizes,
             UserUploadStart(puid, md5, size)
      PROVE  CapacityInv'
  <2> DEFINE row == [project |-> puid[1], user |-> puid[2], manager |-> NoManager,
                     stage |-> StageOfPuid(puid), md5 |-> md5, size |-> size]
  <2>1. /\ row \in FileRow /\ InsertFile(row) /\ UNCHANGED fileInfos
        /\ row.user = puid[2] /\ row.manager = NoManager /\ row.size = size
    BY <1>1 DEF UserUploadStart, FileRow, Stage, Puids
  <2>2. EnoughCapacity(puid[2], NoManager, size)
    BY <1>1 DEF UserUploadStart
  <2> HIDE DEF row
  <2> QED BY <2>1, <2>2, CapacityUpload
<1>2. ASSUME NEW m \in Managers, NEW puid \in Puids, NEW md5 \in Md5s,
             NEW size \in Sizes, ManagerUploadStart(m, puid, md5, size)
      PROVE  CapacityInv'
  <2> DEFINE row == [project |-> puid[1], user |-> puid[2], manager |-> m,
                     stage |-> "Master", md5 |-> md5, size |-> size]
  <2>1. /\ row \in FileRow /\ InsertFile(row) /\ UNCHANGED fileInfos
        /\ row.user = puid[2] /\ row.manager = m /\ row.size = size
    BY <1>2 DEF ManagerUploadStart, FileRow, Stage, Puids
  <2>2. EnoughCapacity(puid[2], m, size)
    BY <1>2 DEF ManagerUploadStart
  <2> HIDE DEF row
  <2> QED BY <2>1, <2>2, CapacityUpload
<1> DEFINE Quiet == files' = files /\ fileInfos \subseteq fileInfos'
<1>3. ASSUME NEW puid \in Puids,
             \/ JoinProject(puid) \/ AgreeNda(puid)
             \/ \E skip \in BOOLEAN : PreSubmit(puid, skip)
             \/ \E include \in BOOLEAN : Submit(puid, include)
      PROVE  Quiet
  BY <1>3 DEF JoinProject, AgreeNda, PreSubmit, Submit, UseFiles, fileVars
<1>4. ASSUME FileStep PROVE Quiet
  BY <1>4 DEF FileStep, UploadContinue, UploadFinish, DeleteFile, fileVars
<1>5. ASSUME NEW m \in Managers, NEW puid \in Puids,
             \/ \E i \in DOMAIN preSubmits[puid], verdict \in Verdict,
                   choir \in BOOLEAN : PreSubmitReview(m, puid, i, verdict, choir)
             \/ \E i \in DOMAIN submits[puid], verdict \in Verdict,
                   checked \in CheckLists : SubmitReview(m, puid, i, verdict, checked)
             \/ Master(m, puid)
      PROVE  Quiet
  BY <1>5 DEF PreSubmitReview, SubmitReview, Master, UseFiles, fileVars
<1>6. ASSUME BundleStep \/ AccessStep \/ OutsideStep \/ UNCHANGED vars PROVE Quiet
  BY <1>6 DEF BundleStep, MarkMixed, AccessStep, ProjectManagerEdit, OutsideStep,
              ProjectEnds, PutObject, UrlExpires, vars, fileVars
<1>7. Quiet => CapacityInv'
  BY CapacityKept
<1> HIDE DEF Quiet
<1> QED BY <1>1, <1>2, <1>3, <1>4, <1>5, <1>6, <1>7
        DEF Next, UserStep, ManagerStep

\* However uploads, deletions and uses interleave, the unused files of a user
\* or a manager exceed the capacity at most by the room that files declared with
\* a negative size made, and where no such file was uploaded, not at all.
THEOREM CapacityHeld == Spec => []WithinCapacity
<1>1. TypeInv /\ CapacityInv => WithinCapacity
  BY CapacityEnough DEF TypeInv
<1> QED BY TypeInvariant, CapacityInit, CapacityStep, <1>1, PTL DEF Spec
==============================================================================
