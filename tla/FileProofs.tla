------------------------------ MODULE FileProofs -----------------------------
(***************************************************************************)
(* Proofs about the files: what is used stays stored, fits what uses it and *)
(* is used once; no upload is left behind; nothing of an ended project      *)
(* changes; and nothing of what a bundle job reads.                         *)
(***************************************************************************)
EXTENDS ReviewProofs

-----------------------------------------------------------------------------
(* Used files.                                                             *)

\* The object of a finished upload is there, so that a file is stored as soon
\* as it can be used.
FinishedStored == \A f \in pendingFiles : KeyOf(files[f]) \in objects

FilesInv == TypeInv /\ FinishedStored /\ UsedFilesStored

\* There are no files at first.
LEMMA FilesInit == Init => FilesInv
BY TypeInit DEF Init, FilesInv, FinishedStored, UsedFilesStored

\* A handler that uses finished, undeleted files keeps the promise.
LEMMA UseKeepsStored ==
    ASSUME FilesInv, TypeInv', NEW used, NEW stage, NEW target,
           \A f \in used : f \in pendingFiles /\ Live(f),
           UseFiles(used, stage, target),
           UNCHANGED << files, pendingFiles, deletedFiles, s3Vars >>
    PROVE  FilesInv'
<1>1. \A use \in fileInfos' : use \in fileInfos \/ use.file \in used
  BY DEF UseFiles
<1> QED BY <1>1
        DEF FilesInv, FinishedStored, UsedFilesStored, Live, KeyOf, s3Vars

\* So does one that inserts a file.
LEMMA InsertKeepsStored ==
    ASSUME FilesInv, TypeInv', NEW row \in FileRow, InsertFile(row),
           UNCHANGED << pendingFiles, deletedFiles, fileInfos, objects >>
    PROVE  FilesInv'
<1>1. TypeOK
  BY DEF FilesInv, TypeInv
<1>2. \A f \in FileIds : files'[f] = files[f]
  BY <1>1, InsertFileProperties DEF TypeOK
<1>3. pendingFiles \subseteq FileIds /\ \A use \in fileInfos : use.file \in FileIds
  BY <1>1 DEF TypeOK
<1> QED BY <1>2, <1>3 DEF FilesInv, FinishedStored, UsedFilesStored, Live, KeyOf

\* Every step keeps the invariant.
LEMMA FilesNext == FilesInv /\ [Next]_vars => FilesInv'
<1> SUFFICES ASSUME FilesInv, [Next]_vars PROVE FilesInv'
  OBVIOUS
<1>1. TypeInv' /\ TypeOK /\ TypeInv
  BY TypeStep DEF FilesInv, TypeInv
<1>2. ASSUME NEW puid \in Puids, NEW md5 \in Md5s, NEW size \in Sizes,
             UserUploadStart(puid, md5, size)
      PROVE  FilesInv'
  <2>1. PICK row \in FileRow : InsertFile(row)
    BY <1>2 DEF UserUploadStart, FileRow, Stage, Puids
  <2> QED BY <1>1, <1>2, <2>1, InsertKeepsStored DEF UserUploadStart
<1>3. ASSUME NEW m \in Managers, NEW puid \in Puids, NEW md5 \in Md5s,
             NEW size \in Sizes, ManagerUploadStart(m, puid, md5, size)
      PROVE  FilesInv'
  <2>1. PICK row \in FileRow : InsertFile(row)
    BY <1>3 DEF ManagerUploadStart, FileRow, Stage, Puids
  <2> QED BY <1>1, <1>3, <2>1, InsertKeepsStored DEF ManagerUploadStart
<1>4. ASSUME NEW puid \in Puids, NEW skip \in BOOLEAN, PreSubmit(puid, skip)
      PROVE  FilesInv'
  <2> DEFINE used == PendingOf(puid[1], puid[2], NoManager, "PreSubmit")
  <2>1. \A f \in used : f \in pendingFiles /\ Live(f)
    BY DEF PendingOf
  <2>2. PICK target : UseFiles(used, "PreSubmit", target)
    BY <1>4 DEF PreSubmit
  <2> HIDE DEF used
  <2> QED BY <1>1, <1>4, <2>1, <2>2, UseKeepsStored DEF PreSubmit
<1>5. ASSUME NEW puid \in Puids, NEW include \in BOOLEAN, Submit(puid, include)
      PROVE  FilesInv'
  <2> DEFINE used == PendingOf(puid[1], puid[2], NoManager, "Submit")
                       \cup IF include THEN PreSubmitFileForSubmit(puid) ELSE {}
  <2>1. \A f \in used : f \in pendingFiles /\ Live(f)
    BY DEF PendingOf, PreSubmitFileForSubmit
  <2>2. PICK target : UseFiles(used, "Submit", target)
    BY <1>5 DEF Submit
  <2> HIDE DEF used
  <2> QED BY <1>1, <1>5, <2>1, <2>2, UseKeepsStored DEF Submit
<1>6. ASSUME NEW m \in Managers, NEW puid \in Puids, Master(m, puid) PROVE FilesInv'
  <2> DEFINE used == PendingOf(puid[1], puid[2], m, "Master")
  <2>1. \A f \in used : f \in pendingFiles /\ Live(f)
    BY DEF PendingOf
  <2>2. PICK target : UseFiles(used, "Master", target)
    BY <1>6 DEF Master
  <2> HIDE DEF used
  <2> QED BY <1>1, <1>6, <2>1, <2>2, UseKeepsStored DEF Master
<1>7. ASSUME NEW f \in FileIds, UploadFinish(f) PROVE FilesInv'
  BY <1>1, <1>7
     DEF UploadFinish, FilesInv, FinishedStored, UsedFilesStored, Live, KeyOf, s3Vars
<1>8. ASSUME NEW f \in FileIds, DeleteFile(f) PROVE FilesInv'
  <2>1. \A use \in fileInfos : use.file # f
    BY <1>8 DEF DeleteFile, Unused, FilesInv, UsedFilesStored
  <2> QED BY <1>1, <1>8, <2>1
          DEF DeleteFile, FilesInv, FinishedStored, UsedFilesStored, Live, KeyOf, s3Vars
<1>9. ASSUME NEW key \in urls, PutObject(key) PROVE FilesInv'
  BY <1>1, <1>9
     DEF PutObject, FilesInv, FinishedStored, UsedFilesStored, Live, KeyOf, fileVars
<1>10. CASE UNCHANGED << fileVars, objects >>
  BY <1>1, <1>10
     DEF fileVars, FilesInv, FinishedStored, UsedFilesStored, Live, KeyOf
<1>11. ASSUME NEW puid \in Puids, JoinProject(puid) \/ AgreeNda(puid)
       PROVE  UNCHANGED << fileVars, objects >>
  BY <1>11 DEF JoinProject, AgreeNda, s3Vars
<1>12. ASSUME NEW m \in Managers, NEW puid \in Puids, NEW i, NEW verdict,
              \/ \E choir \in BOOLEAN : PreSubmitReview(m, puid, i, verdict, choir)
              \/ \E checked \in CheckLists : SubmitReview(m, puid, i, verdict, checked)
       PROVE  UNCHANGED << fileVars, objects >>
  BY <1>12 DEF PreSubmitReview, SubmitReview, s3Vars
<1>13. ASSUME \/ \E f \in FileIds : UploadContinue(f)
              \/ BundleStep \/ AccessStep
              \/ \E p \in Projects : ProjectEnds(p)
              \/ \E key \in urls : UrlExpires(key)
              \/ UNCHANGED vars
       PROVE  UNCHANGED << fileVars, objects >>
  BY <1>13 DEF UploadContinue, BundleStep, MarkMixed, AccessStep, ProjectManagerEdit,
               ProjectEnds, UrlExpires, vars, s3Vars
<1> QED BY <1>2, <1>3, <1>4, <1>5, <1>6, <1>7, <1>8, <1>9, <1>10, <1>11, <1>12, <1>13
        DEF Next, UserStep, FileStep, ManagerStep, OutsideStep

\* Whatever a submission refers to was uploaded to the end, is not deleted and is
\* in the object store, whoever deletes, finishes or retries an upload.
THEOREM UsedFilesStayStored == Spec => []UsedFilesStored
<1>1. FilesInv => UsedFilesStored
  BY DEF FilesInv
<1> QED BY FilesInit, FilesNext, <1>1, PTL DEF Spec

-----------------------------------------------------------------------------
(* What a step does to the tables of files.                                *)

\* A user's upload is for the stage the status asks for, and counted.
RightStage(row) ==
    row.manager = NoManager =>
        /\ row.stage = StageOfPuid(<< row.project, row.user >>)
        /\ CountNotReached(row.project, row.user, NoManager, row.stage)

Uploads ==
    \E row \in FileRow :
        /\ RightStage(row)
        /\ InsertFile(row)
        /\ UNCHANGED << pendingFiles, deletedFiles, fileInfos, preSubmits, submits,
                        masters, mixed >>

HandsIn ==
    \E puid \in Puids :
        \/ \E skip \in BOOLEAN : PreSubmit(puid, skip)
        \/ \E include \in BOOLEAN : Submit(puid, include)
        \/ \E m \in Managers : Master(m, puid)

\* Every step uploads, hands in, or at most finishes and deletes files.
LEMMA FileSteps ==
    ASSUME [Next]_vars
    PROVE  \/ Uploads
           \/ HandsIn
           \/ /\ UNCHANGED << files, fileInfos, masters >>
              /\ pendingFiles \subseteq pendingFiles'
              /\ deletedFiles \subseteq deletedFiles'
<1>1. ASSUME NEW puid \in Puids, NEW md5 \in Md5s, NEW size \in Sizes,
             UserUploadStart(puid, md5, size)
      PROVE  Uploads
  <2> DEFINE row == [project |-> puid[1], user |-> puid[2], manager |-> NoManager,
                     stage |-> StageOfPuid(puid), md5 |-> md5, size |-> size]
  <2>1. puid = << puid[1], puid[2] >> /\ puid[1] \in Projects /\ puid[2] \in Users
    BY DEF Puids
  <2>2. row \in FileRow /\ RightStage(row) /\ InsertFile(row)
    BY <1>1, <2>1 DEF UserUploadStart, FileRow, Stage, RightStage
  <2> HIDE DEF row
  <2> QED BY <1>1, <2>2 DEF UserUploadStart, Uploads, reviewVars
<1>2. ASSUME NEW m \in Managers, NEW puid \in Puids, NEW md5 \in Md5s,
             NEW size \in Sizes, ManagerUploadStart(m, puid, md5, size)
      PROVE  Uploads
  <2> DEFINE row == [project |-> puid[1], user |-> puid[2], manager |-> m,
                     stage |-> "Master", md5 |-> md5, size |-> size]
  <2>1. row \in FileRow /\ RightStage(row) /\ InsertFile(row)
    BY <1>2, ConstantsAssumption DEF ManagerUploadStart, FileRow, Stage, RightStage, Puids
  <2> HIDE DEF row
  <2> QED BY <1>2, <2>1 DEF ManagerUploadStart, Uploads, reviewVars
<1> QED BY <1>1, <1>2
        DEF Next, UserStep, FileStep, ManagerStep, BundleStep, AccessStep, OutsideStep,
            HandsIn, JoinProject, AgreeNda, UploadContinue, UploadFinish, DeleteFile,
            PreSubmitReview, SubmitReview, MarkMixed, ProjectManagerEdit, ProjectEnds,
            PutObject, UrlExpires, vars, fileVars, reviewVars

\* The row that an upload inserts.
LEMMA InsertedRow ==
    ASSUME TypeOK, NEW row \in FileRow, InsertFile(row)
    PROVE  /\ FileIds' = FileIds \cup {Len(files) + 1}
           /\ files'[Len(files) + 1] = row
           /\ \A f \in FileIds : files'[f] = files[f]
<1>1. files \in Seq(FileRow) /\ urls \subseteq S3Keys /\ files' = Append(files, row)
  BY DEF TypeOK, InsertFile
<1>2. files'[Len(files) + 1] = row
  BY <1>1, AppendFacts
<1> QED BY <1>1, <1>2, InsertFileProperties

\* Rows, uses and masters stay.
LEMMA TablesStay ==
    ASSUME TypeInv, [Next]_vars
    PROVE  /\ FileIds \subseteq FileIds'
           /\ \A f \in FileIds : files'[f] = files[f]
           /\ fileInfos \subseteq fileInfos'
           /\ masters \subseteq masters'
           /\ deletedFiles \subseteq deletedFiles'
<1>1. TypeOK
  BY DEF TypeInv
<1>2. CASE Uploads
  <2>1. PICK row \in FileRow : InsertFile(row)
    BY <1>2 DEF Uploads
  <2> QED BY <1>1, <1>2, <2>1, InsertFileProperties DEF Uploads, TypeOK
<1>3. CASE HandsIn
  BY <1>3 DEF HandsIn, PreSubmit, Submit, Master, UseFiles, FileIds
<1> QED BY <1>2, <1>3, FileSteps DEF FileIds

-----------------------------------------------------------------------------
(* Uses.                                                                   *)

\* UsesFitTarget, of one use.
Fits(use) ==
    LET row  == files[use.file]
        puid == use.target[1]
    IN  /\ << row.project, row.user >> = puid
        /\ \/ row.stage = use.type
           \/ /\ row.stage = "PreSubmit" /\ use.type = "Submit"
              /\ \E i \in DOMAIN preSubmits[puid] :
                    /\ preSubmits[puid][i] = [review |-> "Passed", choir |-> TRUE]
                    /\ [file |-> use.file, type |-> "PreSubmit",
                        target |-> << puid, i >>] \in fileInfos
        /\ IF use.type = "Master"
           THEN << puid, row.manager >> \in masters
           ELSE row.manager = NoManager

\* What UsedOnce needs besides: pre-submits are not used before they exist, and
\* the uses of a file can be counted.
TargetsExist ==
    \A use \in fileInfos :
        use.type = "PreSubmit" => use.target[2] \in DOMAIN preSubmits[use.target[1]]

UsesInv == /\ ReviewInv /\ IsFiniteSet(fileInfos)
           /\ \A use \in fileInfos : Fits(use)
           /\ TargetsExist /\ UsedOnce

\* A use that fits goes on fitting, because verdicts are final.
LEMMA FitsStays ==
    ASSUME TypeInv, [Next]_vars, NEW use \in fileInfos, Fits(use)
    PROVE  Fits(use)'
<1> DEFINE puid == use.target[1]
<1>1. use.file \in FileIds /\ puid \in Puids
  BY DEF TypeInv, TypeOK
<1>2. /\ files'[use.file] = files[use.file]
      /\ fileInfos \subseteq fileInfos' /\ masters \subseteq masters'
  BY <1>1, TablesStay
<1>3. ASSUME NEW i \in DOMAIN preSubmits[puid],
             preSubmits[puid][i] = [review |-> "Passed", choir |-> TRUE]
      PROVE  /\ i \in DOMAIN preSubmits'[puid]
             /\ preSubmits'[puid][i] = [review |-> "Passed", choir |-> TRUE]
  BY <1>1, <1>3, SubmissionsStay, VerdictsStep DEF VerdictsKept
<1> QED BY <1>2, <1>3 DEF Fits

\* Old uses keep what is asked of them.
LEMMA OldUses ==
    ASSUME UsesInv, [Next]_vars, NEW use \in fileInfos
    PROVE  /\ Fits(use)'
           /\ use.type = "PreSubmit" => use.target[2] \in DOMAIN preSubmits'[use.target[1]]
<1>1. TypeInv /\ use.target[1] \in Puids
  BY DEF UsesInv, ReviewInv, TypeInv, TypeOK
<1> QED BY <1>1, FitsStays, SubmissionsStay DEF UsesInv, TargetsExist

\* A set of files of which there is one.
LEMMA OneFile ==
    ASSUME TypeOK, NEW S, S \subseteq FileIds
    PROVE  /\ IsFiniteSet(S)
           /\ Cardinality(S) <= 1 => \A f, g \in S : f = g
<1>1. FileIds = 1 .. Len(files) /\ Len(files) \in Int
  BY FileIdsOf, LenProperties DEF TypeOK
<1>2. IsFiniteSet(S)
  <2>1. IsFiniteSet(1 .. Len(files))
    BY <1>1, FS_Interval
  <2> QED BY <1>1, <2>1, FS_Subset
<1>3. Cardinality(S) \in Nat
  BY <1>2, FS_CardinalityType
<1>4. ASSUME Cardinality(S) <= 1 PROVE \A f, g \in S : f = g
  <2>1. Cardinality(S) = 0 \/ Cardinality(S) = 1
    BY <1>3, <1>4
  <2> QED BY <1>2, <2>1, FS_EmptySet, FS_Singleton
<1> QED BY <1>2, <1>4

\* A handler that uses files keeps the invariant, if the files fit and were not
\* used at the stage before.
LEMMA UseKeepsUses ==
    ASSUME UsesInv, ReviewInv', [Next]_vars, NEW used, used \subseteq FileIds,
           NEW stage, NEW puid, NEW i, UseFiles(used, stage, << puid, i >>),
           \A f \in used : Fits([file |-> f, type |-> stage, target |-> << puid, i >>])',
           \A f \in used : \A use \in fileInfos : use.file = f => use.type # stage,
           stage = "PreSubmit" =>
               /\ \A f, g \in used : f = g
               /\ i \notin DOMAIN preSubmits[puid]
               /\ i \in DOMAIN preSubmits'[puid]
    PROVE  UsesInv'
<1> DEFINE New(f) == [file |-> f, type |-> stage, target |-> << puid, i >>]
           news == {New(f) : f \in used}
<1>1. fileInfos' = fileInfos \cup news
  BY DEF UseFiles
<1>2. IsFiniteSet(fileInfos')
  <2>1. IsFiniteSet(used)
    BY OneFile DEF UsesInv, ReviewInv, TypeInv
  <2>2. [f \in used |-> New(f)] \in Surjection(used, news)
    BY DEF Surjection
  <2> HIDE DEF news
  <2>3. IsFiniteSet(news)
    BY <2>1, <2>2, FS_Surjection
  <2> QED BY <1>1, <2>3, FS_Union DEF UsesInv
<1>3. \A use \in fileInfos' : Fits(use)'
  BY <1>1, OldUses
<1>4. TargetsExist'
  BY <1>1, OldUses DEF TargetsExist
<1>5. UsedOnce'
  <2> SUFFICES ASSUME NEW u1 \in fileInfos', NEW u2 \in fileInfos'
               PROVE  /\ u1.file = u2.file /\ u1.type = u2.type => u1 = u2
                      /\ /\ u1.type = "PreSubmit" /\ u2.type = "PreSubmit"
                         /\ u1.target = u2.target
                         => u1 = u2
    BY DEF UsedOnce
  <2>1. CASE u1 \in fileInfos /\ u2 \in fileInfos
    BY <2>1 DEF UsesInv, UsedOnce
  <2>2. CASE u1 \in news /\ u2 \in news
    BY <2>2
  <2>3. ASSUME NEW u \in fileInfos, NEW v \in news
        PROVE  /\ ~(u.file = v.file /\ u.type = v.type)
               /\ ~(u.type = "PreSubmit" /\ v.type = "PreSubmit" /\ u.target = v.target)
    BY DEF UsesInv, TargetsExist
  <2> QED BY <1>1, <2>1, <2>2, <2>3
<1> QED BY <1>2, <1>3, <1>4, <1>5 DEF UsesInv

\* What pending files are.
LEMMA PendingFacts ==
    ASSUME TypeOK, NEW p, NEW u, NEW m, NEW stage, NEW f \in PendingOf(p, u, m, stage)
    PROVE  /\ f \in FileIds
           /\ files[f].project = p /\ files[f].user = u
           /\ files[f].manager = m /\ files[f].stage = stage
           /\ \A use \in fileInfos : use.file # f
BY DEF PendingOf, FilesOf, Unused

\* The pre-submit file a submit takes over.
LEMMA ReusedFacts ==
    ASSUME UsesInv, NEW puid \in Puids, StageOfPuid(puid) = "Submit",
           NEW f \in PreSubmitFileForSubmit(puid)
    PROVE  LET n == Len(preSubmits[puid])
           IN  /\ f \in FileIds
               /\ n \in DOMAIN preSubmits[puid]
               /\ preSubmits[puid][n] = [review |-> "Passed", choir |-> TRUE]
               /\ [file |-> f, type |-> "PreSubmit", target |-> << puid, n >>] \in fileInfos
               /\ << files[f].project, files[f].user >> = puid
               /\ files[f].stage = "PreSubmit" /\ files[f].manager = NoManager
               /\ \A use \in fileInfos : use.file = f => use.type = "PreSubmit"
<1> DEFINE n == Len(preSubmits[puid])
           pre == preSubmits[puid]
           use0 == [file |-> f, type |-> "PreSubmit", target |-> << puid, n >>]
<1>1. TypeOK /\ InOrder(puid) /\ pre \in Seq(PreSubmitSet)
  BY DEF UsesInv, ReviewInv, TypeInv, TypeOK, PreSubmitSet
<1>2. /\ f \in FileIds /\ Latest(pre).choir /\ use0 \in fileInfos
      /\ Cardinality(UsesOf(f)) = 1
  BY DEF PreSubmitFileForSubmit
<1>3. pre # << >> /\ Latest(pre).review = "Passed"
  BY <1>1, StatusBySubmissions DEF InOrder
<1>4. n \in DOMAIN pre
  BY <1>1, <1>3, LenProperties, EmptySeq
<1>5. pre[n] = [review |-> "Passed", choir |-> TRUE]
  <2>1. pre[n] \in PreSubmitSet
    BY <1>1, <1>4
  <2> QED BY <1>2, <1>3, <2>1 DEF PreSubmitSet, Latest
<1>6. Fits(use0)
  BY <1>2 DEF UsesInv
<1>7. UsesOf(f) = {use0}
  <2>1. IsFiniteSet(UsesOf(f))
    BY FS_Subset DEF UsesInv, UsesOf
  <2>2. use0 \in UsesOf(f)
    BY <1>2 DEF UsesOf
  <2> HIDE DEF use0
  <2> QED BY <1>2, <2>1, <2>2, FS_Singleton
<1>8. \A use \in fileInfos : use.file = f => use.type = "PreSubmit"
  BY <1>7 DEF UsesOf
<1> QED BY <1>2, <1>4, <1>5, <1>6, <1>8 DEF Fits

\* Every step keeps the invariant.
LEMMA UsesNext == UsesInv /\ [Next]_vars => UsesInv'
<1> SUFFICES ASSUME UsesInv, [Next]_vars PROVE UsesInv'
  OBVIOUS
<1>1. ReviewInv' /\ TypeOK /\ TypeInv
  BY ReviewNext DEF UsesInv, ReviewInv, TypeInv
<1>2. ASSUME NEW puid \in Puids, NEW skip \in BOOLEAN, PreSubmit(puid, skip) PROVE UsesInv'
  <2> DEFINE used == PendingOf(puid[1], puid[2], NoManager, "PreSubmit")
  <2>n. PICK n : n = Len(preSubmits[puid])
    OBVIOUS
  <2>1. puid = << puid[1], puid[2] >>
    BY DEF Puids
  <2>2. used \subseteq FileIds /\ \A f, g \in used : f = g
    <3>1. used \subseteq FileIds
      BY <1>1, PendingFacts
    <3>2. Cardinality(used) = 0 \/ Cardinality(used) = 1
      BY <1>2 DEF PreSubmit
    <3> HIDE DEF used
    <3> QED BY <1>1, <3>1, <3>2, OneFile
  <2>3. n + 1 \notin DOMAIN preSubmits[puid] /\ n + 1 \in DOMAIN preSubmits'[puid]
    <3>1. /\ preSubmits \in [Puids -> Seq(PreSubmitSet)]
          /\ [review |-> "Unreviewed", choir |-> FALSE] \in PreSubmitSet
      BY <1>1 DEF TypeOK, PreSubmitSet, Review
    <3>2. preSubmits[puid] \in Seq(PreSubmitSet)
      BY <3>1
    <3> QED BY <1>2, <2>n, <3>1, <3>2, AppendFacts, LenProperties DEF PreSubmit
  <2>4. \A f \in used : Fits([file |-> f, type |-> "PreSubmit", target |-> << puid, n + 1 >>])'
    BY <1>1, <1>2, <2>1, PendingFacts DEF PreSubmit, Fits
  <2>5. \A f \in used : \A use \in fileInfos : use.file = f => use.type # "PreSubmit"
    BY <1>1, PendingFacts
  <2>6. UseFiles(used, "PreSubmit", << puid, n + 1 >>)
    BY <1>2, <2>n DEF PreSubmit
  <2> HIDE DEF used
  <2> QED BY <1>1, <2>2, <2>3, <2>4, <2>5, <2>6, UseKeepsUses
<1>3. ASSUME NEW puid \in Puids, NEW include \in BOOLEAN, Submit(puid, include) PROVE UsesInv'
  <2> DEFINE pending == PendingOf(puid[1], puid[2], NoManager, "Submit")
             reused == IF include THEN PreSubmitFileForSubmit(puid) ELSE {}
             used == pending \cup reused
  <2>n. PICK n : n = Len(submits[puid])
    OBVIOUS
  <2> DEFINE New(f) == [file |-> f, type |-> "Submit", target |-> << puid, n + 1 >>]
  <2>1. /\ puid = << puid[1], puid[2] >> /\ StageOfPuid(puid) = "Submit"
        /\ UNCHANGED << files, preSubmits >> /\ UseFiles(used, "Submit", << puid, n + 1 >>)
    BY <1>3, <2>n DEF Submit, ReadyToSubmit, Puids
  <2>2. ASSUME NEW f \in pending
        PROVE  /\ f \in FileIds /\ Fits(New(f))'
               /\ \A use \in fileInfos : use.file # f
    BY <1>1, <2>1, PendingFacts DEF Fits
  <2>3. ASSUME NEW f \in reused
        PROVE  /\ f \in FileIds /\ Fits(New(f))'
               /\ \A use \in fileInfos : use.file = f => use.type = "PreSubmit"
    <3>1. f \in PreSubmitFileForSubmit(puid)
      BY <2>3
    <3>2. fileInfos \subseteq fileInfos'
      BY <2>1 DEF UseFiles
    <3> QED BY <2>1, <3>1, <3>2, ReusedFacts DEF Fits
  <2> HIDE DEF pending, reused
  <2>4. used \subseteq FileIds
    BY <2>2, <2>3
  <2>5. \A f \in used : Fits(New(f))'
    BY <2>2, <2>3
  <2>6. \A f \in used : \A use \in fileInfos : use.file = f => use.type # "Submit"
    BY <2>2, <2>3
  <2> HIDE DEF used
  <2> QED BY <1>1, <2>1, <2>4, <2>5, <2>6, UseKeepsUses
<1>4. ASSUME NEW m \in Managers, NEW puid \in Puids, Master(m, puid) PROVE UsesInv'
  <2> DEFINE used == PendingOf(puid[1], puid[2], m, "Master")
  <2>1. puid = << puid[1], puid[2] >>
    BY DEF Puids
  <2>2. used \subseteq FileIds
    BY <1>1, PendingFacts
  <2>3. \A f \in used : Fits([file |-> f, type |-> "Master", target |-> << puid, 1 >>])'
    BY <1>1, <1>4, <2>1, PendingFacts DEF Master, Fits
  <2>4. \A f \in used : \A use \in fileInfos : use.file # f
    BY <1>1, PendingFacts
  <2>5. UseFiles(used, "Master", << puid, 1 >>)
    BY <1>4 DEF Master
  <2> HIDE DEF used
  <2> QED BY <1>1, <2>2, <2>3, <2>4, <2>5, UseKeepsUses
<1>5. CASE UNCHANGED fileInfos
  BY <1>1, <1>5, OldUses DEF UsesInv, TargetsExist, UsedOnce
<1> QED BY <1>2, <1>3, <1>4, <1>5, FileSteps DEF Uploads, HandsIn

\* Every use of a file fits, in every state.
LEMMA UsesInvariant == Spec => []UsesInv
<1>1. Init => UsesInv
  BY ReviewInit, FS_EmptySet DEF Init, UsesInv, TargetsExist, UsedOnce
<1> QED BY <1>1, UsesNext, PTL DEF Spec

\* What is handed in belongs to who handed it in, and was uploaded for the stage
\* or taken over from a passed pre-submit.
THEOREM UsesStayFit == Spec => []UsesFitTarget
<1>1. UsesInv => UsesFitTarget
  BY DEF UsesInv, UsesFitTarget, Fits
<1> QED BY <1>1, UsesInvariant, PTL

\* Nothing is handed in twice at one stage.
THEOREM FilesUsedOnce == Spec => []UsedOnce
<1>1. UsesInv => UsedOnce
  BY DEF UsesInv
<1> QED BY <1>1, UsesInvariant, PTL

-----------------------------------------------------------------------------
(* Uploads that wait to be handed in.                                      *)

\* The pre-submit files of a project user that count towards the limit.
Waiting(puid) ==
    {f \in FilesOf(puid[1], puid[2], NoManager, "PreSubmit") : Unused(f) /\ Live(f)}

\* A step adds none of them but an upload, and that only if there is none.
LEMMA WaitingStep ==
    ASSUME TypeInv, [Next]_vars, NEW puid \in Puids
    PROVE  \/ Waiting(puid)' \subseteq Waiting(puid)
           \/ Waiting(puid) = {} /\ Waiting(puid)' \subseteq {Len(files) + 1}
<1>1. TypeOK
  BY DEF TypeInv
<1>2. ASSUME FileIds' = FileIds
      PROVE  Waiting(puid)' \subseteq Waiting(puid)
  BY <1>2, TablesStay DEF Waiting, FilesOf, Unused, Live
<1>3. CASE Uploads
  <2>1. PICK row \in FileRow : RightStage(row) /\ InsertFile(row)
    BY <1>3 DEF Uploads
  <2> DEFINE new == Len(files) + 1
  <2>2. /\ FileIds' = FileIds \cup {new} /\ files'[new] = row
        /\ \A f \in FileIds : files'[f] = files[f]
    BY <1>1, <2>1, InsertedRow
  <2>3. UNCHANGED << deletedFiles, fileInfos >>
    BY <1>3 DEF Uploads
  <2> HIDE DEF new
  <2>4. Waiting(puid)' \subseteq Waiting(puid) \cup {new}
    BY <2>2, <2>3 DEF Waiting, FilesOf, Unused, Live
  <2>5. ASSUME new \in Waiting(puid)' PROVE Waiting(puid) = {}
    <3>1. /\ row.project = puid[1] /\ row.user = puid[2]
          /\ row.manager = NoManager /\ row.stage = "PreSubmit"
      BY <2>2, <2>5 DEF Waiting, FilesOf
    <3>2. Cardinality(Waiting(puid)) < 1
      BY <2>1, <3>1 DEF RightStage, CountNotReached, CountLimit, Waiting
    <3>3. Waiting(puid) \subseteq FileIds
      BY DEF Waiting, FilesOf
    <3>4. IsFiniteSet(Waiting(puid)) /\ Cardinality(Waiting(puid)) \in Nat
      BY <1>1, <3>3, OneFile, FS_CardinalityType
    <3>5. Cardinality(Waiting(puid)) = 0
      BY <3>2, <3>4
    <3> QED BY <3>4, <3>5, FS_EmptySet
  <2> QED BY <2>4, <2>5 DEF new
<1>4. CASE HandsIn
  <2>1. files' = files
    BY <1>4 DEF HandsIn, PreSubmit, Submit, Master
  <2> QED BY <1>2, <2>1 DEF FileIds
<1> QED BY <1>2, <1>3, <1>4, FileSteps DEF FileIds

\* There is never more than one pre-submit file to choose from.
THEOREM OnePreSubmitFileOnly == Spec => []OnePreSubmitFile
<1> DEFINE Inv == TypeInv /\ \A puid \in Puids : Cardinality(Waiting(puid)) <= 1
<1>1. ASSUME Init PROVE Inv
  <2>1. ASSUME NEW puid \in Puids PROVE Waiting(puid) = {}
    BY <1>1 DEF Init, Waiting, FilesOf, FileIds
  <2> QED BY <1>1, <2>1, TypeInit, FS_EmptySet
<1>2. Inv /\ [Next]_vars => Inv'
  <2> SUFFICES ASSUME Inv, [Next]_vars, NEW puid \in Puids
               PROVE  Cardinality(Waiting(puid)') <= 1
    BY TypeStep
  <2>1. CASE Waiting(puid)' \subseteq Waiting(puid)
    <3>1. Waiting(puid) \subseteq FileIds
      BY DEF Waiting, FilesOf
    <3>2. IsFiniteSet(Waiting(puid))
      BY <3>1, OneFile DEF TypeInv
    <3>3. /\ Cardinality(Waiting(puid)') <= Cardinality(Waiting(puid))
          /\ Cardinality(Waiting(puid)) \in Nat /\ Cardinality(Waiting(puid)') \in Nat
      BY <2>1, <3>2, FS_Subset, FS_CardinalityType
    <3> QED BY <3>3
  <2>2. CASE Waiting(puid)' \subseteq {Len(files) + 1}
    <3>1. CASE Waiting(puid)' = {}
      BY <3>1, FS_EmptySet
    <3>2. CASE Waiting(puid)' = {Len(files) + 1}
      <4>1. Cardinality({Len(files) + 1}) = 1
        BY FS_Singleton
      <4> QED BY <3>2, <4>1
    <3> QED BY <2>2, <3>1, <3>2
  <2> QED BY <2>1, <2>2, WaitingStep
<1>3. Inv => OnePreSubmitFile
  BY DEF OnePreSubmitFile, Waiting
<1> QED BY <1>1, <1>2, <1>3, PTL DEF Spec

\* While a review is due, or after the master, nothing can be handed in.
LEMMA NothingDue ==
    ASSUME ReviewInv, NEW puid \in Puids, ~IsMastered(puid)
    PROVE  /\ \A i \in DOMAIN preSubmits[puid] :
                 NotReviewed(preSubmits[puid], i) => StageOfPuid(puid) = NoStage
           /\ \A i \in DOMAIN submits[puid] :
                 NotReviewed(submits[puid], i) => StageOfPuid(puid) = NoStage
<1> DEFINE pre == preSubmits[puid]
           sub == submits[puid]
<1>1. InOrder(puid) /\ pre \in Seq(PreSubmitSet) /\ sub \in Seq(SubmitSet)
  BY DEF ReviewInv, TypeInv, TypeOK, PreSubmitSet, SubmitSet
<1>2. ASSUME NEW S, NEW s \in Seq(S), OnlyLatestOpen(s), NEW i \in DOMAIN s,
             s[i].review = "Unreviewed"
      PROVE  s # << >> /\ Latest(s).review = "Unreviewed"
  <2>1. Len(s) \in Nat /\ DOMAIN s = 1 .. Len(s) /\ (s = << >> <=> Len(s) = 0)
    BY LenProperties, EmptySeq
  <2>2. i = Len(s)
    BY <1>2, <2>1 DEF OnlyLatestOpen
  <2> QED BY <1>2, <2>1, <2>2 DEF Latest
<1>3. ASSUME NEW i \in DOMAIN pre, NotReviewed(pre, i) PROVE StageOfPuid(puid) = NoStage
  <2>1. pre # << >> /\ Latest(pre).review = "Unreviewed"
    BY <1>1, <1>2, <1>3 DEF InOrder, NotReviewed
  <2> QED BY <2>1 DEF StageOfPuid, StageOf, StatusOfPuid, StatusOf, PreSubmitStatus
<1>4. ASSUME NEW i \in DOMAIN sub, NotReviewed(sub, i) PROVE StageOfPuid(puid) = NoStage
  <2>1. sub # << >> /\ Latest(sub).review = "Unreviewed"
    BY <1>1, <1>2, <1>4 DEF InOrder, NotReviewed
  <2>2. pre # << >> /\ Latest(pre).review = "Passed"
    BY <1>1, <2>1 DEF InOrder
  <2> QED BY <2>1, <2>2 DEF StageOfPuid, StageOf, StatusOfPuid, StatusOf, SubmitStatus
<1> QED BY <1>3, <1>4

\* The stage of somebody not mastered changes by handing in, or while nothing is
\* due.
LEMMA StageStays ==
    ASSUME ReviewInv, [Next]_vars, ~HandsIn, NEW puid \in Puids, ~IsMastered(puid)
    PROVE  StageOfPuid(puid) = NoStage \/ StageOfPuid(puid)' = StageOfPuid(puid)
<1>1. UNCHANGED masters
  BY DEF HandsIn, Next, UserStep, FileStep, ManagerStep, BundleStep, AccessStep,
         OutsideStep, JoinProject, UserUploadStart, AgreeNda, UploadContinue,
         UploadFinish, DeleteFile, PreSubmitReview, SubmitReview, ManagerUploadStart,
         MarkMixed, ProjectManagerEdit, ProjectEnds, PutObject, UrlExpires, vars,
         reviewVars
<1>2. CASE UNCHANGED << preSubmits, submits, mixed >>
  BY <1>1, <1>2 DEF StageOfPuid, StatusOfPuid, IsMastered
<1>3. ASSUME NEW m \in Managers, NEW q \in Puids, NEW i \in DOMAIN preSubmits[q],
             NEW verdict \in Verdict, NEW choir \in BOOLEAN,
             PreSubmitReview(m, q, i, verdict, choir)
      PROVE  StageOfPuid(puid) = NoStage \/ StageOfPuid(puid)' = StageOfPuid(puid)
  <2>1. CASE q = puid
    BY <1>3, <2>1, NothingDue DEF PreSubmitReview
  <2>2. CASE q # puid
    BY <1>1, <1>3, <2>2
       DEF PreSubmitReview, StageOfPuid, StatusOfPuid, IsMastered, ReviewInv, TypeInv, TypeOK
  <2> QED BY <2>1, <2>2
<1>4. ASSUME NEW m \in Managers, NEW q \in Puids, NEW i \in DOMAIN submits[q],
             NEW verdict \in Verdict, NEW checked \in CheckLists,
             SubmitReview(m, q, i, verdict, checked)
      PROVE  StageOfPuid(puid) = NoStage \/ StageOfPuid(puid)' = StageOfPuid(puid)
  <2>1. CASE q = puid
    BY <1>4, <2>1, NothingDue DEF SubmitReview
  <2>2. CASE q # puid
    <3>1. submits'[puid] = submits[puid] /\ UNCHANGED << preSubmits, mixed >>
      BY <1>4, <2>2 DEF SubmitReview, ReviewInv, TypeInv, TypeOK
    <3> QED BY <1>1, <3>1 DEF StageOfPuid, StatusOfPuid, IsMastered
  <2> QED BY <2>1, <2>2
<1>5. ASSUME NEW puids \in SUBSET Puids, MarkMixed(puids)
      PROVE  StageOfPuid(puid)' = StageOfPuid(puid)
  <2>1. puid \notin puids
    BY <1>5 DEF MarkMixed
  <2>2. UNCHANGED << preSubmits, submits >> /\ (puid \in mixed' <=> puid \in mixed)
    BY <1>5, <2>1 DEF MarkMixed
  <2> QED BY <1>1, <2>2 DEF StageOfPuid, StatusOfPuid, StatusOf, IsMastered
<1> QED BY <1>2, <1>3, <1>4, <1>5
        DEF HandsIn, Next, UserStep, FileStep, ManagerStep, BundleStep, AccessStep,
            OutsideStep, JoinProject, UserUploadStart, AgreeNda, UploadContinue,
            UploadFinish, DeleteFile, ManagerUploadStart, ProjectManagerEdit,
            ProjectEnds, PutObject, UrlExpires, vars, reviewVars

\* NothingLeftBehind, of one file.
Taken(f) ==
    LET puid == << files[f].project, files[f].user >>
    IN  files[f].manager = NoManager /\ Unused(f) /\ Live(f)
            => IsMastered(puid) \/ StageOfPuid(puid) = files[f].stage

\* Handing in leaves nothing of its stage behind.
LEMMA HandInTakes ==
    ASSUME TypeOK, NEW puid \in Puids, NEW stage, StageOfPuid(puid) = stage,
           ~HaveUploading(puid[2], NoManager), ~IsMastered(puid),
           NEW f \in FileIds, puid = << files[f].project, files[f].user >>, Taken(f),
           files[f].manager = NoManager, Unused(f), Live(f)
    PROVE  f \in PendingOf(puid[1], puid[2], NoManager, stage)
<1>1. files[f].stage = stage
  BY DEF Taken
<1>2. f \in pendingFiles
  BY DEF HaveUploading, UploadedBy
<1> QED BY <1>1, <1>2 DEF PendingOf, FilesOf

\* Every step leaves nothing behind.
LEMMA TakenNext ==
    ASSUME ReviewInv, [Next]_vars, \A f \in FileIds : Taken(f)
    PROVE  \A f \in FileIds' : Taken(f)'
<1> DEFINE Owner(f) == << files[f].project, files[f].user >>
<1>1. TypeInv /\ TypeOK /\ \A f \in FileIds : files[f] \in FileRow /\ Owner(f) \in Puids
  <2>1. TypeInv /\ TypeOK
    BY DEF ReviewInv, TypeInv
  <2>2. \A f \in FileIds : files[f] \in FileRow
    BY <2>1, FileIdsOf DEF TypeOK
  <2> QED BY <2>1, <2>2 DEF FileRow, Puids
<1>2. /\ \A f \in FileIds : files'[f] = files[f]
      /\ fileInfos \subseteq fileInfos' /\ masters \subseteq masters'
      /\ deletedFiles \subseteq deletedFiles'
  BY <1>1, TablesStay
<1>3. \A q : IsMastered(q) => IsMastered(q)'
  BY <1>2 DEF IsMastered
<1>4. \A f \in FileIds : /\ Unused(f)' => Unused(f)
                         /\ Live(f)' => Live(f)
  BY <1>2 DEF Unused, Live
<1>5. ASSUME NEW f \in FileIds, ~HandsIn PROVE Taken(f)'
  <2>1. files[f].stage # NoStage
    BY <1>1 DEF FileRow, Stage, NoStage
  <2> QED BY <1>1, <1>2, <1>3, <1>4, <1>5, <2>1, StageStays DEF Taken
<1>6. CASE Uploads /\ ~HandsIn
  <2>1. PICK row \in FileRow : RightStage(row) /\ InsertFile(row)
    BY <1>6 DEF Uploads
  <2>n. PICK new : new = Len(files) + 1
    OBVIOUS
  <2>2. FileIds' = FileIds \cup {new} /\ files'[new] = row
    BY <1>1, <2>1, <2>n, InsertedRow
  <2>3. UNCHANGED << preSubmits, submits, masters, mixed >>
    BY <1>6 DEF Uploads
  <2>4. Taken(new)'
    BY <2>1, <2>2, <2>3 DEF RightStage, Taken, StageOfPuid, StatusOfPuid, IsMastered
  <2> QED BY <1>5, <1>6, <2>2, <2>4
<1>7. ASSUME NEW puid \in Puids, NEW f \in FileIds, NEW stage,
             /\ StageOfPuid(puid) = stage
             /\ ~HaveUploading(puid[2], NoManager)
             /\ \A g \in PendingOf(puid[1], puid[2], NoManager, stage) : ~Unused(g)'
             /\ \A q \in Puids \ {puid} : StageOfPuid(q)' = StageOfPuid(q)
      PROVE  Taken(f)'
  <2>1. CASE Owner(f) = puid
    BY <1>1, <1>2, <1>3, <1>4, <1>7, <2>1, HandInTakes DEF Taken
  <2>2. CASE Owner(f) # puid
    BY <1>1, <1>2, <1>3, <1>4, <1>7, <2>2 DEF Taken
  <2> QED BY <2>1, <2>2
<1>8. ASSUME NEW puid \in Puids, NEW skip \in BOOLEAN, PreSubmit(puid, skip),
             NEW f \in FileIds
      PROVE  Taken(f)'
  <2> DEFINE used == PendingOf(puid[1], puid[2], NoManager, "PreSubmit")
  <2>1. StageOfPuid(puid) = "PreSubmit" /\ ~HaveUploading(puid[2], NoManager)
    BY <1>8 DEF PreSubmit
  <2>2. \A g \in used : ~Unused(g)'
    <3>1. PICK target : UseFiles(used, "PreSubmit", target)
      BY <1>8 DEF PreSubmit
    <3> HIDE DEF used
    <3>2. \A g \in used : [file |-> g, type |-> "PreSubmit", target |-> target] \in fileInfos'
      BY <3>1 DEF UseFiles
    <3> QED BY <3>2 DEF Unused
  <2>3. \A q \in Puids \ {puid} : StageOfPuid(q)' = StageOfPuid(q)
    BY <1>1, <1>8 DEF PreSubmit, StageOfPuid, StatusOfPuid, IsMastered, TypeOK
  <2> HIDE DEF used
  <2> QED BY <1>7, <2>1, <2>2, <2>3 DEF used
<1>9. ASSUME NEW puid \in Puids, NEW include \in BOOLEAN, Submit(puid, include),
             NEW f \in FileIds
      PROVE  Taken(f)'
  <2> DEFINE pending == PendingOf(puid[1], puid[2], NoManager, "Submit")
             reused == IF include THEN PreSubmitFileForSubmit(puid) ELSE {}
  <2>1. StageOfPuid(puid) = "Submit" /\ ~HaveUploading(puid[2], NoManager)
    BY <1>9 DEF Submit, ReadyToSubmit
  <2>2. \A g \in pending : ~Unused(g)'
    <3>1. PICK target : UseFiles(pending \cup reused, "Submit", target)
      BY <1>9 DEF Submit
    <3> HIDE DEF pending, reused
    <3>2. \A g \in pending : [file |-> g, type |-> "Submit", target |-> target] \in fileInfos'
      BY <3>1 DEF UseFiles
    <3> QED BY <3>2 DEF Unused
  <2>3. \A q \in Puids \ {puid} : StageOfPuid(q)' = StageOfPuid(q)
    <3>1. UNCHANGED << preSubmits, masters, mixed >>
          /\ \A q \in Puids \ {puid} : submits'[q] = submits[q]
      BY <1>1, <1>9 DEF Submit, TypeOK
    <3> QED BY <3>1 DEF StageOfPuid, StatusOfPuid, IsMastered
  <2> HIDE DEF pending
  <2> QED BY <1>7, <2>1, <2>2, <2>3 DEF pending
<1>10. ASSUME NEW puid \in Puids, NEW m \in Managers, Master(m, puid), NEW f \in FileIds
       PROVE  Taken(f)'
  <2>1. IsMastered(puid)'
    BY <1>10 DEF Master, IsMastered
  <2>2. \A q \in Puids \ {puid} : StageOfPuid(q)' = StageOfPuid(q)
    BY <1>10 DEF Master, StageOfPuid, StatusOfPuid, IsMastered
  <2> QED BY <1>1, <1>2, <1>3, <1>4, <2>1, <2>2 DEF Taken
<1>11. CASE HandsIn
  <2>1. FileIds' = FileIds
    BY <1>11 DEF HandsIn, PreSubmit, Submit, Master, FileIds
  <2> QED BY <1>8, <1>9, <1>10, <1>11, <2>1 DEF HandsIn
<1> QED BY <1>5, <1>6, <1>11, FileSteps DEF FileIds

\* Whatever a user uploaded and did not delete is handed in with the next
\* submission; the status does not move on without it.
THEOREM NothingStaysBehind == Spec => []NothingLeftBehind
<1> DEFINE Inv == ReviewInv /\ \A f \in FileIds : Taken(f)
<1>1. Init => Inv
  BY ReviewInit DEF Init, FileIds
<1>2. Inv /\ [Next]_vars => Inv'
  BY ReviewNext, TakenNext
<1>3. Inv => NothingLeftBehind
  BY DEF NothingLeftBehind, Taken
<1> QED BY <1>1, <1>2, <1>3, PTL DEF Spec

\* An upload left unfinished in a project that has ended keeps its user from
\* handing in anything, anywhere.
THEOREM StrandedStays == Spec => StrandedForGood
<1> DEFINE Stays == \A u \in Users : Stranded(u) => Stranded(u)' /\ NothingHandedIn(u)
<1>1. TypeInv /\ [Next]_vars => Stays
  <2> SUFFICES ASSUME TypeInv, [Next]_vars, NEW u \in Users, Stranded(u)
               PROVE  Stranded(u)' /\ NothingHandedIn(u)
    OBVIOUS
  <2>1. PICK f \in UploadedBy(u, NoManager) : f \notin pendingFiles /\ Live(f) /\ ~FileOpen(f)
    BY DEF Stranded
  <2>2. f \in FileIds /\ f \in FileIds' /\ files'[f] = files[f]
    BY <2>1, TablesStay DEF UploadedBy
  <2>3. f \notin pendingFiles' /\ f \notin deletedFiles' /\ ended \subseteq ended'
    <3>1. CASE FileStep
      BY <2>1, <3>1 DEF Live, FileStep, UploadContinue, UploadFinish, DeleteFile,
                        fileVars, placeVars
    <3>2. CASE UserStep
      BY <2>1, <3>2 DEF Live, UserStep, JoinProject, UserUploadStart, PreSubmit, AgreeNda,
                        Submit, fileVars, placeVars
    <3>3. CASE ManagerStep
      <4>1. ASSUME NEW m \in Managers, NEW puid \in Puids,
                   \/ \E i \in DOMAIN preSubmits[puid], verdict \in Verdict, choir \in BOOLEAN :
                          PreSubmitReview(m, puid, i, verdict, choir)
                   \/ \E i \in DOMAIN submits[puid], verdict \in Verdict, checked \in CheckLists :
                          SubmitReview(m, puid, i, verdict, checked)
            PROVE  UNCHANGED << pendingFiles, deletedFiles, ended >>
        BY <4>1 DEF PreSubmitReview, SubmitReview, fileVars, placeVars
      <4>2. ASSUME NEW m \in Managers, NEW puid \in Puids,
                   \/ \E md5 \in Md5s, size \in Sizes : ManagerUploadStart(m, puid, md5, size)
                   \/ Master(m, puid)
            PROVE  UNCHANGED << pendingFiles, deletedFiles, ended >>
        BY <4>2 DEF ManagerUploadStart, Master, placeVars
      <4> QED BY <2>1, <3>3, <4>1, <4>2 DEF Live, ManagerStep
    <3>4. CASE BundleStep \/ AccessStep \/ OutsideStep \/ UNCHANGED vars
      BY <2>1, <3>4 DEF Live, BundleStep, MarkMixed, AccessStep, ProjectManagerEdit,
                        OutsideStep, ProjectEnds, PutObject, UrlExpires, vars, fileVars,
                        placeVars
    <3> QED BY <3>1, <3>2, <3>3, <3>4 DEF Next
  <2>4. Stranded(u)'
    BY <2>1, <2>2, <2>3 DEF Stranded, UploadedBy, Live, FileOpen
  <2>5. NothingHandedIn(u)
    <3>1. HaveUploading(u, NoManager)
      BY <2>1 DEF HaveUploading
    <3>2. ASSUME NEW p \in Projects
          PROVE  /\ Len(preSubmits'[<< p, u >>]) = Len(preSubmits[<< p, u >>])
                 /\ Len(submits'[<< p, u >>]) = Len(submits[<< p, u >>])
      <4>1. << p, u >> \in Puids
        BY DEF Puids
      <4>2. /\ \A skip \in BOOLEAN : ~PreSubmit(<< p, u >>, skip)
            /\ \A include \in BOOLEAN : ~Submit(<< p, u >>, include)
        BY <3>1 DEF PreSubmit, Submit
      <4> QED BY <4>1, <4>2, SubmissionsStay
    <3> QED BY <3>2 DEF NothingHandedIn
  <2> QED BY <2>4, <2>5
<1>2. StrandedForGood <=> [][Stays]_vars
  BY DEF StrandedForGood
<1> QED BY <1>1, <1>2, TypeInvariant, PTL DEF Spec

-----------------------------------------------------------------------------
(* Ended projects.                                                         *)

\* A step on one project user changes nothing of another project.
LEMMA OthersFrozen ==
    ASSUME NEW p \in Projects, NEW puid \in Puids, puid[1] # p,
           \A q \in Puids \ {puid} : UserFrozen(q)
    PROVE  UsersFrozen(p)
<1>1. ASSUME NEW u \in Users PROVE << p, u >> \in Puids \ {puid}
  BY DEF Puids
<1> QED BY <1>1 DEF UsersFrozen

\* A user whose rows do not change is frozen.
LEMMA SameUserFrozen ==
    ASSUME NEW q, preSubmits'[q] = preSubmits[q], submits'[q] = submits[q],
           q \in joined' <=> q \in joined, q \in ndaAgreed' <=> q \in ndaAgreed,
           UNCHANGED masters
    PROVE  UserFrozen(q)
BY DEF UserFrozen, IsMastered

\* A step that leaves all users alone freezes them.
LEMMA SameUsersFrozen ==
    ASSUME NEW p, UNCHANGED << joined, preSubmits, submits, ndaAgreed, masters >>
    PROVE  UsersFrozen(p)
BY SameUserFrozen DEF UsersFrozen

\* A step that leaves all file tables alone freezes them.
LEMMA SameFilesFrozen == ASSUME NEW p, UNCHANGED fileVars PROVE FilesFrozen(p)
BY DEF FilesFrozen, FileIds, fileVars

\* Using files for another project changes nothing of an ended one.
LEMMA UseFilesFrozen ==
    ASSUME NEW p, NEW puid \in Puids, puid[1] # p, NEW used, NEW stage, NEW i,
           UseFiles(used, stage, << puid, i >>),
           UNCHANGED << files, pendingFiles, deletedFiles >>
    PROVE  FilesFrozen(p)
BY DEF UseFiles, FilesFrozen, FileIds

\* A new row of another project changes nothing of an ended one.
LEMMA InsertFrozen ==
    ASSUME TypeOK, NEW p, NEW row \in FileRow, row.project # p, InsertFile(row),
           UNCHANGED << pendingFiles, deletedFiles, fileInfos >>
    PROVE  FilesFrozen(p)
<1>1. /\ FileIds' = FileIds \cup {Len(files) + 1}
      /\ files'[Len(files) + 1] = row
  BY InsertFileProperties, AppendFacts DEF TypeOK, InsertFile
<1>2. {f \in FileIds' : f \in FileIds' /\ files'[f].project = p}
        = {f \in FileIds : f \in FileIds' /\ files'[f].project = p}
  BY <1>1
<1> QED BY <1>2 DEF FilesFrozen

\* With the deadline behind it, a project stands still for every handler.
THEOREM EndedProjectsStayFrozen == Spec => EndedProjectsFrozen
<1>1. TypeInv /\ [Next]_vars => \A p \in ended : UsersFrozen(p) /\ FilesFrozen(p)
  <2> SUFFICES ASSUME TypeInv, [Next]_vars, NEW p \in ended
               PROVE  UsersFrozen(p) /\ FilesFrozen(p)
    OBVIOUS
  <2>t. TypeOK /\ p \in Projects
    BY DEF TypeInv, TypeOK
  <2>1. ASSUME NEW puid \in Puids, JoinProject(puid)
        PROVE  UsersFrozen(p) /\ FilesFrozen(p)
    <3>1. \A q \in Puids \ {puid} : UserFrozen(q)
      BY <2>1, SameUserFrozen DEF JoinProject, reviewVars
    <3> QED BY <2>t, <2>1, <3>1, OthersFrozen, SameFilesFrozen DEF JoinProject
  <2>2. ASSUME NEW puid \in Puids, NEW md5 \in Md5s, NEW size \in Sizes,
               UserUploadStart(puid, md5, size)
        PROVE  UsersFrozen(p) /\ FilesFrozen(p)
    <3>1. PICK row \in FileRow : InsertFile(row) /\ row.project # p
      BY <2>2 DEF UserUploadStart, FileRow, Stage, Puids, JoinedAndOpen
    <3> QED BY <2>t, <2>2, <3>1, InsertFrozen, SameUsersFrozen
            DEF UserUploadStart, placeVars, reviewVars
  <2>3. ASSUME NEW m \in Managers, NEW puid \in Puids, NEW md5 \in Md5s,
               NEW size \in Sizes, ManagerUploadStart(m, puid, md5, size)
        PROVE  UsersFrozen(p) /\ FilesFrozen(p)
    <3>1. PICK row \in FileRow : InsertFile(row) /\ row.project # p
      BY <2>3 DEF ManagerUploadStart, FileRow, Stage, Puids, CanAccess
    <3> QED BY <2>t, <2>3, <3>1, InsertFrozen, SameUsersFrozen
            DEF ManagerUploadStart, placeVars, reviewVars
  <2>4. ASSUME NEW puid \in Puids, NEW skip \in BOOLEAN, PreSubmit(puid, skip)
        PROVE  UsersFrozen(p) /\ FilesFrozen(p)
    <3>1. puid[1] # p
      BY <2>4 DEF PreSubmit, JoinedAndOpen
    <3>2. FilesFrozen(p)
      BY <2>4, <3>1, UseFilesFrozen DEF PreSubmit
    <3>3. \A q \in Puids \ {puid} : UserFrozen(q)
      BY <2>t, <2>4, SameUserFrozen DEF PreSubmit, placeVars, TypeOK
    <3> QED BY <2>t, <3>1, <3>2, <3>3, OthersFrozen
  <2>5. ASSUME NEW puid \in Puids, AgreeNda(puid)
        PROVE  UsersFrozen(p) /\ FilesFrozen(p)
    <3>1. \A q \in Puids \ {puid} : UserFrozen(q)
      BY <2>5, SameUserFrozen DEF AgreeNda, placeVars
    <3> QED BY <2>t, <2>5, <3>1, OthersFrozen, SameFilesFrozen DEF AgreeNda, JoinedAndOpen
  <2>6. ASSUME NEW puid \in Puids, NEW include \in BOOLEAN, Submit(puid, include)
        PROVE  UsersFrozen(p) /\ FilesFrozen(p)
    <3>1. puid[1] # p
      BY <2>6 DEF Submit, JoinedAndOpen
    <3>2. FilesFrozen(p)
      BY <2>6, <3>1, UseFilesFrozen DEF Submit
    <3>3. \A q \in Puids \ {puid} : UserFrozen(q)
      BY <2>t, <2>6, SameUserFrozen DEF Submit, placeVars, TypeOK
    <3> QED BY <2>t, <3>1, <3>2, <3>3, OthersFrozen
  <2>7. ASSUME NEW m \in Managers, NEW puid \in Puids, NEW i \in DOMAIN preSubmits[puid],
               NEW verdict \in Verdict, NEW choir \in BOOLEAN,
               PreSubmitReview(m, puid, i, verdict, choir)
        PROVE  UsersFrozen(p) /\ FilesFrozen(p)
    <3>1. \A q \in Puids \ {puid} : UserFrozen(q)
      BY <2>t, <2>7, SameUserFrozen DEF PreSubmitReview, placeVars, TypeOK
    <3> QED BY <2>t, <2>7, <3>1, OthersFrozen, SameFilesFrozen DEF PreSubmitReview, CanAccess
  <2>8. ASSUME NEW m \in Managers, NEW puid \in Puids, NEW i \in DOMAIN submits[puid],
               NEW verdict \in Verdict, NEW checked \in CheckLists,
               SubmitReview(m, puid, i, verdict, checked)
        PROVE  UsersFrozen(p) /\ FilesFrozen(p)
    <3>1. \A q \in Puids \ {puid} : UserFrozen(q)
      BY <2>t, <2>8, SameUserFrozen DEF SubmitReview, placeVars, TypeOK
    <3> QED BY <2>t, <2>8, <3>1, OthersFrozen, SameFilesFrozen DEF SubmitReview, CanAccess
  <2>9. ASSUME NEW m \in Managers, NEW puid \in Puids, Master(m, puid)
        PROVE  UsersFrozen(p) /\ FilesFrozen(p)
    <3>1. puid[1] # p
      BY <2>9 DEF Master, CanAccess
    <3>2. FilesFrozen(p)
      BY <2>9, <3>1, UseFilesFrozen DEF Master
    <3>3. \A q \in Puids \ {puid} : UserFrozen(q)
      BY <2>9 DEF Master, placeVars, UserFrozen, IsMastered
    <3> QED BY <2>t, <3>1, <3>2, <3>3, OthersFrozen
  <2>10. ASSUME NEW f \in FileIds,
                UploadContinue(f) \/ UploadFinish(f) \/ DeleteFile(f)
         PROVE  UsersFrozen(p) /\ FilesFrozen(p)
    <3>1. files[f].project # p /\ files' = files
      BY <2>10 DEF UploadContinue, UploadFinish, DeleteFile, FileOpen, fileVars
    <3>2. FilesFrozen(p)
      BY <2>10, <3>1
         DEF UploadContinue, UploadFinish, DeleteFile, FilesFrozen, FileIds, fileVars
    <3> QED BY <2>10, <3>2, SameUsersFrozen
            DEF UploadContinue, UploadFinish, DeleteFile, placeVars, reviewVars
  <2>11. CASE \/ BundleStep \/ AccessStep \/ OutsideStep \/ UNCHANGED vars
    <3>1. UNCHANGED fileVars
          /\ UNCHANGED << joined, preSubmits, submits, ndaAgreed, masters >>
      BY <2>11 DEF BundleStep, MarkMixed, AccessStep, ProjectManagerEdit, OutsideStep,
                   ProjectEnds, PutObject, UrlExpires, vars, placeVars, reviewVars
    <3> QED BY <3>1, SameFilesFrozen, SameUsersFrozen
  <2> QED BY <2>1, <2>2, <2>3, <2>4, <2>5, <2>6, <2>7, <2>8, <2>9, <2>10, <2>11
          DEF Next, UserStep, FileStep, ManagerStep
<1> QED BY <1>1, TypeInvariant, PTL DEF Spec, EndedProjectsFrozen

-----------------------------------------------------------------------------
(* What a bundle job reads.                                                *)

\* A master has files.
MastersHaveFiles == \A puid \in Puids : IsMastered(puid) => MasterFiles(puid) # {}

\* What a step does to the masters and their files.
LEMMA MasterFilesStep ==
    ASSUME TypeInv, [Next]_vars, NEW puid \in Puids
    PROVE  \/ (IsMastered(puid)' <=> IsMastered(puid)) /\ MasterFiles(puid)' = MasterFiles(puid)
           \/ \E m \in Managers : Master(m, puid)
<1>1. CASE UNCHANGED << fileInfos, masters >>
  BY <1>1 DEF IsMastered, MasterFiles
<1>2. CASE Uploads
  BY <1>1, <1>2 DEF Uploads
<1>3. ASSUME NEW q \in Puids, NEW skip \in BOOLEAN, PreSubmit(q, skip)
      PROVE  (IsMastered(puid)' <=> IsMastered(puid)) /\ MasterFiles(puid)' = MasterFiles(puid)
  <2>1. UNCHANGED masters /\ \A use \in fileInfos' : use.type = "Master" => use \in fileInfos
    BY <1>3 DEF PreSubmit, UseFiles
  <2>2. fileInfos \subseteq fileInfos'
    BY TablesStay
  <2> QED BY <2>1, <2>2 DEF IsMastered, MasterFiles
<1>4. ASSUME NEW q \in Puids, NEW include \in BOOLEAN, Submit(q, include)
      PROVE  (IsMastered(puid)' <=> IsMastered(puid)) /\ MasterFiles(puid)' = MasterFiles(puid)
  <2>1. UNCHANGED masters /\ \A use \in fileInfos' : use.type = "Master" => use \in fileInfos
    BY <1>4 DEF Submit, UseFiles
  <2>2. fileInfos \subseteq fileInfos'
    BY TablesStay
  <2> QED BY <2>1, <2>2 DEF IsMastered, MasterFiles
<1>5. ASSUME NEW q \in Puids, q # puid, NEW m \in Managers, Master(m, q)
      PROVE  (IsMastered(puid)' <=> IsMastered(puid)) /\ MasterFiles(puid)' = MasterFiles(puid)
  <2>1. /\ masters' = masters \cup {<< q, m >>}
        /\ \A use \in fileInfos' : use.target[1] = puid => use \in fileInfos
    BY <1>5 DEF Master, UseFiles
  <2>2. fileInfos \subseteq fileInfos'
    BY TablesStay
  <2> QED BY <1>5, <2>1, <2>2 DEF IsMastered, MasterFiles
<1> QED BY <1>1, <1>2, <1>3, <1>4, <1>5, FileSteps DEF HandsIn

\* Mastering gives a user who has no master files some.
LEMMA MasterGivesFiles ==
    ASSUME NEW puid \in Puids, NEW m \in Managers, Master(m, puid)
    PROVE  ~IsMastered(puid) /\ MasterFiles(puid)' # {}
<1>1. PICK f : f \in PendingOf(puid[1], puid[2], m, "Master")
  BY DEF Master
<1>2. [file |-> f, type |-> "Master", target |-> << puid, 1 >>] \in fileInfos'
  BY <1>1 DEF Master, UseFiles
<1> QED BY <1>2 DEF Master, MasterFiles

\* From the moment of mastering, what a bundle job would read of the user stays
\* as it is, in the tables and in the object store.
THEOREM JobInputsStay == Spec => JobInputsKept
<1> DEFINE Kept(puid) ==
               /\ IsMastered(puid)'
               /\ MasterFiles(puid) # {} /\ MasterFiles(puid)' = MasterFiles(puid)
               /\ \A f \in MasterFiles(puid) :
                     files'[f] = files[f] /\ KeyOf(files[f]) \in objects'
           Inv == FilesInv /\ MastersHaveFiles
<1>1. Init => Inv
  BY FilesInit DEF Init, MastersHaveFiles, IsMastered
<1>2. Inv /\ [Next]_vars => Inv'
  <2> SUFFICES ASSUME Inv, [Next]_vars, NEW puid \in Puids, IsMastered(puid)'
               PROVE  MasterFiles(puid)' # {}
    BY FilesNext DEF MastersHaveFiles
  <2> QED BY MasterFilesStep, MasterGivesFiles DEF MastersHaveFiles, FilesInv
<1>3. Inv /\ [Next]_vars => \A puid \in Puids : IsMastered(puid) => Kept(puid)
  <2> SUFFICES ASSUME Inv, [Next]_vars, NEW puid \in Puids, IsMastered(puid)
               PROVE  Kept(puid)
    OBVIOUS
  <2>1. TypeInv /\ TypeOK /\ FilesInv' /\ MasterFiles(puid) # {}
    BY FilesNext DEF FilesInv, TypeInv, MastersHaveFiles
  <2>2. IsMastered(puid)' /\ MasterFiles(puid)' = MasterFiles(puid)
    BY <2>1, MasterFilesStep, MasterGivesFiles
  <2>3. ASSUME NEW f \in MasterFiles(puid)
        PROVE  files'[f] = files[f] /\ KeyOf(files[f]) \in objects'
    <3>1. PICK use \in fileInfos : use.file = f
      BY DEF MasterFiles
    <3>2. f \in FileIds /\ files'[f] = files[f] /\ use \in fileInfos'
      BY <2>1, <3>1, TablesStay DEF TypeOK
    <3>3. KeyOf(files'[f]) \in objects'
      BY <2>1, <3>1, <3>2 DEF FilesInv, UsedFilesStored, KeyOf
    <3> QED BY <3>2, <3>3
  <2> QED BY <2>1, <2>2, <2>3
<1>4. JobInputsKept <=> [][\A puid \in Puids : IsMastered(puid) => Kept(puid)]_vars
  BY DEF JobInputsKept
<1> QED BY <1>1, <1>2, <1>3, <1>4, PTL DEF Spec
=============================================================================
