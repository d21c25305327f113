-------------------------------- MODULE Recruit ------------------------------
(***************************************************************************)
(* The recruiting of a virtual choir: users join projects, upload files,    *)
(* pre-submit and submit them; managers review, upload masters and master.  *)
(* This module models every handler of the backend that writes the tables   *)
(* project_users, files, pending_files, deleted_files, file_infos,          *)
(* status_pre_submits, status_submits, status_masters, review_*,            *)
(* checked_files, nda_agreed and project_managers.                          *)
(*                                                                          *)
(* A handler runs in one transaction that begins with BEGIN IMMEDIATE and   *)
(* commits when the handler returns Ok, so each handler is one action; a    *)
(* request the handler refuses writes nothing and is no step.  Clients may  *)
(* send any request at any time, stop at any point and come back.           *)
(*                                                                          *)
(* A project user is named by the pair <<project, user>> and a pre-submit   *)
(* or submit by its position among those of its project user; the program   *)
(* names them by row ids, which SQLite hands out in increasing order.       *)
(***************************************************************************)
EXTENDS ProjectUser, Integers, FiniteSets, FiniteSetsExt

CONSTANTS
    Users, Projects, Managers,
    Root,               \* the manager that has access to every project
    NoManager,          \* manager_id NULL: the file was uploaded by the user
    NoGroup,            \* checked_file_group_id NULL
    NoCheck,            \* a submit review without a list of checked files
    NdaProjects,        \* the projects with a non-disclosure agreement
    Md5s,               \* the contents a file can have
    Sizes,              \* the sizes an upload can declare, negative ones too
    SizeLimits,         \* of a project: smallest and largest file per stage
    Capacity,           \* of unused files, per user and per manager
    SubmitCountLimit,   \* most unused Submit or Master files (100 in the code)
    CheckLists,         \* the lists a submit review may carry
    MaxFiles, MaxPreSubmits, MaxSubmits     \* bounds of the model

Puids == Projects \X Users

ASSUME ConstantsAssumption ==
    /\ Root \in Managers
    /\ NoManager \notin Managers
    /\ NdaProjects \subseteq Projects
    /\ Sizes \subseteq Int
    /\ SizeLimits \in [Stage -> [min : Int, max : Int]]
    /\ Capacity \in Nat
    /\ SubmitCountLimit \in Nat \ {0}
    /\ NoGroup \notin Nat
    /\ MaxFiles \in Nat /\ MaxPreSubmits \in Nat /\ MaxSubmits \in Nat
    /\ \A list \in CheckLists \ {NoCheck} : list \subseteq Nat /\ IsFiniteSet(list)

VARIABLES
    joined,         \* project_users
    ended,          \* the projects whose end_time has passed
    access,         \* project_managers_latest, as <<project, manager>>
    files,          \* files, a row's id being its position
    pendingFiles,   \* pending_files: ids of the files whose upload finished
    deletedFiles,   \* deleted_files
    fileInfos,      \* file_infos: what uses a file
    urls,           \* S3 keys with a presigned upload request not yet expired
    objects,        \* S3 keys under which an object is stored
    preSubmits,     \* status_pre_submits with review_pre_submits, per puid
    submits,        \* status_submits with review_submits, per puid
    checkedFiles,   \* checked_files, as <<group_id, file_id>>
    ndaAgreed,      \* nda_agreed
    masters,        \* status_masters, as <<puid, manager>>
    mixed           \* status_mixed

fileVars   == << files, pendingFiles, deletedFiles, fileInfos >>
s3Vars     == << urls, objects >>
reviewVars == << preSubmits, submits, checkedFiles, ndaAgreed, masters, mixed >>
placeVars  == << joined, ended, access >>
vars       == << placeVars, fileVars, s3Vars, reviewVars >>

-----------------------------------------------------------------------------
(* The status of a project user and the access of a manager.               *)

IsMastered(puid) == \E m \in Managers : << puid, m >> \in masters

StatusOfPuid(puid) ==
    StatusOf(preSubmits[puid], submits[puid], IsMastered(puid), puid \in mixed)

StageOfPuid(puid) == StageOf(StatusOfPuid(puid))

NdaPending(puid) == puid[1] \in NdaProjects /\ puid \notin ndaAgreed

\* UserToken::verify_joined_project for a request that writes.
JoinedAndOpen(puid) == puid \in joined /\ puid[1] \notin ended

\* ManagerToken::verify_can_access_project for a request that writes.
CanAccess(m, p) == (m = Root \/ << p, m >> \in access) /\ p \notin ended

-----------------------------------------------------------------------------
(* Files.                                                                  *)

FileRow == [project : Projects, user : Users, manager : Managers \cup {NoManager},
            stage : Stage, md5 : Md5s, size : Sizes]

FileIds == DOMAIN files

\* Mutant of KeyOf: a key without the stage.
KeyOf_NoStage(row) == << row.project, row.user, row.md5 >>

\* The manager is not part of the key.
KeyOf(row) == << row.project, row.user, row.stage, row.md5 >>
S3Keys == Projects \X Users \X Stage \X Md5s

Unused(f)  == \A use \in fileInfos : use.file # f
UsesOf(f)  == {use \in fileInfos : use.file = f}
Live(f)    == f \notin deletedFiles

\* The files uploaded by the user, or by the manager whoever they are for.
UploadedBy(u, m) ==
    {f \in FileIds : /\ files[f].manager = m
                     /\ m = NoManager => files[f].user = u}

\* Mutants of HaveUploading: the check is left out, or looks at open projects
\* only.
HaveUploading_Never(u, m) == FALSE
HaveUploading_Open(u, m) ==
    \E f \in UploadedBy(u, m) :
        f \notin pendingFiles /\ Live(f) /\ files[f].project \notin ended

\* file::have_uploading: in whatever project.
HaveUploading(u, m) ==
    \E f \in UploadedBy(u, m) : f \notin pendingFiles /\ Live(f)

\* Mutant of FilesOf: whoever uploaded them.
FilesOf_AnyUploader(p, u, m, stage) ==
    {f \in FileIds : /\ files[f].project = p /\ files[f].user = u
                     /\ files[f].stage = stage}

FilesOf(p, u, m, stage) ==
    {f \in FileIds : /\ files[f].project = p /\ files[f].user = u
                     /\ files[f].manager = m /\ files[f].stage = stage}

\* Mutants of PendingOf: without the clause on deleted_files, and without the
\* one on file_infos.
PendingOf_Deleted(p, u, m, stage) ==
    {f \in FilesOf(p, u, m, stage) : f \in pendingFiles /\ Unused(f)}
PendingOf_Used(p, u, m, stage) ==
    {f \in FilesOf(p, u, m, stage) : f \in pendingFiles /\ Live(f)}

\* file::Info::get_pending
PendingOf(p, u, m, stage) ==
    {f \in FilesOf(p, u, m, stage) : f \in pendingFiles /\ Unused(f) /\ Live(f)}

CountLimit(stage) == IF stage = "PreSubmit" THEN 1 ELSE SubmitCountLimit

\* Mutant of CountNotReached: only the files whose upload finished.
CountNotReached_Finished(p, u, m, stage) ==
    Cardinality(PendingOf(p, u, m, stage)) < CountLimit(stage)

\* Also counts the files still uploading, which PendingOf leaves out.
CountNotReached(p, u, m, stage) ==
    Cardinality({f \in FilesOf(p, u, m, stage) : Unused(f) /\ Live(f)})
        < CountLimit(stage)

\* The deleted files count, too.
UnusedSize(u, m) ==
    LET size(f) == files[f].size
    IN  MapThenSumSet(size, {f \in UploadedBy(u, m) : Unused(f)})

\* Mutant of EnoughCapacity: the new file is not added.
EnoughCapacity_Before(u, m, size) == UnusedSize(u, m) <= Capacity

EnoughCapacity(u, m, size) == UnusedSize(u, m) + size <= Capacity

\* Mutant of FileOpen: the deadline is not looked up.
FileOpen_Always(f) == TRUE

\* file::verify_project_not_ended_by_id
FileOpen(f) == files[f].project \notin ended

\* file::upload_start: insert the row and hand out a presigned request.
InsertFile(row) ==
    /\ Len(files) < MaxFiles
    /\ files' = Append(files, row)
    /\ urls' = urls \cup {KeyOf(row)}

\* file::use_file for each of the files.
UseFiles(fs, stage, target) ==
    fileInfos' = fileInfos \cup
        {[file |-> f, type |-> stage, target |-> target] : f \in fs}

-----------------------------------------------------------------------------
(* The handlers of the user API.                                           *)

Init ==
    /\ joined = {} /\ ended = {} /\ access = {}
    /\ files = << >> /\ pendingFiles = {} /\ deletedFiles = {} /\ fileInfos = {}
    /\ urls = {} /\ objects = {}
    /\ preSubmits = [puid \in Puids |-> << >>]
    /\ submits = [puid \in Puids |-> << >>]
    /\ checkedFiles = {} /\ ndaAgreed = {} /\ masters = {} /\ mixed = {}

\* join_project, with the right answer.
JoinProject(puid) ==
    /\ puid[1] \notin ended
    /\ puid \notin joined
    /\ joined' = joined \cup {puid}
    /\ UNCHANGED << ended, access, fileVars, s3Vars, reviewVars >>

\* upload_file Start: the stage is the one the user's status asks for.
UserUploadStart(puid, md5, size) ==
    LET stage == StageOfPuid(puid)
        row   == [project |-> puid[1], user |-> puid[2], manager |-> NoManager,
                  stage |-> stage, md5 |-> md5, size |-> size]
    IN  /\ JoinedAndOpen(puid)
        /\ stage \in {"PreSubmit", "Submit"}
        /\ size \in SizeLimits[stage].min .. SizeLimits[stage].max
        /\ CountNotReached(puid[1], puid[2], NoManager, stage)
        /\ EnoughCapacity(puid[2], NoManager, size)
        /\ InsertFile(row)
        /\ UNCHANGED << placeVars, pendingFiles, deletedFiles, fileInfos,
                        objects, reviewVars >>

\* upload_file Continue, of the user and of the manager API; the caller is
\* whoever uploads the file, a manager with or without access to the project.
UploadContinue(f) ==
    /\ FileOpen(f)
    /\ f \notin pendingFiles
    /\ Live(f)
    /\ urls' = urls \cup {KeyOf(files[f])}
    /\ UNCHANGED << placeVars, fileVars, objects, reviewVars >>

\* upload_file Finish, of either API: a deleted file may be finished, too.
UploadFinish(f) ==
    /\ FileOpen(f)
    /\ f \notin pendingFiles
    /\ KeyOf(files[f]) \in objects
    /\ pendingFiles' = pendingFiles \cup {f}
    /\ UNCHANGED << placeVars, files, deletedFiles, fileInfos, s3Vars,
                    reviewVars >>

\* delete_file, of either API: deleting twice writes nothing, deleting a used
\* file is refused.
DeleteFile(f) ==
    /\ FileOpen(f)
    /\ Live(f)
    /\ f \in pendingFiles => Unused(f)
    /\ deletedFiles' = deletedFiles \cup {f}
    /\ UNCHANGED << placeVars, files, pendingFiles, fileInfos, s3Vars,
                    reviewVars >>

\* pre_submit: with one file, or with none and the skip password.
PreSubmit(puid, skip) ==
    LET pending == PendingOf(puid[1], puid[2], NoManager, "PreSubmit")
        i       == Len(preSubmits[puid]) + 1
    IN  /\ i <= MaxPreSubmits
        /\ JoinedAndOpen(puid)
        /\ ~HaveUploading(puid[2], NoManager)
        /\ Cardinality(pending) = IF skip THEN 0 ELSE 1
        /\ StageOfPuid(puid) = "PreSubmit"
        /\ preSubmits' = [preSubmits EXCEPT ![puid] =
               Append(@, [review |-> "Unreviewed", choir |-> FALSE])]
        /\ UseFiles(pending, "PreSubmit", << puid, i >>)
        /\ UNCHANGED << placeVars, files, pendingFiles, deletedFiles, s3Vars,
                        submits, checkedFiles, ndaAgreed, masters, mixed >>

\* agree_nda: accepted only between passing the pre-submit and submitting.
AgreeNda(puid) ==
    /\ JoinedAndOpen(puid)
    /\ NdaPending(puid)
    /\ StatusOfPuid(puid) = "PreSubmitPassed"
    /\ ndaAgreed' = ndaAgreed \cup {puid}
    /\ UNCHANGED << placeVars, fileVars, s3Vars, preSubmits, submits,
                    checkedFiles, masters, mixed >>

\* file::get_pre_submit_file_for_submit: the file of a passed choir pre-submit
\* that nothing else uses.  The latest pre-submit has at most one file.
PreSubmitFileForSubmit(puid) ==
    {f \in FileIds :
        /\ StageOfPuid(puid) = "Submit"
        /\ Latest(preSubmits[puid]).choir
        /\ [file |-> f, type |-> "PreSubmit",
            target |-> << puid, Len(preSubmits[puid]) >>] \in fileInfos
        /\ Live(f) /\ f \in pendingFiles
        /\ Cardinality(UsesOf(f)) = 1}

\* Mutant of ReadyToSubmit: the agreement is not asked for.
ReadyToSubmit_NoNda(puid) == StageOfPuid(puid) = "Submit"

ReadyToSubmit(puid) == ~NdaPending(puid) /\ StageOfPuid(puid) = "Submit"

\* submit: no file at all is accepted, the check is commented out.
Submit(puid, includePreSubmitFile) ==
    LET pending == PendingOf(puid[1], puid[2], NoManager, "Submit")
        reused  == IF includePreSubmitFile
                   THEN PreSubmitFileForSubmit(puid) ELSE {}
        i       == Len(submits[puid]) + 1
    IN  /\ i <= MaxSubmits
        /\ JoinedAndOpen(puid)
        /\ ReadyToSubmit(puid)
        /\ ~HaveUploading(puid[2], NoManager)
        /\ submits' = [submits EXCEPT ![puid] =
               Append(@, [review |-> "Unreviewed", group |-> NoGroup])]
        /\ UseFiles(pending \cup reused, "Submit", << puid, i >>)
        /\ UNCHANGED << placeVars, files, pendingFiles, deletedFiles, s3Vars,
                        preSubmits, checkedFiles, ndaAgreed, masters, mixed >>

-----------------------------------------------------------------------------
(* The handlers of the manager API.                                        *)

\* Mutant of NotReviewed: a second review is accepted.
NotReviewed_Never(submissions, i) == TRUE

NotReviewed(submissions, i) == submissions[i].review = "Unreviewed"

\* pre_submit_review: any pre-submit not yet reviewed, not only the latest.
\* A passing review puts the user into groups, of which choir matters later.
PreSubmitReview(m, puid, i, verdict, choir) ==
    /\ CanAccess(m, puid[1])
    /\ NotReviewed(preSubmits[puid], i)
    /\ verdict = "Rejected" => ~choir
    /\ preSubmits' = [preSubmits EXCEPT ![puid] =
           [@ EXCEPT ![i] = [review |-> verdict, choir |-> choir]]]
    /\ UNCHANGED << placeVars, fileVars, s3Vars, submits, checkedFiles,
                    ndaAgreed, masters, mixed >>

FilesOfGroup(g) == {row[2] : row \in {r \in checkedFiles : r[1] = g}}

GroupIds(puid) ==
    {submits[puid][i].group : i \in DOMAIN submits[puid]} \ {NoGroup}

\* The list a project user's checked files show: that of the largest group id
\* among the reviews.
CheckedList(puid) ==
    IF GroupIds(puid) = {} THEN NoCheck ELSE FilesOfGroup(Max(GroupIds(puid)))

\* Mutant of NextGroupId: the largest group id itself.
NextGroupId_Same == Max({row[1] : row \in checkedFiles} \cup {0})

\* One more than the largest group id that has a row.
NextGroupId == Max({row[1] : row \in checkedFiles} \cup {0}) + 1

\* submit_review: the list of checked files gets a group of its own unless it
\* is the one the project user already has.
SubmitReview(m, puid, i, verdict, checked) ==
    LET newGroup == checked # NoCheck /\ checked # CheckedList(puid)
        group    == IF newGroup THEN NextGroupId ELSE NoGroup
    IN  /\ CanAccess(m, puid[1])
        /\ NotReviewed(submits[puid], i)
        /\ submits' = [submits EXCEPT ![puid] =
               [@ EXCEPT ![i] = [review |-> verdict, group |-> group]]]
        /\ checkedFiles' = checkedFiles \cup
               (IF newGroup THEN {group} \X checked ELSE {})
        /\ UNCHANGED << placeVars, fileVars, s3Vars, preSubmits, ndaAgreed,
                        masters, mixed >>

\* upload_file Start of the manager API.  The status of the user plays no
\* part; the size has no lower bound and its upper bound is exclusive.
ManagerUploadStart(m, puid, md5, size) ==
    LET row == [project |-> puid[1], user |-> puid[2], manager |-> m,
                stage |-> "Master", md5 |-> md5, size |-> size]
    IN  /\ puid \in joined
        /\ CanAccess(m, puid[1])
        /\ size < SizeLimits["Master"].max
        /\ CountNotReached(puid[1], puid[2], m, "Master")
        /\ EnoughCapacity(puid[2], m, size)
        /\ InsertFile(row)
        /\ UNCHANGED << placeVars, pendingFiles, deletedFiles, fileInfos,
                        objects, reviewVars >>

\* Mutant of Master: a user is mastered again.
Master_Again(m, puid) ==
    LET pending == PendingOf(puid[1], puid[2], m, "Master")
    IN  /\ puid \in joined
        /\ CanAccess(m, puid[1])
        /\ ~HaveUploading(puid[2], m)
        /\ pending # {}
        /\ masters' = masters \cup {<< puid, m >>}
        /\ UseFiles(pending, "Master", << puid, 1 >>)
        /\ UNCHANGED << placeVars, files, pendingFiles, deletedFiles, s3Vars,
                        preSubmits, submits, checkedFiles, ndaAgreed, mixed >>

\* master: the status of the user plays no part here either.
Master(m, puid) ==
    LET pending == PendingOf(puid[1], puid[2], m, "Master")
    IN  /\ puid \in joined
        /\ CanAccess(m, puid[1])
        /\ ~IsMastered(puid)
        /\ ~HaveUploading(puid[2], m)
        /\ pending # {}
        /\ masters' = masters \cup {<< puid, m >>}
        /\ UseFiles(pending, "Master", << puid, 1 >>)
        /\ UNCHANGED << placeVars, files, pendingFiles, deletedFiles, s3Vars,
                        preSubmits, submits, checkedFiles, ndaAgreed, mixed >>

\* The last transaction of a bundle job (run_job): one row for every project
\* user of the job.  They were mastered and had a name, that is a pre-submit,
\* when the job was submitted, and are in no other job.
MarkMixed(puids) ==
    /\ puids # {}
    /\ \A puid \in puids : /\ IsMastered(puid) /\ puid \notin mixed
                           /\ preSubmits[puid] # << >>
    /\ mixed' = mixed \cup puids
    /\ UNCHANGED << placeVars, fileVars, s3Vars, preSubmits, submits,
                    checkedFiles, ndaAgreed, masters >>

\* project_manager_edit, by root: the latest row for the pair decides.
ProjectManagerEdit(m, p, revoke) ==
    /\ access' = IF revoke THEN access \ {<< p, m >>} ELSE access \cup {<< p, m >>}
    /\ UNCHANGED << joined, ended, fileVars, s3Vars, reviewVars >>

-----------------------------------------------------------------------------
(* The world outside the backend: the clock and the object store.          *)

ProjectEnds(p) ==
    /\ ended' = ended \cup {p}
    /\ UNCHANGED << joined, access, fileVars, s3Vars, reviewVars >>

\* A client carries out a presigned request.  The md5 is part of the key and
\* of the signature, so the object under a key is the declared content.
PutObject(key) ==
    /\ objects' = objects \cup {key}
    /\ UNCHANGED << placeVars, fileVars, urls, reviewVars >>

UrlExpires(key) ==
    /\ urls' = urls \ {key}
    /\ UNCHANGED << placeVars, fileVars, objects, reviewVars >>

-----------------------------------------------------------------------------

UserStep ==
    \E puid \in Puids :
        \/ JoinProject(puid)
        \/ \E md5 \in Md5s, size \in Sizes : UserUploadStart(puid, md5, size)
        \/ \E skip \in BOOLEAN : PreSubmit(puid, skip)
        \/ AgreeNda(puid)
        \/ \E include \in BOOLEAN : Submit(puid, include)

FileStep ==
    \E f \in FileIds : UploadContinue(f) \/ UploadFinish(f) \/ DeleteFile(f)

ManagerStep ==
    \E m \in Managers, puid \in Puids :
        \/ \E i \in DOMAIN preSubmits[puid], verdict \in Verdict, choir \in BOOLEAN :
               PreSubmitReview(m, puid, i, verdict, choir)
        \/ \E i \in DOMAIN submits[puid], verdict \in Verdict, checked \in CheckLists :
               SubmitReview(m, puid, i, verdict, checked)
        \/ \E md5 \in Md5s, size \in Sizes : ManagerUploadStart(m, puid, md5, size)
        \/ Master(m, puid)

BundleStep == \E puids \in SUBSET Puids : MarkMixed(puids)

AccessStep ==
    \E m \in Managers \ {Root}, p \in Projects, revoke \in BOOLEAN :
        ProjectManagerEdit(m, p, revoke)

OutsideStep ==
    \/ \E p \in Projects : ProjectEnds(p)
    \/ \E key \in urls : PutObject(key) \/ UrlExpires(key)

Next == UserStep \/ FileStep \/ ManagerStep \/ BundleStep \/ AccessStep
        \/ OutsideStep

Spec == Init /\ [][Next]_vars
==============================================================================
