------------------------------ MODULE RecruitProps ---------------------------
(***************************************************************************)
(* What is true of Recruit, and what a reader of the code might think is.   *)
(***************************************************************************)
EXTENDS Recruit

\* Every table holds rows of its shape: ids refer to files that exist, reviews
\* to the three values they can have.
TypeOK ==
    /\ joined \subseteq Puids
    /\ ended \subseteq Projects
    /\ access \subseteq Projects \X Managers
    /\ files \in Seq(FileRow)
    /\ pendingFiles \subseteq FileIds
    /\ deletedFiles \subseteq FileIds
    /\ fileInfos \subseteq [file : FileIds, type : Stage, target : Puids \X Nat]
    /\ urls \subseteq S3Keys
    /\ objects \subseteq S3Keys
    /\ preSubmits \in [Puids -> Seq([review : Review, choir : BOOLEAN])]
    /\ submits \in [Puids -> Seq([review : Review, group : Nat \cup {NoGroup}])]
    /\ checkedFiles \subseteq Nat \X Nat
    /\ ndaAgreed \subseteq Puids
    /\ masters \subseteq Puids \X Managers
    /\ mixed \subseteq Puids

-----------------------------------------------------------------------------
(* Files.                                                                  *)

\* A user never has two unused PreSubmit files in a project, finished or not:
\* the branch of pre_submit that calls it an internal error to find more than
\* one is dead, however uploads, deletions and rejections interleave.
OnePreSubmitFile ==
    \A puid \in Puids :
        Cardinality({f \in FilesOf(puid[1], puid[2], NoManager, "PreSubmit") :
                        Unused(f) /\ Live(f)}) <= 1

\* What a pre-submit, submit or master refers to can still be downloaded: the
\* file's upload was finished, nobody deleted it before or after its use, and
\* the object store holds it.
UsedFilesStored ==
    \A use \in fileInfos :
        /\ use.file \in pendingFiles
        /\ Live(use.file)
        /\ KeyOf(files[use.file]) \in objects

\* The file of a use belongs to the project user of its target, was uploaded
\* for that stage and, for a master, by the manager who mastered.  The one
\* exception: a submit may take over the file of a passed choir pre-submit.
UsesFitTarget ==
    \A use \in fileInfos :
        LET row  == files[use.file]
            puid == use.target[1]
        IN  /\ << row.project, row.user >> = puid
            /\ \/ row.stage = use.type
               \/ /\ row.stage = "PreSubmit" /\ use.type = "Submit"
                  /\ \E i \in DOMAIN preSubmits[puid] :
                        /\ preSubmits[puid][i] = [review |-> "Passed", choir |-> TRUE]
                        /\ [file |-> use.file, type |-> "PreSubmit",
                            target |-> << puid, i >>] \in fileInfos
            /\ IF use.type = "Master"
               THEN << puid, row.manager >> \in masters
               ELSE row.manager = NoManager

\* No file is handed in twice at the same stage: neither after a rejection nor
\* by two requests; a pre-submit refers to one file at most.
UsedOnce ==
    \A u1, u2 \in fileInfos :
        /\ u1.file = u2.file /\ u1.type = u2.type => u1 = u2
        /\ u1.type = "PreSubmit" /\ u2.type = "PreSubmit" /\ u1.target = u2.target
              => u1 = u2

\* A file a user uploaded but did not hand in is one the next (pre-)submit will
\* take: no file is left behind when the status moves on.  A manager who
\* masters early does leave files behind, hence the exception.
NothingLeftBehind ==
    \A f \in FileIds :
        LET puid == << files[f].project, files[f].user >>
        IN  files[f].manager = NoManager /\ Unused(f) /\ Live(f)
                => IsMastered(puid) \/ StageOfPuid(puid) = files[f].stage

MasterFiles(puid) ==
    {use.file : use \in {v \in fileInfos : v.type = "Master" /\ v.target[1] = puid}}

\* A bundle job reads the files of a master when it is submitted and downloads
\* them some time later: from the moment of mastering they are there, no second
\* master adds to them, and each is and stays stored as it was uploaded.
JobInputsKept ==
    [][\A puid \in Puids : IsMastered(puid) =>
          /\ IsMastered(puid)'
          /\ MasterFiles(puid) # {} /\ MasterFiles(puid)' = MasterFiles(puid)
          /\ \A f \in MasterFiles(puid) :
                files'[f] = files[f] /\ KeyOf(files[f]) \in objects']_vars

\* The size of the unused files of an uploader and, used or not, of the files
\* declared with a negative size.
UnusedOrNegative(u, m) ==
    {f \in UploadedBy(u, m) : Unused(f) \/ files[f].size < 0}

SizeWithoutRoom(u, m) ==
    LET size(f) == files[f].size IN MapThenSumSet(size, UnusedOrNegative(u, m))

\* However uploads, deletions and uses interleave over all projects, the unused
\* files of a user or a manager, root included, exceed the capacity at most by
\* the room that files of negative size made before they were used up.  The
\* handlers take such a size wherever the limits of the project do, and those
\* of a manager's upload have no lower end; without one nothing exceeds it.
WithinCapacity ==
    \A u \in Users, m \in Managers \cup {NoManager} :
        /\ SizeWithoutRoom(u, m) <= Capacity
        /\ (\A f \in UploadedBy(u, m) : files[f].size >= 0)
               => UnusedSize(u, m) <= Capacity

-----------------------------------------------------------------------------
(* Reviews.                                                                *)

\* Only the latest pre-submit and the latest submit can be anything but
\* rejected, and whoever has submitted has passed the latest pre-submit.  The
\* code relies on it when it asks for the groups of a user about to submit.
ReviewHistory ==
    \A puid \in Puids :
        /\ \A i \in DOMAIN preSubmits[puid] :
               i < Len(preSubmits[puid]) => preSubmits[puid][i].review = "Rejected"
        /\ \A i \in DOMAIN submits[puid] :
               i < Len(submits[puid]) => submits[puid][i].review = "Rejected"
        /\ submits[puid] # << >> =>
               /\ preSubmits[puid] # << >>
               /\ Latest(preSubmits[puid]).review = "Passed"

\* In a project with an agreement nobody gets beyond PreSubmitPassed without
\* agreeing: agree_nda calls a pending agreement after that an internal error.
NdaBeforeSubmit ==
    \A puid \in Puids :
        NdaPending(puid) => StatusOfPuid(puid) \notin AfterPreSubmitPassed

VerdictsKept ==
    \A puid \in Puids :
        /\ \A i \in DOMAIN preSubmits[puid] :
              preSubmits[puid][i].review # "Unreviewed" =>
                  preSubmits'[puid][i] = preSubmits[puid][i]
        /\ \A i \in DOMAIN submits[puid] :
              submits[puid][i].review # "Unreviewed" =>
                  submits'[puid][i] = submits[puid][i]

\* A verdict, once given, is final: no second review, by whichever manager,
\* changes it or the groups it put the user into.
VerdictsFinal == [][VerdictsKept]_vars

UserFrozen(puid) ==
    /\ puid \in joined' <=> puid \in joined
    /\ preSubmits'[puid] = preSubmits[puid]
    /\ submits'[puid] = submits[puid]
    /\ puid \in ndaAgreed' <=> puid \in ndaAgreed
    /\ IsMastered(puid)' <=> IsMastered(puid)

UsersFrozen(p) == \A u \in Users : UserFrozen(<< p, u >>)

FilesFrozen(p) ==
    LET Of(fs) == {f \in fs : f \in FileIds' /\ files'[f].project = p}
        UsesIn(uses) == {use \in uses : use.target[1][1] = p}
    IN  /\ Of(FileIds') = Of(FileIds)
        /\ Of(pendingFiles') = Of(pendingFiles)
        /\ Of(deletedFiles') = Of(deletedFiles)
        /\ UsesIn(fileInfos') = UsesIn(fileInfos)

\* After the end of a project no handler changes anything of it but who manages
\* it; a bundle job, which checks no deadline, is the one exception.
EndedProjectsFrozen == [][\A p \in ended : UsersFrozen(p) /\ FilesFrozen(p)]_vars

\* A user with an upload that was not finished before its project ended.
Stranded(u) ==
    \E f \in UploadedBy(u, NoManager) :
        f \notin pendingFiles /\ Live(f) /\ ~FileOpen(f)

NothingHandedIn(u) ==
    \A p \in Projects : /\ Len(preSubmits'[<< p, u >>]) = Len(preSubmits[<< p, u >>])
                        /\ Len(submits'[<< p, u >>]) = Len(submits[<< p, u >>])

\* Whoever leaves an upload unfinished when a project ends can neither finish
\* nor delete it, and pre-submits and submits nothing any more, in any project:
\* have_uploading looks at all of them.
StrandedForGood ==
    [][\A u \in Users : Stranded(u) => Stranded(u)' /\ NothingHandedIn(u)]_vars

-----------------------------------------------------------------------------
(* The files a manager ticks off in a submit review.                       *)

\* A review that carries a list leaves the project user with exactly that list,
\* and a review without one leaves the list alone, although an unchanged list
\* is not stored again.
ReviewSetsCheckedList ==
    [][\A m \in Managers, puid \in Puids, checked \in CheckLists :
          \A i \in DOMAIN submits[puid], verdict \in Verdict :
              SubmitReview(m, puid, i, verdict, checked) =>
                  CheckedList(puid)' =
                      IF checked = NoCheck THEN CheckedList(puid) ELSE checked]_vars

\* The review of one project user never changes the list of another.
CheckedListsApart ==
    [][\A puid \in Puids :
          submits'[puid] = submits[puid] => CheckedList(puid)' = CheckedList(puid)]_vars

-----------------------------------------------------------------------------
(* The way of a project user, as the abstract specification has it.        *)

JourneyStatus ==
    [puid \in Puids |-> IF puid \in joined THEN StatusOfPuid(puid) ELSE "NotJoined"]

Journey == INSTANCE Progress WITH
    NeedsNda <- {puid \in Puids : puid[1] \in NdaProjects},
    status   <- JourneyStatus,
    agreed   <- ndaAgreed

\* Every handler moves every project user along the promised steps or not at
\* all.
FollowsProgress == Journey!Spec

-----------------------------------------------------------------------------
(* The review of a submission, as the abstract specification has it.  A     *)
(* submission is there from the start, without a review.                    *)

Submissions == {"PreSubmit"} \X Puids \X (1 .. MaxPreSubmits)
                   \cup {"Submit"} \X Puids \X (1 .. MaxSubmits)

\* What a review decides: the verdict, or that the user passes into the choir.
DecisionOf(row) ==
    IF "choir" \in DOMAIN row /\ row.choir THEN "Choir" ELSE row.review

DecisionsOn(s) ==
    LET rows == IF s[1] = "PreSubmit" THEN preSubmits[s[2]] ELSE submits[s[2]]
    IN  {DecisionOf(rows[i]) :
            i \in {j \in DOMAIN rows : j = s[3] /\ rows[j].review # "Unreviewed"}}

Decisions == INSTANCE Reviewing WITH
    Reviews   <- Verdict \cup {"Choir"},
    reviewsOf <- [s \in Submissions |-> DecisionsOn(s)]

\* A handler decides on one submission at most, on which nobody has decided,
\* and the decision stays, whoever reviews again and whatever is handed in.
FollowsReviewing == Decisions!Spec

-----------------------------------------------------------------------------
(* What comments and notes beside the code say and the code does not keep.  *)

\* bundle_job/mod.rs:157, "expect pre-submit passed when mastered".
MasteredAfterPassing ==
    \A puid \in Puids :
        IsMastered(puid) => /\ preSubmits[puid] # << >>
                            /\ Latest(preSubmits[puid]).review = "Passed"

\* migrations/20250606_0001_init.sql:47, of the end time: "any changes related to
\* this project is not allowed after this time".
MixedBeforeEnd ==
    [][\A puid \in Puids : puid[1] \in ended /\ puid \in mixed' => puid \in mixed]_vars
==============================================================================
