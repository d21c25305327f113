------------------------------ MODULE BundleProps ----------------------------
(***************************************************************************)
(* What is true of BundleJob.                                               *)
(***************************************************************************)
EXTENDS BundleJob

Pc == {"Spawned", "Fetching", "Hanging", "Stored", "Finishing", "Leaving", "Done",
       "Dropped"}

\* The shape of the tables, the map and the tasks.
TypeOK ==
    /\ jobs \subseteq JobIds
    /\ includes \subseteq jobs \X Puids
    /\ mixedRows \subseteq [puid : Puids, job : JobIds, task : DOMAIN tasks]
    /\ finishedRows \subseteq JobIds \X DOMAIN tasks
    /\ tars \subseteq JobIds \X SUBSET Puids
    /\ submission \subseteq [job : JobIds, users : SUBSET Puids]
    /\ tasks \in Seq([job : JobIds, users : SUBSET Puids,
                      fetched : SUBSET Puids, pc : Pc])
    /\ Len(tasks) <= MaxTasks
    /\ pendingJobs \subseteq [job : JobIds, task : DOMAIN tasks,
                              cancel : BOOLEAN, wait : BOOLEAN]
    /\ server \in {"Serving", "Canceling", "Waiting", "Down"}
    /\ waitingFor \in {0} \cup DOMAIN tasks

UsersOf(j)  == {puid \in Puids : << j, puid >> \in includes}
Finished(j) == \E t \in TaskIds : << j, t >> \in finishedRows
Working(t)  == tasks[t].pc \in {"Fetching", "Hanging", "Stored", "Finishing", "Leaving"}

-----------------------------------------------------------------------------
(* The tables.                                                             *)

\* Nobody is in two jobs, whatever fails: do_job_submit looks before it writes,
\* in the transaction that writes.
IncludedOnce ==
    \A j, k \in jobs : j # k => UsersOf(j) \cap UsersOf(k) = {}

\* Unless a submit fails to commit, no user is marked as mixed twice and no job
\* is finished twice, though no index of the tables forbids it.
OnlyOnce ==
    /\ \A r1, r2 \in mixedRows : r1.puid = r2.puid => r1 = r2
    /\ \A f1, f2 \in finishedRows : f1[1] = f2[1] => f1 = f2

\* What a finished job offers for download are the files of the users it
\* includes: todo.md:77, "bundle select project user's master files".
ArchivesFit ==
    \A j \in jobs : Finished(j) =>
        {tar \in tars : tar[1] = j} = {<< j, UsersOf(j) >>}

\* Unless a submit fails to commit, the users marked as mixed are those of the
\* finished jobs and each job's row says which, however the job's transactions
\* interleave.
MixedByTheirJob ==
    /\ \A j \in JobIds : Finished(j) =>
           j \in jobs /\ \A puid \in UsersOf(j) :
                             \E row \in mixedRows : row.job = j /\ row.puid = puid
    /\ \A row \in mixedRows : Finished(row.job) /\ << row.job, row.puid >> \in includes

\* A job without a task that could finish it.
Lost(j) ==
    /\ j \in jobs /\ ~Finished(j)
    /\ \A t \in DOMAIN tasks :
           tasks[t].job = j => ~Live(t) \/ tasks[t].pc \in {"Leaving", "Hanging"}

\* A job that failed, hangs, was canceled or dropped stays lost, and none of its users
\* will ever be mixed: a restart does not resume it, and its users are refused
\* in every other job.
LostForGood ==
    [][\A j \in jobs : Lost(j) =>
           /\ Lost(j)'
           /\ \A puid \in UsersOf(j) :
                  /\ \A row \in mixedRows' : row.puid # puid
                  /\ \A k \in jobs' \ {j} : << k, puid >> \notin includes']_vars

-----------------------------------------------------------------------------
(* The shutdown.                                                           *)

\* cancel_jobs never finds an entry whose receiver it has already taken, so its
\* loop never spins: "expect the job remove the entry before send to wait",
\* lib.rs:531.
NeverSpins == server = "Canceling" => \A e \in pendingJobs : e.wait

\* Unless a submit fails to commit, no task that put itself into the map is still
\* at work when cancel_jobs finds the map empty: none is cut off between the
\* upload and the last transaction.  A task that has not come so far as to put
\* itself there is dropped.
OrderlyExit ==
    server = "Canceling" /\ pendingJobs = {} => \A t \in DOMAIN tasks : ~Working(t)

\* A shutdown comes to an end, whatever the database does and whatever the object
\* store answers, or cancel_jobs is left waiting for a task that the store does
\* not answer: nothing else, no lost answer, replaced entry or failing
\* transaction, holds it up (cancel_jobs, spawn_job).
ShutdownEnds ==
    server = "Canceling" ~>
        \/ server = "Down"
        \/ server = "Waiting" /\ tasks[waitingFor].pc = "Hanging"

\* If nothing fails, a job that was accepted finishes unless the server stops
\* serving first: no task is held up for good by requests or by other tasks.
JobsFinish ==
    \A j \in JobIds :
        j \in jobs /\ ~Lost(j) ~> Finished(j) \/ server # "Serving"

-----------------------------------------------------------------------------
(* The abstract specification.                                             *)

Mixed   == {puid \in Puids : \E row \in mixedRows : row.puid = puid}
Bundles == {tar \in tars : Finished(tar[1])}

Promise == INSTANCE Ledger WITH mixed <- Mixed, bundles <- Bundles

\* Unless a submit fails to commit, tasks and requests together do what Ledger
\* promises, also when a last transaction does not commit or the process dies.
FollowsLedger == Promise!Spec
==============================================================================
