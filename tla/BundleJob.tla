------------------------------- MODULE BundleJob ------------------------------
(***************************************************************************)
(* The jobs that bundle the masters of project users for the mixing, and    *)
(* the shutdown that cancels them.                                          *)
(*                                                                          *)
(* A request to submit a job writes it in a transaction and, before the     *)
(* transaction commits, spawns a task.  The task puts itself into the map   *)
(* of pending jobs, fetches the files, stores them as one archive and, in a *)
(* transaction of its own, marks the users as mixed and the job as          *)
(* finished; whatever way it ends, it leaves the map.  At a shutdown        *)
(* cancel_jobs goes through the map, cancels each job and waits for it.     *)
(* What is not over then, or at a crash, is dropped with its transactions.  *)
(*                                                                          *)
(* The tables outlive the process; tasks and the map do not, and nothing    *)
(* starts an unfinished job again: resume_jobs has no caller.               *)
(***************************************************************************)
EXTENDS Naturals, Sequences, FiniteSets

CONSTANTS
    Puids,          \* project users that have been mastered and have a name
    MaxTasks,       \* bound of the model: tasks ever spawned
    Faults          \* what may go wrong

ASSUME ConstantsAssumption ==
    /\ MaxTasks \in Nat
    /\ Faults \subseteq {"Submit", "Store", "Hang", "Finish", "Crash"}

JobIds  == 1 .. MaxTasks    \* a job has a task of its own
TaskIds == 1 .. MaxTasks

VARIABLES
    jobs,           \* bundle_jobs
    includes,       \* bundle_job_includes, as <<job, puid>>
    mixedRows,      \* status_mixed; the task tells two rows of a job apart
    finishedRows,   \* bundle_jobs_finished, as <<job, task>>
    tars,           \* the objects /uploads/{pid}/mixed/{job}.tar, as <<job, puids>>
    submission,     \* the job an open transaction wrote, at most one
    tasks,          \* the tasks spawned so far, oldest first
    pendingJobs,    \* ServerState::pending_jobs: at most one entry per job
    server,         \* Serving, Canceling, Waiting or Down
    waitingFor      \* the task cancel_jobs waits for

dbVars     == << jobs, includes, mixedRows, finishedRows >>
serverVars == << server, waitingFor >>
vars       == << dbVars, tars, submission, tasks, pendingJobs, serverVars >>

Live(t) == tasks[t].pc \notin {"Done", "Dropped"}

\* Mutant of Submitted: the users of a job count once it has finished.
Submitted_Finished(puid) == \E row \in mixedRows : row.puid = puid

\* is_submited_by_puid: whoever is in a job, finished or not.
Submitted(puid) == \E j \in jobs : << j, puid >> \in includes

\* Mutant of NextJobId: the number of jobs.
NextJobId_Count == Cardinality(jobs)

\* SQLite gives a new row the largest id plus one; rows are never deleted, but
\* the id of a row that was not committed is given out again.
NextJobId == Cardinality(jobs) + 1

\* The sender of the cancellation is in the map until cancel_jobs uses it; it
\* is dropped with the entry, and a dropped sender cancels, too.
Canceled(t) ==
    ~\E e \in pendingJobs : e.job = tasks[t].job /\ e.task = t /\ e.cancel

\* The task stores what it fetched, over what is there.
PutTar(t) ==
    tars' = {tar \in tars : tar[1] # tasks[t].job} \cup
                {<< tasks[t].job, tasks[t].fetched >>}

Goto(t, pc) == tasks' = [tasks EXCEPT ![t].pc = pc]

-----------------------------------------------------------------------------
(* The request to submit a job.                                            *)

Init ==
    /\ jobs = {} /\ includes = {} /\ mixedRows = {} /\ finishedRows = {}
    /\ tars = {} /\ submission = {}
    /\ tasks = << >>
    /\ pendingJobs = {}
    /\ server = "Serving" /\ waitingFor = 0

\* do_job_submit up to the end of its transaction.  It runs in a task of its
\* own, which the 15 s timeout of the request does not end, so that it may
\* still be going on after the server has stopped serving.
SubmitJob(users) ==
    /\ server # "Down"
    /\ submission = {}
    /\ Len(tasks) < MaxTasks
    /\ \A puid \in users : ~Submitted(puid)
    /\ submission' = {[job |-> NextJobId, users |-> users]}
    /\ tasks' = Append(tasks, [job |-> NextJobId, users |-> users,
                               fetched |-> {}, pc |-> "Spawned"])
    /\ UNCHANGED << dbVars, tars, pendingJobs, serverVars >>

CommitJob ==
    /\ \E s \in submission :
        /\ jobs' = jobs \cup {s.job}
        /\ includes' = includes \cup ({s.job} \X s.users)
    /\ submission' = {}
    /\ UNCHANGED << mixedRows, finishedRows, tars, tasks, pendingJobs, serverVars >>

\* The commit fails, for instance because a reader kept its lock too long.
\* The task has been spawned and goes on.
RollbackJob ==
    /\ "Submit" \in Faults
    /\ submission # {}
    /\ submission' = {}
    /\ UNCHANGED << dbVars, tars, tasks, pendingJobs, serverVars >>

-----------------------------------------------------------------------------
(* The task: spawn_job and run_job.                                        *)

\* Mutant of Register: the sender of the cancellation is not kept.
Register_NoSender(t) ==
    /\ tasks[t].pc = "Spawned"
    /\ pendingJobs' = {e \in pendingJobs : e.job # tasks[t].job} \cup
           {[job |-> tasks[t].job, task |-> t, cancel |-> FALSE, wait |-> TRUE]}
    /\ Goto(t, "Fetching")
    /\ UNCHANGED << dbVars, tars, submission, serverVars >>

\* HashMap::insert: an entry under the same id is dropped.
Register(t) ==
    /\ tasks[t].pc = "Spawned"
    /\ pendingJobs' = {e \in pendingJobs : e.job # tasks[t].job} \cup
           {[job |-> tasks[t].job, task |-> t, cancel |-> TRUE, wait |-> TRUE]}
    /\ Goto(t, "Fetching")
    /\ UNCHANGED << dbVars, tars, submission, serverVars >>

\* One round of the loop over the users' files, all files of a user at once.
Fetch(t) ==
    /\ tasks[t].pc = "Fetching"
    /\ ~Canceled(t)
    /\ \E puid \in tasks[t].users \ tasks[t].fetched :
           tasks' = [tasks EXCEPT ![t].fetched = @ \cup {puid}]
    /\ UNCHANGED << dbVars, tars, submission, pendingJobs, serverVars >>

\* Mutant of Store: after the first user.
Store_Early(t) ==
    /\ tasks[t].pc = "Fetching"
    /\ tasks[t].fetched # {}
    /\ ~Canceled(t)
    /\ PutTar(t)
    /\ Goto(t, "Stored")
    /\ UNCHANGED << dbVars, submission, pendingJobs, serverVars >>

Store(t) ==
    /\ tasks[t].pc = "Fetching"
    /\ tasks[t].fetched = tasks[t].users
    /\ ~Canceled(t)
    /\ PutTar(t)
    /\ Goto(t, "Stored")
    /\ UNCHANGED << dbVars, submission, pendingJobs, serverVars >>

\* The last check_cancel; from here on the task does not stop for a shutdown.
LastCheck(t) ==
    /\ tasks[t].pc = "Stored"
    /\ ~Canceled(t)
    /\ Goto(t, "Finishing")
    /\ UNCHANGED << dbVars, tars, submission, pendingJobs, serverVars >>

\* Mutant of Finish: the row in bundle_jobs_finished is left out.
Finish_Unrecorded(t) ==
    /\ tasks[t].pc = "Finishing"
    /\ submission = {}
    /\ mixedRows' = mixedRows \cup
           {[puid |-> puid, job |-> tasks[t].job, task |-> t] : puid \in tasks[t].users}
    /\ Goto(t, "Leaving")
    /\ UNCHANGED << jobs, includes, finishedRows, tars, submission, pendingJobs,
                    serverVars >>

\* The last transaction; it waits for the transaction of a submit request.
Finish(t) ==
    /\ tasks[t].pc = "Finishing"
    /\ submission = {}
    /\ mixedRows' = mixedRows \cup
           {[puid |-> puid, job |-> tasks[t].job, task |-> t] : puid \in tasks[t].users}
    /\ finishedRows' = finishedRows \cup {<< tasks[t].job, t >>}
    /\ Goto(t, "Leaving")
    /\ UNCHANGED << jobs, includes, tars, submission, pendingJobs, serverVars >>

\* check_cancel finds the task canceled.
Stop(t) ==
    /\ tasks[t].pc \in {"Fetching", "Stored"}
    /\ Canceled(t)
    /\ Goto(t, "Leaving")
    /\ UNCHANGED << dbVars, tars, submission, pendingJobs, serverVars >>

\* A download or the upload fails; an upload may fail after the object store
\* has taken the object.
StoreFails(t) ==
    /\ "Store" \in Faults
    /\ tasks[t].pc = "Fetching"
    /\ \/ UNCHANGED tars
       \/ /\ tasks[t].fetched = tasks[t].users /\ ~Canceled(t)
          /\ PutTar(t)
    /\ Goto(t, "Leaving")
    /\ UNCHANGED << dbVars, submission, pendingJobs, serverVars >>

\* The object store never answers a download or the upload, whether or not it
\* has taken the object.  There is no timeout, and check_cancel comes between
\* two calls only: the task takes no further step.
StoreHangs(t) ==
    /\ "Hang" \in Faults
    /\ tasks[t].pc = "Fetching"
    /\ ~Canceled(t)
    /\ \/ UNCHANGED tars
       \/ tasks[t].fetched = tasks[t].users /\ PutTar(t)
    /\ Goto(t, "Hanging")
    /\ UNCHANGED << dbVars, submission, pendingJobs, serverVars >>

\* The last transaction cannot begin, or does not commit.
CommitFails(t) ==
    /\ "Finish" \in Faults
    /\ tasks[t].pc = "Finishing"
    /\ Goto(t, "Leaving")
    /\ UNCHANGED << dbVars, tars, submission, pendingJobs, serverVars >>

\* Mutant of Leave: the entry stays in the map.
Leave_Kept(t) ==
    /\ tasks[t].pc = "Leaving"
    /\ Goto(t, "Done")
    /\ UNCHANGED << dbVars, tars, submission, pendingJobs, serverVars >>

\* In one critical section the task removes the entry of its job and tells
\* cancel_jobs that it is done.
Leave(t) ==
    /\ tasks[t].pc = "Leaving"
    /\ pendingJobs' = {e \in pendingJobs : e.job # tasks[t].job}
    /\ Goto(t, "Done")
    /\ UNCHANGED << dbVars, tars, submission, serverVars >>

TaskStep(t) ==
    \/ Register(t) \/ Fetch(t) \/ Store(t) \/ LastCheck(t) \/ Finish(t)
    \/ Stop(t) \/ Leave(t) \/ StoreFails(t) \/ StoreHangs(t) \/ CommitFails(t)

-----------------------------------------------------------------------------
(* Shutdown, crash and restart.                                            *)

\* The signal; axum::serve returns when the last connection is closed.
ShutDown ==
    /\ server = "Serving"
    /\ server' = "Canceling"
    /\ UNCHANGED << dbVars, tars, submission, tasks, pendingJobs, waitingFor >>

\* Mutant of CancelJob: the job is canceled and forgotten.
CancelJob_NoWait ==
    /\ server = "Canceling"
    /\ \E e \in pendingJobs : pendingJobs' = pendingJobs \ {e}
    /\ UNCHANGED << dbVars, tars, submission, tasks, serverVars >>

\* One round of the loop of cancel_jobs with an entry of its choice: without a
\* receiver to wait on it just goes round again.
CancelJob ==
    /\ server = "Canceling"
    /\ \E e \in pendingJobs :
        /\ pendingJobs' = (pendingJobs \ {e}) \cup
               {[e EXCEPT !.cancel = FALSE, !.wait = FALSE]}
        /\ IF e.wait
           THEN server' = "Waiting" /\ waitingFor' = e.task
           ELSE UNCHANGED serverVars
    /\ UNCHANGED << dbVars, tars, submission, tasks >>

\* The task has sent the answer.
JobDone ==
    /\ server = "Waiting"
    /\ tasks[waitingFor].pc = "Done"
    /\ server' = "Canceling" /\ waitingFor' = 0
    /\ UNCHANGED << dbVars, tars, submission, tasks, pendingJobs >>

\* The process ends: open transactions are rolled back, tasks are dropped.
Drop ==
    /\ server' = "Down" /\ waitingFor' = 0
    /\ submission' = {}
    /\ tasks' = [t \in DOMAIN tasks |->
                    IF Live(t) THEN [tasks[t] EXCEPT !.pc = "Dropped"] ELSE tasks[t]]
    /\ pendingJobs' = {}
    /\ UNCHANGED << dbVars, tars >>

\* cancel_jobs finds the map empty and run returns.
Exit == server = "Canceling" /\ pendingJobs = {} /\ Drop

Crash == "Crash" \in Faults /\ server # "Down" /\ Drop

Restart ==
    /\ server = "Down"
    /\ server' = "Serving"
    /\ UNCHANGED << dbVars, tars, submission, tasks, pendingJobs, waitingFor >>

ServerStep == ShutDown \/ CancelJob \/ JobDone \/ Exit \/ Crash \/ Restart

-----------------------------------------------------------------------------

Next ==
    \/ \E users \in SUBSET Puids : SubmitJob(users)
    \/ CommitJob \/ RollbackJob
    \/ \E t \in DOMAIN tasks : TaskStep(t)
    \/ ServerStep

Spec == Init /\ [][Next]_vars

(***************************************************************************)
(* The runtime runs every task that can go on, and SQLite lets a waiting    *)
(* writer in or fails it.  The object store answers, with success or not,   *)
(* or with the fault "Hang" maybe never.  Nothing makes a client submit, or *)
(* the server shut down.                                                    *)
(***************************************************************************)
Fairness ==
    /\ \A t \in TaskIds : WF_vars(t \in DOMAIN tasks /\ TaskStep(t))
    /\ WF_vars(CommitJob \/ RollbackJob)
    /\ WF_vars(CancelJob \/ JobDone \/ Exit)

FairSpec == Spec /\ Fairness
==============================================================================
