----------------------------- MODULE LedgerProofs ----------------------------
(***************************************************************************)
(* Proofs about BundleJob while submit requests commit, for any users and   *)
(* any number of tasks and whatever else fails: the tables stay consistent, *)
(* and BundleJob implements Ledger.  A submit whose commit fails after it   *)
(* spawned its task breaks it (ArchivesFit).                                *)
(***************************************************************************)
EXTENDS BundleProofs

SubmitsCommit == "Submit" \notin Faults

\* The only archive of job j is one of the files of these users.
Archived(j, users) == {tar \in tars : tar[1] = j} = {<< j, users >>}

\* A live task is alone with its job, which is as it was submitted or still in
\* the open transaction; before its last transaction the job is not finished,
\* and from the upload to that transaction the archive is what it should be.
TaskInv(t) ==
    Live(t) =>
        /\ \A u \in DOMAIN tasks : Live(u) /\ tasks[u].job = tasks[t].job => u = t
        /\ \/ tasks[t].job \in jobs /\ UsersOf(tasks[t].job) = tasks[t].users
           \/ \E s \in submission : s.job = tasks[t].job /\ s.users = tasks[t].users
        /\ tasks[t].pc # "Leaving" => ~Finished(tasks[t].job)
        /\ tasks[t].pc \in {"Stored", "Finishing"} =>
               Archived(tasks[t].job, tasks[t].users)

\* A finished job was submitted, is finished once, and has its archive and a row
\* for each of its users.
FinishedInv ==
    /\ \A f \in finishedRows :
          /\ f[1] \in jobs
          /\ Archived(f[1], UsersOf(f[1]))
          /\ \A puid \in UsersOf(f[1]) :
                 \E row \in mixedRows : row.job = f[1] /\ row.puid = puid
    /\ \A f, g \in finishedRows : f[1] = g[1] => f = g

\* Who is marked as mixed is so by the task that finished the job.
MixedInv ==
    \A row \in mixedRows :
        /\ << row.job, row.task >> \in finishedRows
        /\ << row.job, row.puid >> \in includes

\* A task at work can be reached by cancel_jobs.
ReachInv == \A t \in DOMAIN tasks : Working(t) => \E e \in pendingJobs : e.task = t

JobInv ==
    /\ TypeInv
    /\ \A t \in DOMAIN tasks : TaskInv(t)
    /\ FinishedInv /\ MixedInv

-----------------------------------------------------------------------------
(* What single steps do.                                                   *)

\* The jobs of the transaction become jobs with the users it was given.
LEMMA CommitAddsUsers ==
    ASSUME TypeInv, CommitJob
    PROVE  \E s \in submission :
               /\ jobs' = jobs \cup {s.job} /\ s.job \notin jobs
               /\ includes' = includes \cup ({s.job} \X s.users)
               /\ \A j \in jobs : UsersOf(j)' = UsersOf(j)
               /\ UsersOf(s.job)' = s.users
               /\ \A r \in submission : r = s
<1>1. PICK s \in submission :
          /\ jobs' = jobs \cup {s.job} /\ s.job \notin jobs
          /\ includes' = includes \cup ({s.job} \X s.users)
  BY CommitCounts
<1>2. includes \subseteq jobs \X Puids /\ s.users \subseteq Puids
      /\ \A r \in submission : r = s
  BY DEF TypeInv, TypeOK, SubmissionInv
<1>3. \A j \in jobs : UsersOf(j)' = UsersOf(j)
  BY <1>1 DEF UsersOf
<1>4. UsersOf(s.job)' = s.users
  BY <1>1, <1>2 DEF UsersOf
<1> QED BY <1>1, <1>2, <1>3, <1>4

\* A task touches only the archive and the rows of its own job.
LEMMA TaskStepLocal ==
    ASSUME tasks \in Seq(Task), NEW t \in DOMAIN tasks, TaskStep(t)
    PROVE  /\ Live(t) /\ tasks[t].pc # "Hanging"
           /\ \A j : j # tasks[t].job =>
                  {tar \in tars' : tar[1] = j} = {tar \in tars : tar[1] = j}
           /\ Store(t) \/ StoreFails(t) \/ StoreHangs(t) \/ UNCHANGED tars
           /\ Finish(t) \/ UNCHANGED << mixedRows, finishedRows >>
<1>1. \/ UNCHANGED tars
      \/ /\ Store(t) \/ StoreFails(t) \/ StoreHangs(t)
         /\ PutTar(t)
  BY DEF TaskStep, Register, Fetch, Store, LastCheck, Finish, Stop, Leave, StoreFails,
         StoreHangs, CommitFails
<1>2. PutTar(t) => \A j : j # tasks[t].job =>
                       {tar \in tars' : tar[1] = j} = {tar \in tars : tar[1] = j}
  BY DEF PutTar
<1>3. \A j : j # tasks[t].job =>
          {tar \in tars' : tar[1] = j} = {tar \in tars : tar[1] = j}
  BY <1>1, <1>2
<1>4. Live(t) /\ tasks[t].pc # "Hanging"
  BY DEF Live, TaskStep, Register, Fetch, Store, LastCheck, Finish, Stop, Leave,
         StoreFails, StoreHangs, CommitFails
<1>5. Finish(t) \/ UNCHANGED << mixedRows, finishedRows >>
  BY DEF dbVars, TaskStep, Register, Fetch, Store, LastCheck, Finish, Stop, Leave,
         StoreFails, StoreHangs, CommitFails
<1> QED BY <1>1, <1>3, <1>4, <1>5

\* Where a task goes from where.
LEMMA TaskStepGoes ==
    ASSUME tasks \in Seq(Task), NEW t \in DOMAIN tasks, TaskStep(t)
    PROVE  \/ tasks[t].pc \in {"Spawned", "Fetching"} /\ tasks'[t].pc = "Fetching"
              /\ UNCHANGED << tars, finishedRows >>
           \/ Store(t) /\ tasks'[t].pc = "Stored"
           \/ LastCheck(t) /\ tasks'[t].pc = "Finishing"
           \/ StoreHangs(t) /\ tasks'[t].pc = "Hanging"
           \/ tasks'[t].pc \in {"Leaving", "Done"}
<1>1. \A pc \in Pc : Goto(t, pc) => tasks'[t].pc = pc
  BY GotoMoves
<1>2. Fetch(t) => tasks'[t].pc = "Fetching"
  BY FetchMoves
<1>3. /\ "Fetching" \in Pc /\ "Hanging" \in Pc /\ "Stored" \in Pc /\ "Finishing" \in Pc
      /\ "Leaving" \in Pc /\ "Done" \in Pc
  BY DEF Pc
<1> QED BY <1>1, <1>2, <1>3 DEF TaskStep, Register, Fetch, Store, LastCheck, Finish, Stop,
           Leave, StoreFails, StoreHangs, CommitFails, dbVars

\* A job is finished when it has a row.
LEMMA FinishedRow ==
    ASSUME TypeOK
    PROVE  /\ \A f \in finishedRows : Finished(f[1]) /\ f = << f[1], f[2] >>
           /\ \A j : Finished(j) => \E f \in finishedRows : f[1] = j
<1>1. finishedRows \subseteq JobIds \X DOMAIN tasks /\ DOMAIN tasks \subseteq TaskIds
  BY TaskTypes DEF TypeOK
<1>2. \A f \in finishedRows : f = << f[1], f[2] >> /\ f[2] \in TaskIds
  BY <1>1
<1>3. \A f \in finishedRows : Finished(f[1])
  BY <1>2 DEF Finished
<1>4. ASSUME NEW j, Finished(j) PROVE \E f \in finishedRows : f[1] = j
  <2>1. PICK t \in TaskIds : << j, t >> \in finishedRows
    BY <1>4 DEF Finished
  <2> QED BY <2>1
<1> QED BY <1>2, <1>3, <1>4

\* Finish records its job and nothing else.
LEMMA FinishRecords ==
    ASSUME TypeOK, NEW t \in DOMAIN tasks, Finish(t)
    PROVE  /\ \E u \in TaskIds : << tasks[t].job, u >> \in finishedRows'
           /\ \A j : j # tasks[t].job => (Finished(j)' <=> Finished(j))
<1>1. t \in TaskIds
  BY TaskTypes
<1>2. finishedRows' = finishedRows \cup {<< tasks[t].job, t >>}
  BY DEF Finish
<1>3. \E u \in TaskIds : << tasks[t].job, u >> \in finishedRows'
  BY <1>1, <1>2
<1>4. ASSUME NEW j, j # tasks[t].job PROVE Finished(j)' <=> Finished(j)
  <2>1. \A u : << j, u >> \in finishedRows' <=> << j, u >> \in finishedRows
    BY <1>2, <1>4
  <2> QED BY <2>1 DEF Finished
<1> QED BY <1>3, <1>4 DEF Finished

-----------------------------------------------------------------------------
(* The invariant is kept.                                                  *)

\* By the other tasks.
LEMMA OthersKeepTask ==
    ASSUME JobInv, NEW t \in DOMAIN tasks, TaskStep(t), NEW u \in DOMAIN tasks \ {t}
    PROVE  TaskInv(u)'
<1> SUFFICES ASSUME Live(u)' PROVE TaskInv(u)'
  BY DEF TaskInv
<1>1. TypeOK /\ tasks \in Seq(Task)
  BY TaskTypes DEF JobInv, TypeInv
<1>2. /\ DOMAIN tasks' = DOMAIN tasks /\ tasks'[u] = tasks[u]
      /\ \A v \in DOMAIN tasks \ {t} : tasks'[v] = tasks[v]
      /\ tasks'[t].job = tasks[t].job
      /\ UNCHANGED << jobs, includes, submission >>
  BY <1>1, TaskStepMoves DEF Moves
<1>3. Live(t) /\ Live(u)
  BY <1>1, <1>2, TaskStepLocal DEF Live
<1>4. TaskInv(u) /\ tasks[u].job # tasks[t].job
  BY <1>3 DEF JobInv, TaskInv
<1>5. \A v \in DOMAIN tasks : Live(v)' /\ tasks'[v].job = tasks'[u].job => v = u
  BY <1>2, <1>3, <1>4 DEF TaskInv, Live
<1>6. \A j : j # tasks[t].job => (Finished(j)' <=> Finished(j))
  <2>1. CASE Finish(t)
    BY <1>1, <2>1, FinishRecords
  <2>2. CASE UNCHANGED finishedRows
    BY <2>2 DEF Finished
  <2> QED BY <1>1, <2>1, <2>2, TaskStepLocal
<1>7. {tar \in tars' : tar[1] = tasks[u].job} = {tar \in tars : tar[1] = tasks[u].job}
  BY <1>1, <1>4, TaskStepLocal
<1>8. (tasks[u].pc # "Leaving" => ~Finished(tasks[u].job))'
  <2> DEFINE j == tasks[u].job
  <2>1. tasks'[u].pc # "Leaving" => ~Finished(j)
    BY <1>2, <1>3, <1>4 DEF TaskInv
  <2>2. tasks'[u].pc # "Leaving" => \A v \in TaskIds : << j, v >> \notin finishedRows'
    <3> HIDE DEF j
    <3> QED BY <1>4, <1>6, <2>1 DEF Finished, j
  <2> QED BY <1>2, <2>2 DEF Finished
<1>9. (\/ tasks[u].job \in jobs /\ UsersOf(tasks[u].job) = tasks[u].users
       \/ \E s \in submission : s.job = tasks[u].job /\ s.users = tasks[u].users)'
  BY <1>2, <1>3, <1>4 DEF TaskInv, UsersOf
<1>10. (tasks[u].pc \in {"Stored", "Finishing"} =>
            Archived(tasks[u].job, tasks[u].users))'
  BY <1>2, <1>3, <1>4, <1>7 DEF TaskInv, Archived
<1> QED BY <1>2, <1>5, <1>8, <1>9, <1>10 DEF TaskInv

\* By the task itself.
LEMMA TaskKeepsItself ==
    ASSUME JobInv, NEW t \in DOMAIN tasks, TaskStep(t)
    PROVE  TaskInv(t)'
<1> SUFFICES ASSUME Live(t)' PROVE TaskInv(t)'
  BY DEF TaskInv
<1> DEFINE j == tasks[t].job
           users == tasks[t].users
<1>1. TypeOK /\ tasks \in Seq(Task)
  BY TaskTypes DEF JobInv, TypeInv
<1>2. /\ DOMAIN tasks' = DOMAIN tasks
      /\ \A v \in DOMAIN tasks \ {t} : tasks'[v] = tasks[v]
      /\ tasks'[t].job = j /\ tasks'[t].users = users
      /\ UNCHANGED << jobs, includes, submission >>
  BY <1>1, TaskStepMoves DEF Moves
<1>3. Live(t) /\ TaskInv(t)
  BY <1>1, TaskStepLocal DEF JobInv
<1>4. \A v \in DOMAIN tasks : Live(v)' /\ tasks'[v].job = tasks'[t].job => v = t
  BY <1>2, <1>3 DEF TaskInv, Live
<1>5. UsersOf(j)' = UsersOf(j)
  BY <1>2 DEF UsersOf
<1>6. (tasks[t].pc # "Leaving" => ~Finished(tasks[t].job))'
  <2>1. CASE UNCHANGED << tars, finishedRows >> /\ tasks[t].pc \in {"Spawned", "Fetching"}
    BY <1>2, <1>3, <2>1 DEF TaskInv, Finished
  <2>2. CASE Store(t) \/ LastCheck(t) \/ StoreHangs(t)
    BY <1>2, <1>3, <2>2 DEF TaskInv, Finished, Store, LastCheck, StoreHangs, dbVars
  <2>3. CASE tasks'[t].pc \in {"Leaving", "Done"}
    BY <2>3, <1>2 DEF Live
  <2> QED BY <1>1, <2>1, <2>2, <2>3, TaskStepGoes
<1>7. (tasks[t].pc \in {"Stored", "Finishing"} =>
           Archived(tasks[t].job, tasks[t].users))'
  <2>1. CASE Store(t)
    <3>1. tars' = {tar \in tars : tar[1] # j} \cup {<< j, users >>}
      BY <2>1 DEF Store, PutTar
    <3>2. {tar \in tars' : tar[1] = j} = {<< j, users >>}
      <4> HIDE DEF j, users
      <4> QED BY <3>1
    <3> QED BY <1>2, <3>2 DEF Archived
  <2>2. CASE LastCheck(t)
    BY <1>2, <1>3, <2>2 DEF LastCheck, TaskInv, Archived
  <2>3. CASE tasks'[t].pc \notin {"Stored", "Finishing"}
    BY <2>3
  <2> QED BY <1>1, <2>1, <2>2, <2>3, TaskStepGoes
<1> QED BY <1>2, <1>3, <1>4, <1>5, <1>6, <1>7 DEF TaskInv, Archived

\* By whoever else moves.
LEMMA TasksStep ==
    ASSUME SubmitsCommit, JobInv, [Next]_vars
    PROVE  (\A t \in DOMAIN tasks : TaskInv(t))'
<1>1. TypeInv /\ TypeOK /\ tasks \in Seq(Task) /\ \A t \in DOMAIN tasks : TaskInv(t)
  BY TaskTypes DEF JobInv, TypeInv
<1>2. ASSUME NEW users \in SUBSET Puids, SubmitJob(users)
      PROVE  (\A t \in DOMAIN tasks : TaskInv(t))'
  <2>0. PICK new : new = Len(tasks) + 1
    OBVIOUS
  <2>1. NextJobId \in JobIds /\ NextJobId \notin jobs
    BY <1>1, <1>2, NextIdIsNew
  <2>2. /\ DOMAIN tasks' = DOMAIN tasks \cup {new}
        /\ \A u \in DOMAIN tasks : tasks'[u] = tasks[u]
        /\ tasks'[new] = [job |-> NextJobId, users |-> users,
                         fetched |-> {}, pc |-> "Spawned"]
    BY <1>1, <1>2, <2>0, <2>1, SubmitAppends
  <2>3. /\ UNCHANGED << jobs, includes, finishedRows, tars >>
        /\ submission = {} /\ submission' = {[job |-> NextJobId, users |-> users]}
    BY <1>2 DEF SubmitJob, dbVars
  <2>4. \A u \in DOMAIN tasks : Live(u) => tasks[u].job \in jobs
    BY <1>1, <2>3 DEF TaskInv
  <2>5. ASSUME NEW u \in DOMAIN tasks PROVE TaskInv(u)'
    <3>1. /\ tasks'[u] = tasks[u] /\ TaskInv(u)
          /\ Live(u)' <=> Live(u)
          /\ UsersOf(tasks[u].job)' = UsersOf(tasks[u].job)
          /\ Finished(tasks[u].job)' <=> Finished(tasks[u].job)
      BY <1>1, <2>2, <2>3 DEF Live, UsersOf, Finished
    <3>2. SUFFICES ASSUME Live(u) PROVE TaskInv(u)'
      BY <3>1 DEF TaskInv
    <3>3. tasks[u].job \in jobs /\ UsersOf(tasks[u].job) = tasks[u].users
      BY <2>3, <3>1, <3>2 DEF TaskInv
    <3>4. (\A v \in DOMAIN tasks : Live(v) /\ tasks[v].job = tasks[u].job => v = u)'
      BY <2>1, <2>2, <3>1, <3>2, <3>3 DEF TaskInv, Live
    <3> QED BY <2>3, <3>1, <3>2, <3>3, <3>4 DEF TaskInv, Archived
  <2>6. ~Finished(NextJobId)
    BY <1>1, <2>1, FinishedRow DEF JobInv, FinishedInv
  <2>7. (\A u \in DOMAIN tasks : Live(u) /\ tasks[u].job = tasks[new].job => u = new)'
    BY <2>1, <2>2, <2>4 DEF Live
  <2>8. (tasks[new].pc # "Leaving" => ~Finished(tasks[new].job))'
    BY <2>2, <2>3, <2>6 DEF Finished
  <2>9. TaskInv(new)'
    BY <2>2, <2>3, <2>7, <2>8 DEF TaskInv
  <2> QED BY <2>2, <2>5, <2>9
<1>3. CASE CommitJob
  <2>1. PICK s \in submission :
            /\ jobs' = jobs \cup {s.job} /\ s.job \notin jobs
            /\ \A j \in jobs : UsersOf(j)' = UsersOf(j)
            /\ UsersOf(s.job)' = s.users
            /\ \A r \in submission : r = s
    BY <1>1, <1>3, CommitAddsUsers
  <2>2. UNCHANGED << tasks, finishedRows, tars >>
    BY <1>3 DEF CommitJob
  <2>3. ASSUME NEW t \in DOMAIN tasks PROVE TaskInv(t)'
    <3>1. CASE tasks[t].job \in jobs /\ UsersOf(tasks[t].job) = tasks[t].users
      <4>1. UsersOf(tasks[t].job)' = tasks[t].users
        BY <2>1, <2>2, <3>1 DEF UsersOf
      <4> QED BY <1>1, <2>1, <2>2, <3>1, <4>1 DEF TaskInv, Live, Finished, Archived
    <3>2. CASE s.job = tasks[t].job /\ s.users = tasks[t].users
      <4>1. UsersOf(tasks[t].job)' = tasks[t].users
        BY <2>1, <2>2, <3>2 DEF UsersOf
      <4> QED BY <1>1, <2>1, <2>2, <3>2, <4>1 DEF TaskInv, Live, Finished, Archived
    <3> QED BY <1>1, <2>1, <2>2, <3>1, <3>2 DEF TaskInv, Live
  <2> QED BY <2>2, <2>3
<1>4. ASSUME NEW t \in DOMAIN tasks, TaskStep(t)
      PROVE  (\A u \in DOMAIN tasks : TaskInv(u))'
  <2>1. DOMAIN tasks' = DOMAIN tasks
    BY <1>1, <1>4, TaskStepMoves DEF Moves
  <2> QED BY <1>4, <2>1, OthersKeepTask, TaskKeepsItself
<1>5. CASE Drop
  BY <1>1, <1>5, DropKillsAll DEF TaskInv
<1>6. ASSUME UNCHANGED << tasks, jobs, includes, finishedRows, tars, submission >>
      PROVE  (\A t \in DOMAIN tasks : TaskInv(t))'
  BY <1>1, <1>6 DEF TaskInv, Live, UsersOf, Finished, Archived
<1>7. CASE ShutDown \/ CancelJob \/ JobDone \/ Restart \/ UNCHANGED vars
  BY <1>6, <1>7 DEF ShutDown, CancelJob, JobDone, Restart, vars, dbVars
<1> QED BY <1>2, <1>3, <1>4, <1>5, <1>7
        DEF Next, RollbackJob, SubmitsCommit, ServerStep, Exit, Crash

\* What a task knows when it runs its last transaction.
LEMMA ReadyToFinish ==
    ASSUME JobInv, NEW t \in DOMAIN tasks, Finish(t)
    PROVE  /\ tasks[t].job \in jobs /\ UsersOf(tasks[t].job) = tasks[t].users
           /\ ~Finished(tasks[t].job)
           /\ \A f \in finishedRows : f[1] # tasks[t].job
           /\ Archived(tasks[t].job, tasks[t].users)
<1>1. /\ tasks[t].job \in jobs /\ UsersOf(tasks[t].job) = tasks[t].users
      /\ ~Finished(tasks[t].job)
      /\ Archived(tasks[t].job, tasks[t].users)
  BY DEF JobInv, TaskInv, Live, Finish
<1> QED BY <1>1, FinishedRow DEF JobInv, TypeInv

\* What is finished stays as it is.
LEMMA FinishedStep ==
    ASSUME SubmitsCommit, JobInv, [Next]_vars
    PROVE  FinishedInv'
<1>1. TypeInv /\ TypeOK /\ tasks \in Seq(Task) /\ FinishedInv
  BY TaskTypes DEF JobInv, TypeInv
<1>2. ASSUME NEW t \in DOMAIN tasks, Finish(t) PROVE FinishedInv'
  <2>1. PICK j, users : j = tasks[t].job /\ users = tasks[t].users
    OBVIOUS
  <2>2. /\ j \in jobs /\ UsersOf(j) = users /\ Archived(j, users)
        /\ \A f \in finishedRows : f[1] # j
    BY <1>2, <2>1, ReadyToFinish
  <2>3. /\ finishedRows' = finishedRows \cup {<< j, t >>}
        /\ mixedRows' = mixedRows \cup {[puid |-> puid, job |-> j, task |-> t] : puid \in users}
        /\ UNCHANGED << jobs, includes, tars >>
    BY <1>2, <2>1 DEF Finish
  <2>4. \A k : UsersOf(k)' = UsersOf(k)
    BY <2>3 DEF UsersOf
  <2>5. \A puid \in users : \E row \in mixedRows' : row.job = j /\ row.puid = puid
    <3> TAKE puid \in users
    <3>1. [puid |-> puid, job |-> j, task |-> t] \in mixedRows'
      BY <2>3
    <3> QED BY <3>1
  <2>6. ASSUME NEW f \in finishedRows'
        PROVE  /\ f[1] \in jobs
               /\ {tar \in tars : tar[1] = f[1]} = {<< f[1], UsersOf(f[1]) >>}
               /\ \A puid \in UsersOf(f[1]) :
                      \E row \in mixedRows' : row.job = f[1] /\ row.puid = puid
    <3>1. CASE f \in finishedRows
      BY <1>1, <2>3, <3>1 DEF FinishedInv, Archived
    <3>2. CASE f = << j, t >>
      BY <2>2, <2>5, <3>2 DEF Archived
    <3> QED BY <2>3, <3>1, <3>2
  <2>7. \A f, g \in finishedRows' : f[1] = g[1] => f = g
    BY <1>1, <2>2, <2>3 DEF FinishedInv
  <2> QED BY <2>3, <2>4, <2>6, <2>7 DEF FinishedInv, Archived
<1>3. ASSUME NEW t \in DOMAIN tasks, Store(t) \/ StoreFails(t) \/ StoreHangs(t)
      PROVE  FinishedInv'
  <2>1. /\ UNCHANGED << jobs, includes, mixedRows, finishedRows >>
        /\ TaskStep(t)
    BY <1>3 DEF Store, StoreFails, StoreHangs, dbVars, TaskStep
  <2>2. \A f \in finishedRows : f[1] # tasks[t].job
    <3>1. ~Finished(tasks[t].job)
      BY <1>3 DEF JobInv, TaskInv, Live, Store, StoreFails, StoreHangs
    <3> QED BY <1>1, <3>1, FinishedRow
  <2>3. \A f \in finishedRows :
            {tar \in tars' : tar[1] = f[1]} = {tar \in tars : tar[1] = f[1]}
    BY <1>1, <2>1, <2>2, TaskStepLocal
  <2>4. \A k : UsersOf(k)' = UsersOf(k)
    BY <2>1 DEF UsersOf
  <2> QED BY <1>1, <2>1, <2>3, <2>4 DEF FinishedInv, Archived
<1>4. CASE CommitJob
  <2>1. /\ jobs \subseteq jobs' /\ \A j \in jobs : UsersOf(j)' = UsersOf(j)
        /\ UNCHANGED << mixedRows, finishedRows, tars >>
    BY <1>1, <1>4, CommitAddsUsers DEF CommitJob
  <2>2. \A f \in finishedRows : f[1] \in jobs /\ UsersOf(f[1])' = UsersOf(f[1])
    BY <1>1, <2>1 DEF FinishedInv
  <2> QED BY <1>1, <2>1, <2>2 DEF FinishedInv, Archived
<1>5. ASSUME UNCHANGED << jobs, includes, mixedRows, finishedRows, tars >> PROVE FinishedInv'
  BY <1>1, <1>5 DEF FinishedInv, Archived, UsersOf
<1>6. ASSUME NEW t \in DOMAIN tasks, TaskStep(t) PROVE FinishedInv'
  BY <1>1, <1>2, <1>3, <1>5, <1>6, TaskStepLocal, TaskStepMoves
<1>7. CASE ~CommitJob /\ ~\E t \in DOMAIN tasks : TaskStep(t)
  BY <1>5, <1>7 DEF Next, SubmitJob, RollbackJob, ServerStep, ShutDown, CancelJob,
         JobDone, Exit, Crash, Drop, Restart, vars, dbVars
<1> QED BY <1>4, <1>6, <1>7

\* Whoever is marked stays marked, by the job he is in.
LEMMA MixedStep ==
    ASSUME JobInv, [Next]_vars
    PROVE  MixedInv'
<1>1. TypeInv /\ TypeOK /\ tasks \in Seq(Task) /\ MixedInv
  BY TaskTypes DEF JobInv, TypeInv
<1>2. ASSUME NEW t \in DOMAIN tasks, Finish(t) PROVE MixedInv'
  <2>1. PICK j, users : j = tasks[t].job /\ users = tasks[t].users
    OBVIOUS
  <2>2. \A puid \in users : << j, puid >> \in includes
    BY <1>2, <2>1, ReadyToFinish DEF UsersOf
  <2>3. /\ finishedRows' = finishedRows \cup {<< j, t >>}
        /\ mixedRows' = mixedRows \cup {[puid |-> puid, job |-> j, task |-> t] : puid \in users}
        /\ UNCHANGED includes
    BY <1>2, <2>1 DEF Finish
  <2>4. ASSUME NEW row \in mixedRows'
        PROVE  << row.job, row.task >> \in finishedRows' /\ << row.job, row.puid >> \in includes
    <3>1. CASE row \in mixedRows
      BY <1>1, <2>3, <3>1 DEF MixedInv
    <3>2. CASE \E puid \in users : row = [puid |-> puid, job |-> j, task |-> t]
      BY <2>2, <2>3, <3>2
    <3> QED BY <2>3, <3>1, <3>2
  <2> QED BY <2>3, <2>4 DEF MixedInv
<1>3. ASSUME includes \subseteq includes', UNCHANGED << mixedRows, finishedRows >>
      PROVE  MixedInv'
  BY <1>1, <1>3 DEF MixedInv
<1>4. CASE CommitJob
  BY <1>3, <1>4 DEF CommitJob
<1>5. ASSUME NEW t \in DOMAIN tasks, TaskStep(t) PROVE MixedInv'
  BY <1>1, <1>2, <1>3, <1>5, TaskStepLocal, TaskStepMoves
<1>6. CASE ~CommitJob /\ ~\E t \in DOMAIN tasks : TaskStep(t)
  BY <1>3, <1>6 DEF Next, SubmitJob, RollbackJob, ServerStep, ShutDown, CancelJob,
         JobDone, Exit, Crash, Drop, Restart, vars, dbVars
<1> QED BY <1>4, <1>5, <1>6

-----------------------------------------------------------------------------
(* The tables.                                                             *)

\* The invariant of jobs holds in every state, while submits commit.
LEMMA JobInvInvariant ==
    ASSUME SubmitsCommit
    PROVE  Spec => []JobInv
<1>1. Init => JobInv
  BY TypeInvInit DEF JobInv, Init, FinishedInv, MixedInv
<1>2. JobInv /\ [Next]_vars => JobInv'
  BY TypeStep, SubmissionStep, IncludedOnceStep, TasksStep, FinishedStep, MixedStep
     DEF JobInv, TypeInv
<1> QED BY <1>1, <1>2, PTL DEF Spec

\* Two rows of one user would have to come from two jobs, or from two tasks of
\* one job.
LEMMA InvOnlyOnce == JobInv => OnlyOnce
<1> SUFFICES ASSUME JobInv PROVE OnlyOnce
  OBVIOUS
<1>1. /\ mixedRows \subseteq [puid : Puids, job : JobIds, task : DOMAIN tasks]
      /\ includes \subseteq jobs \X Puids
  BY DEF JobInv, TypeInv, TypeOK
<1>2. ASSUME NEW r1 \in mixedRows, NEW r2 \in mixedRows, r1.puid = r2.puid
      PROVE  r1 = r2
  <2>1. << r1.job, r1.puid >> \in includes /\ << r2.job, r1.puid >> \in includes
    BY <1>2 DEF JobInv, MixedInv
  <2>2. r1.job \in jobs /\ r2.job \in jobs /\ r1.puid \in Puids
    BY <1>1, <2>1
  <2>3. r1.job = r2.job
    BY <2>1, <2>2 DEF JobInv, TypeInv, IncludedOnce, UsersOf
  <2>4. << r1.job, r1.task >> = << r2.job, r2.task >>
    <3>1. << r1.job, r1.task >> \in finishedRows /\ << r2.job, r2.task >> \in finishedRows
      BY DEF JobInv, MixedInv
    <3> QED BY <2>3, <3>1 DEF JobInv, FinishedInv
  <2> QED BY <1>1, <1>2, <2>3, <2>4
<1>3. \A f, g \in finishedRows : f[1] = g[1] => f = g
  BY DEF JobInv, FinishedInv
<1> QED BY <1>2, <1>3 DEF OnlyOnce

\* While submits commit, nobody is marked as mixed twice and no job is finished
\* twice.
THEOREM MarkedOnce ==
    ASSUME SubmitsCommit
    PROVE  Spec => []OnlyOnce
BY JobInvInvariant, InvOnlyOnce, PTL

\* While submits commit, what a finished job offers are the files of the users
\* it includes.
THEOREM ArchivesStayFit ==
    ASSUME SubmitsCommit
    PROVE  Spec => []ArchivesFit
<1>1. JobInv => ArchivesFit
  BY FinishedRow DEF JobInv, TypeInv, FinishedInv, Archived, ArchivesFit
<1> QED BY <1>1, JobInvInvariant, PTL

\* While submits commit, the marked users are those of the finished jobs.
THEOREM MarkedByTheirJob ==
    ASSUME SubmitsCommit
    PROVE  Spec => []MixedByTheirJob
<1>1. JobInv => MixedByTheirJob
  <2> SUFFICES ASSUME JobInv PROVE MixedByTheirJob
    OBVIOUS
  <2>1. \A j \in JobIds : Finished(j) =>
            j \in jobs /\ \A puid \in UsersOf(j) :
                              \E row \in mixedRows : row.job = j /\ row.puid = puid
    BY FinishedRow DEF JobInv, TypeInv, FinishedInv
  <2>2. ASSUME NEW row \in mixedRows
        PROVE  Finished(row.job) /\ << row.job, row.puid >> \in includes
    <3>1. << row.job, row.task >> \in finishedRows /\ << row.job, row.puid >> \in includes
      BY DEF JobInv, MixedInv
    <3>2. finishedRows \subseteq JobIds \X DOMAIN tasks /\ DOMAIN tasks \subseteq TaskIds
      BY TaskTypes DEF JobInv, TypeInv, TypeOK
    <3> QED BY <3>1, <3>2 DEF Finished
  <2> QED BY <2>1, <2>2 DEF MixedByTheirJob
<1> QED BY <1>1, JobInvInvariant, PTL

-----------------------------------------------------------------------------
(* Lost jobs.                                                              *)

\* No step brings a lost job back.
LEMMA LostStep ==
    ASSUME SubmitsCommit, JobInv, [Next]_vars, NEW j \in jobs, Lost(j)
    PROVE  Lost(j)'
<1>1. /\ TypeInv /\ TypeOK /\ tasks \in Seq(Task)
      /\ ~Finished(j)
      /\ \A t \in DOMAIN tasks :
             tasks[t].job = j => ~Live(t) \/ tasks[t].pc \in {"Leaving", "Hanging"}
  BY TaskTypes DEF JobInv, TypeInv, Lost
<1>2. ASSUME NEW users \in SUBSET Puids, SubmitJob(users) PROVE Lost(j)'
  <2>1. PICK new : new = Len(tasks) + 1
    OBVIOUS
  <2>2. /\ NextJobId # j
        /\ DOMAIN tasks' = DOMAIN tasks \cup {new}
        /\ \A u \in DOMAIN tasks : tasks'[u] = tasks[u]
        /\ tasks'[new].job = NextJobId
        /\ UNCHANGED << jobs, finishedRows >>
    BY <1>1, <1>2, <2>1, NextIdIsNew, SubmitAppends DEF SubmitJob, dbVars
  <2> QED BY <1>1, <2>2 DEF Lost, Live, Finished
<1>3. ASSUME NEW t \in DOMAIN tasks, TaskStep(t) PROVE Lost(j)'
  <2>1. /\ DOMAIN tasks' = DOMAIN tasks /\ jobs' = jobs
        /\ \A u \in DOMAIN tasks \ {t} : tasks'[u] = tasks[u]
        /\ tasks'[t].job = tasks[t].job
    BY <1>1, <1>3, TaskStepMoves DEF Moves
  <2>2. tasks[t].job = j => tasks'[t].pc \in {"Leaving", "Done"}
    <3>1. tasks[t].job = j => tasks[t].pc = "Leaving"
      BY <1>1, <1>3, TaskStepLocal
    <3> QED BY <1>1, <1>3, <3>1, TaskStepGoes
       DEF Store, StoreHangs, LastCheck
  <2>3. ~Finished(j)'
    <3>1. CASE Finish(t)
      <4>1. tasks[t].job # j
        BY <1>1, <1>3, <3>1, TaskStepLocal DEF Finish
      <4> QED BY <1>1, <3>1, <4>1, FinishRecords
    <3>2. CASE UNCHANGED finishedRows
      BY <1>1, <3>2 DEF Finished
    <3> QED BY <1>1, <1>3, <3>1, <3>2, TaskStepLocal
  <2> QED BY <1>1, <2>1, <2>2, <2>3 DEF Lost, Live
<1>4. CASE Drop
  BY <1>1, <1>4, DropKillsAll DEF Drop, dbVars, Lost, Finished
<1>5. ASSUME j \in jobs', UNCHANGED << tasks, finishedRows >> PROVE Lost(j)'
  BY <1>1, <1>5 DEF Lost, Live, Finished
<1>6. CASE CommitJob \/ ShutDown \/ CancelJob \/ JobDone \/ Restart \/ UNCHANGED vars
  BY <1>5, <1>6 DEF CommitJob, ShutDown, CancelJob, JobDone, Restart, vars, dbVars
<1> QED BY <1>2, <1>3, <1>4, <1>6
        DEF Next, RollbackJob, SubmitsCommit, ServerStep, Exit, Crash

\* The users of a job that is not finished are marked by no other job.
UnmarkedInv ==
    \A j \in jobs : ~Finished(j) => \A puid \in UsersOf(j) :
        /\ \A row \in mixedRows : row.puid # puid
        /\ \A k \in jobs \ {j} : << k, puid >> \notin includes

\* Nobody in an unfinished job is marked, or in another job.
LEMMA UnfinishedUnmarked == JobInv => UnmarkedInv
<1> SUFFICES ASSUME JobInv, NEW j \in jobs, ~Finished(j), NEW puid \in UsersOf(j)
             PROVE  /\ \A row \in mixedRows : row.puid # puid
                    /\ \A k \in jobs \ {j} : << k, puid >> \notin includes
  BY DEF UnmarkedInv
<1>1. puid \in Puids /\ << j, puid >> \in includes
  BY DEF UsersOf
<1>2. \A k \in jobs \ {j} : << k, puid >> \notin includes
  BY <1>1 DEF JobInv, TypeInv, IncludedOnce, UsersOf
<1>3. ASSUME NEW row \in mixedRows, row.puid = puid PROVE FALSE
  <2>1. << row.job, row.task >> \in finishedRows /\ << row.job, puid >> \in includes
    BY <1>3 DEF JobInv, MixedInv
  <2>2. row.job = j
    BY <1>2, <2>1 DEF JobInv, TypeInv, TypeOK
  <2> QED BY <2>1, <2>2, FinishedRow DEF JobInv, TypeInv
<1> QED BY <1>2, <1>3

\* While submits commit, a job without a task to finish it is lost for good, and
\* so are its users for the mixing.
THEOREM LostStaysLost ==
    ASSUME SubmitsCommit
    PROVE  Spec => LostForGood
<1> DEFINE KeepsLost ==
        \A j \in jobs : Lost(j) =>
            /\ Lost(j)'
            /\ \A puid \in UsersOf(j) :
                   /\ \A row \in mixedRows' : row.puid # puid
                   /\ \A k \in jobs' \ {j} : << k, puid >> \notin includes'
<1>1. JobInv /\ UnmarkedInv' /\ [Next]_vars => KeepsLost
  <2> SUFFICES ASSUME JobInv, UnmarkedInv', [Next]_vars, NEW j \in jobs, Lost(j),
                      NEW puid \in UsersOf(j)
               PROVE  /\ Lost(j)'
                      /\ \A row \in mixedRows' : row.puid # puid
                      /\ \A k \in jobs' \ {j} : << k, puid >> \notin includes'
    BY LostStep
  <2>1. Lost(j)'
    BY LostStep
  <2>2. j \in jobs' /\ ~Finished(j)'
    BY <2>1 DEF Lost
  <2>3. puid \in UsersOf(j)'
    <3>1. includes \subseteq includes'
      <4>1. CASE CommitJob
        BY <4>1 DEF CommitJob
      <4>2. CASE \E t \in DOMAIN tasks : TaskStep(t)
        BY <4>2, TaskTypes, TaskStepMoves DEF JobInv, TypeInv
      <4> QED BY <4>1, <4>2 DEF Next, SubmitJob, RollbackJob, ServerStep, ShutDown,
             CancelJob, JobDone, Exit, Crash, Drop, Restart, vars, dbVars
    <3> QED BY <3>1 DEF UsersOf
  <2> QED BY <2>1, <2>2, <2>3 DEF UnmarkedInv
<1> QED BY <1>1, JobInvInvariant, UnfinishedUnmarked, PTL DEF Spec, LostForGood

-----------------------------------------------------------------------------
(* The shutdown.                                                           *)

\* Tasks leave the map only as they end: the entry a task removes is its own.
LEMMA ReachStep ==
    ASSUME JobInv, EntryInv, ReachInv, [Next]_vars
    PROVE  ReachInv'
<1>1. /\ TypeInv /\ tasks \in Seq(Task)
      /\ pendingJobs \subseteq [job : JobIds, task : DOMAIN tasks,
                                cancel : BOOLEAN, wait : BOOLEAN]
  BY TaskTypes DEF JobInv, TypeInv, TypeOK
<1>2. ASSUME NEW users \in SUBSET Puids, SubmitJob(users) PROVE ReachInv'
  <2>1. PICK new : new = Len(tasks) + 1
    OBVIOUS
  <2>2. /\ DOMAIN tasks' = DOMAIN tasks \cup {new}
        /\ \A u \in DOMAIN tasks : tasks'[u] = tasks[u]
        /\ tasks'[new].pc = "Spawned" /\ pendingJobs' = pendingJobs
    BY <1>1, <1>2, <2>1, NextIdIsNew, SubmitAppends DEF SubmitJob
  <2> QED BY <2>2 DEF ReachInv, Working
<1>3. ASSUME NEW t \in DOMAIN tasks, TaskStep(t) PROVE ReachInv'
  <2>1. /\ DOMAIN tasks' = DOMAIN tasks
        /\ \A u \in DOMAIN tasks \ {t} : tasks'[u] = tasks[u]
    BY <1>1, <1>3, TaskStepMoves DEF Moves
  <2>2. CASE pendingJobs' = pendingJobs /\ Working(t)
    BY <2>1, <2>2 DEF ReachInv, Working
  <2>3. ASSUME NEW u \in DOMAIN tasks \ {t}, Working(u)
        PROVE  \E e \in pendingJobs : e.task = u /\ e.job # tasks[t].job
    <3>1. PICK e \in pendingJobs : e.task = u
      BY <2>3 DEF ReachInv
    <3>2. e.job = tasks[u].job
      BY <3>1 DEF EntryInv
    <3>3. Live(u) /\ Live(t)
      BY <1>1, <1>3, <2>3, TaskStepLocal DEF Live, Working
    <3> QED BY <2>3, <3>1, <3>2, <3>3 DEF JobInv, TaskInv
  <2>4. CASE Register(t)
    <3>1. [job |-> tasks[t].job, task |-> t, cancel |-> TRUE, wait |-> TRUE] \in pendingJobs'
      BY <2>4 DEF Register
    <3>2. \A e \in pendingJobs : e.job # tasks[t].job => e \in pendingJobs'
      BY <2>4 DEF Register
    <3> QED BY <2>1, <2>3, <3>1, <3>2 DEF ReachInv, Working
  <2>5. CASE Leave(t)
    <3>1. \A e \in pendingJobs : e.job # tasks[t].job => e \in pendingJobs'
      BY <2>5 DEF Leave
    <3>2. tasks'[t].pc = "Done"
      BY <1>1, <2>5, GotoMoves DEF Leave, Pc
    <3> QED BY <2>1, <2>3, <3>1, <3>2 DEF ReachInv, Working
  <2> QED BY <1>1, <1>3, <2>2, <2>4, <2>5, TaskStepEntries
<1>4. CASE CancelJob
  <2> DEFINE After(e) == [e EXCEPT !.cancel = FALSE, !.wait = FALSE]
  <2>1. PICK e \in pendingJobs :
            pendingJobs' = (pendingJobs \ {e}) \cup {After(e)} /\ UNCHANGED tasks
    BY <1>4 DEF CancelJob
  <2>2. After(e).task = e.task
    BY <1>1
  <2> HIDE DEF After
  <2> QED BY <2>1, <2>2 DEF ReachInv, Working
<1>5. CASE Drop
  BY <1>1, <1>5, DropKillsAll DEF ReachInv, Working, Live
<1>6. ASSUME UNCHANGED << tasks, pendingJobs >> PROVE ReachInv'
  BY <1>6 DEF ReachInv, Working
<1>7. CASE CommitJob \/ RollbackJob \/ ShutDown \/ JobDone \/ Restart \/ UNCHANGED vars
  BY <1>6, <1>7 DEF CommitJob, RollbackJob, ShutDown, JobDone, Restart, vars
<1> QED BY <1>2, <1>3, <1>4, <1>5, <1>7 DEF Next, ServerStep, Exit, Crash

\* While submits commit, cancel_jobs returns only when no task is at work.
THEOREM ExitIsOrderly ==
    ASSUME SubmitsCommit
    PROVE  Spec => []OrderlyExit
<1>1. Init => TypeInv /\ EntryInv /\ ReachInv
  BY TypeInvInit DEF Init, EntryInv, ReachInv
<1>2. JobInv /\ EntryInv /\ ReachInv /\ [Next]_vars => EntryInv' /\ ReachInv'
  BY EntryStep, ReachStep DEF JobInv
<1>3. ReachInv => OrderlyExit
  BY DEF ReachInv, OrderlyExit
<1> QED BY <1>1, <1>2, <1>3, JobInvInvariant, PTL DEF Spec

-----------------------------------------------------------------------------
(* The refinement.                                                         *)

ledgerVars == << jobs, includes, Mixed, Bundles >>

\* Bundles tell which jobs are finished.
LEMMA PromisedFinished ==
    ASSUME JobInv
    PROVE  \A j : Promise!Finished(j) => Finished(j)
BY DEF Promise!Finished, Bundles

\* The commit of a submission is a step of the ledger.
LEMMA CommitImplements ==
    ASSUME JobInv, CommitJob
    PROVE  Promise!Next
<1>1. PICK s \in submission :
          /\ jobs' = jobs \cup {s.job} /\ s.job \notin jobs
          /\ includes' = includes \cup ({s.job} \X s.users)
  BY CommitAddsUsers DEF JobInv
<1>2. /\ s.job \in JobIds /\ s.users \in SUBSET Puids
      /\ \A puid \in s.users : \A k \in jobs : << k, puid >> \notin includes
  BY DEF JobInv, TypeInv, TypeOK, SubmissionInv, Submitted
<1>3. UNCHANGED << Mixed, Bundles >>
  BY DEF CommitJob, Mixed, Bundles, Finished
<1>4. Promise!Submit(s.job, s.users)
  BY <1>1, <1>2, <1>3 DEF Promise!Submit
<1> QED BY <1>2, <1>4 DEF Promise!Next

\* The last transaction of a task is a step of the ledger.
LEMMA FinishImplements ==
    ASSUME JobInv, NEW t \in DOMAIN tasks, Finish(t)
    PROVE  Promise!Next
<1>1. PICK j, users : j = tasks[t].job /\ users = tasks[t].users
  OBVIOUS
<1>2. /\ j \in jobs /\ UsersOf(j) = users /\ ~Finished(j) /\ Archived(j, users)
      /\ j \in JobIds
  BY <1>1, ReadyToFinish DEF JobInv, TypeInv, TypeOK
<1>3. /\ mixedRows' = mixedRows \cup {[puid |-> puid, job |-> j, task |-> t] : puid \in users}
      /\ UNCHANGED << jobs, includes, tars >>
  BY <1>1 DEF Finish
<1>4. \A k : Finished(k)' <=> Finished(k) \/ k = j
  <2>1. TypeOK
    BY DEF JobInv, TypeInv
  <2>2. Finished(j)'
    BY <1>1, <2>1, FinishRecords DEF Finished
  <2> QED BY <1>1, <2>1, <2>2, FinishRecords
<1>5. Mixed' = Mixed \cup users
  <2>1. users \subseteq Puids
    BY <1>2 DEF UsersOf
  <2>2. ASSUME NEW puid \in users PROVE \E row \in mixedRows' : row.puid = puid
    <3>1. [puid |-> puid, job |-> j, task |-> t] \in mixedRows'
      BY <1>3
    <3> QED BY <3>1
  <2>3. \A row \in mixedRows' : row \in mixedRows \/ row.puid \in users
    BY <1>3
  <2> QED BY <1>3, <2>1, <2>2, <2>3 DEF Mixed
<1>6. Bundles' = Bundles \cup {<< j, users >>}
  <2>1. /\ << j, users >> \in tars
        /\ \A tar \in tars : tar[1] = j => tar = << j, users >>
    BY <1>2 DEF Archived
  <2>2. \A tar \in tars' : Finished(tar[1])' <=> Finished(tar[1]) \/ tar[1] = j
    BY <1>4
  <2> QED BY <1>3, <2>1, <2>2 DEF Bundles
<1>7. UsersOf(j) \cap Mixed = {}
  <2> SUFFICES ASSUME NEW row \in mixedRows, row.puid \in UsersOf(j) PROVE FALSE
    BY DEF Mixed
  <2>1. /\ << row.job, row.task >> \in finishedRows
        /\ << row.job, row.puid >> \in includes
    BY DEF JobInv, MixedInv
  <2>2. row.job \in jobs /\ row.puid \in Puids
    BY <2>1 DEF JobInv, TypeInv, TypeOK
  <2>3. row.job = j
    BY <1>2, <2>1, <2>2 DEF JobInv, TypeInv, IncludedOnce, UsersOf
  <2> QED BY <1>1, <2>1, <2>3, ReadyToFinish
<1>8. Promise!UsersOf(j) = UsersOf(j)
  BY DEF Promise!UsersOf, UsersOf
<1>9. Promise!Finish(j)
  BY <1>2, <1>3, <1>5, <1>6, <1>7, <1>8, PromisedFinished DEF Promise!Finish
<1> QED BY <1>2, <1>9 DEF Promise!Next

\* All the rest goes on below what Ledger tells.
LEMMA OthersStutter ==
    ASSUME JobInv, NEW t \in DOMAIN tasks, TaskStep(t), ~Finish(t)
    PROVE  UNCHANGED ledgerVars
<1>1. /\ tasks \in Seq(Task) /\ TypeOK
      /\ UNCHANGED << jobs, includes, mixedRows, finishedRows >>
  BY TaskTypes, TaskStepMoves, TaskStepLocal DEF JobInv, TypeInv
<1>2. \A k : Finished(k)' = Finished(k)
  BY <1>1 DEF Finished
<1>3. ~Finished(tasks[t].job) \/ UNCHANGED tars
  <2>1. CASE Store(t) \/ StoreFails(t) \/ StoreHangs(t)
    BY <2>1 DEF JobInv, TaskInv, Live, Store, StoreFails, StoreHangs
  <2> QED BY <1>1, <2>1, TaskStepLocal
<1>4. Bundles' = Bundles
  <2>1. \A tar : Finished(tar[1]) => (tar \in tars' <=> tar \in tars)
    BY <1>1, <1>3, TaskStepLocal
  <2> QED BY <1>2, <2>1 DEF Bundles
<1> QED BY <1>1, <1>4 DEF ledgerVars, Mixed

\* Every step is a step of the ledger or leaves it alone.
LEMMA LedgerStepImplements ==
    ASSUME SubmitsCommit, JobInv, [Next]_vars
    PROVE  [Promise!Next]_ledgerVars
<1>1. ASSUME UNCHANGED << jobs, includes, mixedRows, finishedRows, tars >>
      PROVE  UNCHANGED ledgerVars
  BY <1>1 DEF ledgerVars, Mixed, Bundles, Finished
<1>2. ASSUME NEW t \in DOMAIN tasks, TaskStep(t) PROVE [Promise!Next]_ledgerVars
  BY <1>2, FinishImplements, OthersStutter
<1>3. CASE ~CommitJob /\ ~\E t \in DOMAIN tasks : TaskStep(t)
  BY <1>1, <1>3 DEF Next, SubmitJob, RollbackJob, ServerStep, ShutDown, CancelJob,
         JobDone, Exit, Crash, Drop, Restart, vars, dbVars
<1> QED BY <1>2, <1>3, CommitImplements

\* While submits commit, requests, tasks, shutdowns and crashes together do what
\* Ledger promises, however many users and jobs there are.
THEOREM BundleImplementsLedger ==
    ASSUME SubmitsCommit
    PROVE  Spec => FollowsLedger
<1>1. Init => Promise!Init
  BY DEF Init, Promise!Init, Mixed, Bundles
<1>2. JobInv /\ [Next]_vars => [Promise!Next]_<< jobs, includes, Mixed, Bundles >>
  BY LedgerStepImplements DEF ledgerVars
<1> QED BY <1>1, <1>2, JobInvInvariant, PTL DEF Spec, FollowsLedger, Promise!Spec
=============================================================================
