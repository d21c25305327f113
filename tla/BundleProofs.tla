----------------------------- MODULE BundleProofs ----------------------------
(***************************************************************************)
(* Proofs about BundleJob, for any users and any number of tasks.           *)
(***************************************************************************)
EXTENDS BundleProps, FiniteSetTheorems, SequenceTheorems, TLAPS

USE DEF JobIds, TaskIds

Task == [job : JobIds, users : SUBSET Puids, fetched : SUBSET Puids, pc : Pc]

-----------------------------------------------------------------------------
(* The tasks.                                                              *)

\* A task that goes on remains the task of its job, and no other task moves.
Moves(t) ==
    /\ tasks' \in Seq(Task) /\ Len(tasks') = Len(tasks) /\ DOMAIN tasks' = DOMAIN tasks
    /\ \A u \in DOMAIN tasks \ {t} : tasks'[u] = tasks[u]
    /\ tasks'[t].job = tasks[t].job /\ tasks'[t].users = tasks[t].users

\* Replacing the state of a task is such a move.
LEMMA ReplaceMoves ==
    ASSUME tasks \in Seq(Task), NEW t \in DOMAIN tasks, NEW task \in Task,
           tasks' = [tasks EXCEPT ![t] = task],
           task.job = tasks[t].job, task.users = tasks[t].users
    PROVE  Moves(t) /\ tasks'[t] = task
BY ExceptSeq DEF Moves

\* Setting the program counter is.
LEMMA GotoMoves ==
    ASSUME tasks \in Seq(Task), NEW t \in DOMAIN tasks, NEW pc \in Pc, Goto(t, pc)
    PROVE  /\ Moves(t)
           /\ tasks'[t].pc = pc /\ tasks'[t].fetched = tasks[t].fetched
<1> DEFINE task == [tasks[t] EXCEPT !.pc = pc]
<1>1. tasks' = [tasks EXCEPT ![t] = task]
  BY DEF Goto
<1>2. tasks[t] \in Task
  OBVIOUS
<1>3. /\ task \in Task /\ task.pc = pc
      /\ task.job = tasks[t].job /\ task.users = tasks[t].users
      /\ task.fetched = tasks[t].fetched
  BY <1>2 DEF Task
<1> HIDE DEF task
<1> QED BY <1>1, <1>3, ReplaceMoves

\* Fetching the files of one more user is.
LEMMA FetchMoves ==
    ASSUME tasks \in Seq(Task), NEW t \in DOMAIN tasks, Fetch(t)
    PROVE  Moves(t) /\ tasks'[t].pc = "Fetching"
<1>1. PICK puid \in tasks[t].users \ tasks[t].fetched :
          tasks' = [tasks EXCEPT ![t].fetched = @ \cup {puid}]
  BY DEF Fetch
<1> DEFINE task == [tasks[t] EXCEPT !.fetched = @ \cup {puid}]
<1>2. tasks' = [tasks EXCEPT ![t] = task]
  BY <1>1
<1>3. tasks[t] \in Task
  OBVIOUS
<1>4. /\ task \in Task /\ task.pc = "Fetching"
      /\ task.job = tasks[t].job /\ task.users = tasks[t].users
  BY <1>1, <1>3 DEF Task, Fetch
<1> HIDE DEF task
<1> QED BY <1>2, <1>4, ReplaceMoves

\* A new task comes last.
LEMMA SubmitAppends ==
    ASSUME tasks \in Seq(Task), NEW users \in SUBSET Puids, SubmitJob(users),
           NextJobId \in JobIds
    PROVE  /\ tasks' \in Seq(Task) /\ Len(tasks') = Len(tasks) + 1
           /\ DOMAIN tasks' = DOMAIN tasks \cup {Len(tasks) + 1}
           /\ \A u \in DOMAIN tasks : tasks'[u] = tasks[u]
           /\ tasks'[Len(tasks) + 1] = [job |-> NextJobId, users |-> users,
                                        fetched |-> {}, pc |-> "Spawned"]
<1>1. [job |-> NextJobId, users |-> users, fetched |-> {}, pc |-> "Spawned"] \in Task
  BY DEF Task, Pc
<1> QED BY <1>1, AppendProperties DEF SubmitJob

\* When the process ends, no task remains alive.
LEMMA DropKillsAll ==
    ASSUME tasks \in Seq(Task), Drop
    PROVE  /\ tasks' \in Seq(Task) /\ Len(tasks') = Len(tasks)
           /\ DOMAIN tasks' = DOMAIN tasks
           /\ \A t \in DOMAIN tasks : ~Live(t)'
<1> DEFINE New(t) == IF Live(t) THEN [tasks[t] EXCEPT !.pc = "Dropped"] ELSE tasks[t]
<1>1. \A t \in DOMAIN tasks : New(t) \in Task /\ New(t).pc \in {"Done", "Dropped"}
  <2> TAKE t \in DOMAIN tasks
  <2>1. tasks[t] \in Task
    OBVIOUS
  <2> QED BY <2>1 DEF Task, Pc, Live
<1>2. tasks' = [t \in 1 .. Len(tasks) |-> New(t)]
  BY DEF Drop
<1> HIDE DEF New
<1>3. tasks' \in Seq(Task) /\ Len(tasks') = Len(tasks) /\ DOMAIN tasks' = DOMAIN tasks
  BY <1>1, <1>2, IsASeq
<1>4. \A t \in DOMAIN tasks : tasks'[t] = New(t)
  BY <1>2
<1> QED BY <1>1, <1>3, <1>4 DEF Live

\* Whatever step a task takes, it moves and the requests' tables stay.
LEMMA TaskStepMoves ==
    ASSUME tasks \in Seq(Task), NEW t \in DOMAIN tasks, TaskStep(t)
    PROVE  Moves(t) /\ UNCHANGED << jobs, includes, submission, server, waitingFor >>
<1> USE DEF serverVars, dbVars
<1>1. CASE Fetch(t)
  BY <1>1, FetchMoves DEF Fetch
<1>2. ASSUME ~Fetch(t)
      PROVE  /\ \E pc \in Pc : Goto(t, pc)
             /\ UNCHANGED << jobs, includes, submission, server, waitingFor >>
  BY <1>2 DEF TaskStep, Register, Store, LastCheck, Finish, Stop, Leave, StoreFails,
              StoreHangs, CommitFails, Pc
<1> QED BY <1>1, <1>2, GotoMoves

-----------------------------------------------------------------------------
(* Types, and who is in which job.                                         *)

\* Job ids are given out without gaps, each to a task already spawned; the open
\* transaction holds the next one, for users in no job.
SubmissionInv ==
    /\ NextJobId \in Nat \ {0} /\ jobs = 1 .. NextJobId - 1
    /\ NextJobId <= Len(tasks) + 1
    /\ \A s \in submission :
          /\ s.job = NextJobId /\ NextJobId <= Len(tasks)
          /\ \A puid \in s.users : ~Submitted(puid)
    /\ \A s, r \in submission : s = r

TypeInv == TypeOK /\ SubmissionInv /\ IncludedOnce

\* What TypeOK says of the tasks.
LEMMA TaskTypes ==
    ASSUME TypeOK
    PROVE  /\ tasks \in Seq(Task) /\ DOMAIN tasks = 1 .. Len(tasks)
           /\ Len(tasks) \in Nat /\ DOMAIN tasks \subseteq TaskIds
           /\ \A t \in DOMAIN tasks : tasks[t] \in Task
<1>1. tasks \in Seq(Task) /\ Len(tasks) <= MaxTasks
  BY DEF TypeOK, Task
<1> QED BY <1>1, LenProperties, ElementOfSeq, ConstantsAssumption

\* The types hold at the start.
LEMMA TypeInvInit == Init => TypeInv
<1> SUFFICES ASSUME Init PROVE TypeInv
  OBVIOUS
<1>1. NextJobId = 1
  BY FS_EmptySet DEF Init, NextJobId
<1>2. TypeOK
  BY ConstantsAssumption DEF Init, TypeOK
<1>3. SubmissionInv
  BY <1>1 DEF Init, SubmissionInv
<1> QED BY <1>2, <1>3 DEF Init, TypeInv, IncludedOnce

\* The id a submit request takes is that of no job.
LEMMA NextIdIsNew ==
    ASSUME TypeInv, NEW users, SubmitJob(users)
    PROVE  NextJobId \in JobIds /\ NextJobId \notin jobs
<1> DEFINE n == NextJobId
<1>1. n \in Nat \ {0} /\ jobs = 1 .. n - 1 /\ n <= Len(tasks) + 1
  BY DEF TypeInv, SubmissionInv
<1>2. Len(tasks) \in Nat /\ Len(tasks) < MaxTasks
  BY TaskTypes DEF TypeInv, SubmitJob
<1> HIDE DEF n
<1>3. n \in JobIds /\ n \notin jobs
  BY <1>1, <1>2, ConstantsAssumption
<1> QED BY <1>3 DEF n

\* Committing the next id makes the one after it the next.
LEMMA CommitCounts ==
    ASSUME TypeInv, CommitJob
    PROVE  \E s \in submission :
               /\ jobs' = jobs \cup {s.job} /\ includes' = includes \cup ({s.job} \X s.users)
               /\ jobs' = 1 .. NextJobId /\ NextJobId' = NextJobId + 1
               /\ s.job = NextJobId /\ s.job \notin jobs
<1>1. PICK s \in submission :
          jobs' = jobs \cup {s.job} /\ includes' = includes \cup ({s.job} \X s.users)
  BY DEF CommitJob
<1> DEFINE n == NextJobId
<1>2. n \in Nat /\ jobs = 1 .. n - 1 /\ s.job = n /\ n # 0
  BY <1>1 DEF TypeInv, SubmissionInv
<1> HIDE DEF n
<1>3. jobs' = 1 .. n
  BY <1>1, <1>2
<1>4. Cardinality(1 .. n) = n
  BY <1>2, FS_Interval
<1>5. NextJobId' = n + 1
  BY <1>3, <1>4 DEF NextJobId
<1> QED BY <1>1, <1>2, <1>3, <1>5 DEF n

\* Submissions stay consistent.
LEMMA SubmissionStep == TypeInv /\ [Next]_vars => SubmissionInv'
<1> SUFFICES ASSUME TypeInv, [Next]_vars PROVE SubmissionInv'
  OBVIOUS
<1> USE DEF TypeInv
<1>1. ASSUME NEW users \in SUBSET Puids, SubmitJob(users) PROVE SubmissionInv'
  <2>1. NextJobId' = NextJobId /\ jobs' = jobs /\ includes' = includes
    BY <1>1 DEF SubmitJob, NextJobId, dbVars
  <2>2. NextJobId \in JobIds
    BY <1>1, NextIdIsNew
  <2>3. Len(tasks') = Len(tasks) + 1
    BY <1>1, <2>2, TaskTypes, SubmitAppends
  <2>4. \A puid \in users : ~Submitted(puid)'
    BY <1>1, <2>1 DEF SubmitJob, Submitted
  <2>5. submission' = {[job |-> NextJobId, users |-> users]}
    BY <1>1 DEF SubmitJob
  <2> QED BY <2>1, <2>3, <2>4, <2>5, <1>1, TaskTypes DEF SubmissionInv, SubmitJob
<1>2. CASE CommitJob
  BY <1>2, CommitCounts, TaskTypes DEF CommitJob, SubmissionInv
<1>3. ASSUME UNCHANGED << jobs, includes >>, Len(tasks') = Len(tasks),
             submission' \subseteq submission
      PROVE  SubmissionInv'
  BY <1>3 DEF SubmissionInv, NextJobId, Submitted
<1>4. CASE RollbackJob
  BY <1>3, <1>4 DEF RollbackJob, dbVars
<1>5. ASSUME NEW t \in DOMAIN tasks, TaskStep(t) PROVE SubmissionInv'
  BY <1>3, <1>5, TaskTypes, TaskStepMoves DEF Moves
<1>6. CASE Drop
  BY <1>3, <1>6, TaskTypes, DropKillsAll DEF Drop, dbVars
<1>7. CASE ServerStep
  BY <1>3, <1>6, <1>7 DEF ServerStep, ShutDown, CancelJob, JobDone, Exit, Crash,
                          Restart, dbVars
<1>8. CASE UNCHANGED vars
  BY <1>3, <1>8 DEF vars, dbVars
<1> QED BY <1>1, <1>2, <1>4, <1>5, <1>7, <1>8 DEF Next

\* Nobody gets into a second job.
LEMMA IncludedOnceStep == TypeInv /\ [Next]_vars => IncludedOnce'
<1> SUFFICES ASSUME TypeInv, [Next]_vars PROVE IncludedOnce'
  OBVIOUS
<1> USE DEF TypeInv
<1>1. CASE CommitJob
  <2>1. PICK s \in submission :
            /\ jobs' = jobs \cup {s.job} /\ includes' = includes \cup ({s.job} \X s.users)
            /\ s.job \notin jobs
    BY <1>1, CommitCounts
  <2>2. \A puid \in s.users, j \in jobs : << j, puid >> \notin includes
    BY DEF SubmissionInv, Submitted
  <2>3. includes \subseteq jobs \X Puids
    BY DEF TypeOK
  <2>4. \A j \in jobs : UsersOf(j)' = UsersOf(j)
    BY <2>1 DEF UsersOf
  <2>5. UsersOf(s.job)' \subseteq s.users
    BY <2>1, <2>3 DEF UsersOf
  <2>6. \A j \in jobs : UsersOf(j) \cap s.users = {}
    BY <2>2 DEF UsersOf
  <2> HIDE DEF TypeInv
  <2> QED BY <2>1, <2>4, <2>5, <2>6 DEF IncludedOnce, TypeInv
<1>2. ASSUME UNCHANGED << jobs, includes >> PROVE IncludedOnce'
  BY <1>2 DEF IncludedOnce, UsersOf
<1>3. CASE ~CommitJob
  <2>1. CASE \E t \in DOMAIN tasks : TaskStep(t)
    BY <1>2, <2>1, TaskTypes, TaskStepMoves
  <2>2. CASE ~\E t \in DOMAIN tasks : TaskStep(t)
    BY <1>2, <1>3, <2>2 DEF Next, SubmitJob, RollbackJob, ServerStep, ShutDown, CancelJob,
           JobDone, Exit, Crash, Drop, Restart, vars, dbVars
  <2> QED BY <2>1, <2>2
<1> QED BY <1>1, <1>3

\* The step of a task keeps the types.
LEMMA TaskStepTypes ==
    ASSUME TypeOK, NEW t \in DOMAIN tasks, TaskStep(t)
    PROVE  TypeOK'
<1> DEFINE j == tasks[t].job
           users == tasks[t].users
<1>1. /\ j \in JobIds /\ users \subseteq Puids /\ tasks[t].fetched \subseteq Puids
      /\ tasks \in Seq(Task)
  BY TaskTypes DEF Task
<1>2. /\ tasks' \in Seq(Task) /\ Len(tasks') = Len(tasks) /\ DOMAIN tasks' = DOMAIN tasks
      /\ UNCHANGED << jobs, includes, submission, server, waitingFor >>
  BY <1>1, TaskStepMoves DEF Moves
<1> USE DEF TypeOK, dbVars, serverVars
<1>3. mixedRows' = mixedRows \/ mixedRows' = mixedRows \cup
              {[puid |-> puid, job |-> j, task |-> t] : puid \in users}
  BY DEF TaskStep, Register, Fetch, Store, LastCheck, Finish, Stop, Leave, StoreFails,
         StoreHangs, CommitFails
<1>4. finishedRows' = finishedRows \/ finishedRows' = finishedRows \cup {<< j, t >>}
  BY DEF TaskStep, Register, Fetch, Store, LastCheck, Finish, Stop, Leave, StoreFails,
         StoreHangs, CommitFails
<1>5. tars' \subseteq tars \cup {<< j, tasks[t].fetched >>}
  BY DEF TaskStep, Register, Fetch, Store, LastCheck, Finish, Stop, Leave, StoreFails,
         StoreHangs, CommitFails, PutTar
<1>6. pendingJobs' \subseteq pendingJobs \cup
          {[job |-> j, task |-> t, cancel |-> TRUE, wait |-> TRUE]}
  BY DEF TaskStep, Register, Fetch, Store, LastCheck, Finish, Stop, Leave, StoreFails,
         StoreHangs, CommitFails
<1>7. mixedRows' \subseteq [puid : Puids, job : JobIds, task : DOMAIN tasks]
  BY <1>1, <1>3
<1>8. finishedRows' \subseteq JobIds \X DOMAIN tasks /\ tars' \subseteq JobIds \X SUBSET Puids
  BY <1>1, <1>4, <1>5
<1>9. pendingJobs' \subseteq [job : JobIds, task : DOMAIN tasks,
                             cancel : BOOLEAN, wait : BOOLEAN]
  <2> DEFINE e == [job |-> j, task |-> t, cancel |-> TRUE, wait |-> TRUE]
  <2>1. e \in [job : JobIds, task : DOMAIN tasks, cancel : BOOLEAN, wait : BOOLEAN]
    BY <1>1
  <2>2. pendingJobs' \subseteq pendingJobs \cup {e}
    BY <1>6
  <2> HIDE DEF e
  <2> QED BY <2>1, <2>2
<1> QED BY <1>2, <1>7, <1>8, <1>9 DEF Task

\* Every step keeps the types.
LEMMA TypeStep == TypeInv /\ [Next]_vars => TypeOK'
<1> SUFFICES ASSUME TypeInv, [Next]_vars PROVE TypeOK'
  OBVIOUS
<1> USE DEF TypeInv, TypeOK
<1>1. ASSUME NEW users \in SUBSET Puids, SubmitJob(users) PROVE TypeOK'
  <2>1. NextJobId \in JobIds
    BY <1>1, NextIdIsNew
  <2>2. /\ tasks' \in Seq(Task) /\ Len(tasks') <= MaxTasks
        /\ DOMAIN tasks \subseteq DOMAIN tasks'
    <3> HIDE DEF TypeOK
    <3>1. Len(tasks) < MaxTasks
      BY <1>1 DEF SubmitJob
    <3>2. tasks \in Seq(Task) /\ Len(tasks) \in Nat
      BY TaskTypes
    <3>3. /\ tasks' \in Seq(Task) /\ Len(tasks') = Len(tasks) + 1
          /\ DOMAIN tasks \subseteq DOMAIN tasks'
      BY <1>1, <2>1, <3>2, SubmitAppends
    <3> QED BY <3>1, <3>2, <3>3, ConstantsAssumption
  <2> QED BY <1>1, <2>1, <2>2 DEF SubmitJob, dbVars, serverVars, Task
<1>2. CASE CommitJob
  <2>1. PICK s \in submission :
            jobs' = jobs \cup {s.job} /\ includes' = includes \cup ({s.job} \X s.users)
    BY <1>2, CommitCounts
  <2>2. s.job \in JobIds /\ s.users \subseteq Puids
    OBVIOUS
  <2> QED BY <1>2, <2>1, <2>2 DEF CommitJob, serverVars
<1>3. CASE RollbackJob
  BY <1>3 DEF RollbackJob, dbVars, serverVars
<1>4. ASSUME NEW t \in DOMAIN tasks, TaskStep(t) PROVE TypeOK'
  BY <1>4, TaskStepTypes
<1>5. CASE ShutDown
  BY <1>5 DEF ShutDown, dbVars
<1>6. CASE CancelJob
  <2>1. PICK e \in pendingJobs :
            /\ pendingJobs' = (pendingJobs \ {e}) \cup
                                 {[e EXCEPT !.cancel = FALSE, !.wait = FALSE]}
            /\ IF e.wait THEN server' = "Waiting" /\ waitingFor' = e.task
                         ELSE UNCHANGED serverVars
    BY <1>6 DEF CancelJob
  <2>2. e \in [job : JobIds, task : DOMAIN tasks, cancel : BOOLEAN, wait : BOOLEAN]
    OBVIOUS
  <2>3. /\ [e EXCEPT !.cancel = FALSE, !.wait = FALSE] \in
              [job : JobIds, task : DOMAIN tasks, cancel : BOOLEAN, wait : BOOLEAN]
        /\ e.task \in DOMAIN tasks
    BY <2>2
  <2> QED BY <1>6, <2>1, <2>3 DEF CancelJob, dbVars, serverVars
<1>7. CASE JobDone
  BY <1>7 DEF JobDone, dbVars
<1>8. CASE Drop
  BY <1>8, TaskTypes, DropKillsAll DEF Drop, dbVars, Task
<1>9. CASE Restart
  BY <1>9 DEF Restart, dbVars
<1>10. CASE UNCHANGED vars
  BY <1>10 DEF vars, dbVars, serverVars
<1> QED BY <1>1, <1>2, <1>3, <1>4, <1>5, <1>6, <1>7, <1>8, <1>9, <1>10
        DEF Next, ServerStep, Exit, Crash

\* The tables, the map and the tasks keep their shape: job ids do not collide
\* with the bound of the model or with each other, whatever is rolled back.
THEOREM BundleTypeCorrect == Spec => []TypeOK
<1>1. Spec => []TypeInv
  BY TypeInvInit, TypeStep, SubmissionStep, IncludedOnceStep, PTL DEF Spec, TypeInv
<1> QED BY <1>1, PTL DEF TypeInv

\* Whatever fails, nobody is in two jobs.
THEOREM NobodyTwice == Spec => []IncludedOnce
<1>1. Spec => []TypeInv
  BY TypeInvInit, TypeStep, SubmissionStep, IncludedOnceStep, PTL DEF Spec, TypeInv
<1> QED BY <1>1, PTL DEF TypeInv

-----------------------------------------------------------------------------
(* The map of pending jobs and cancel_jobs.                                *)

\* An entry is that of a task at work, and while its receiver is taken
\* cancel_jobs waits for that task.
EntryInv ==
    \A e \in pendingJobs :
        /\ tasks[e.task].job = e.job /\ Working(e.task)
        /\ ~e.wait => server = "Waiting" /\ waitingFor = e.task

\* What a step of a task does to the map.
LEMMA TaskStepEntries ==
    ASSUME tasks \in Seq(Task), NEW t \in DOMAIN tasks, TaskStep(t)
    PROVE  \/ Working(t)' /\ Working(t) /\ pendingJobs' = pendingJobs
           \/ Working(t)' /\ Register(t)
           \/ Leave(t)
<1>1. \A pc \in Pc : Goto(t, pc) => tasks'[t].pc = pc
  BY GotoMoves
<1>2. Fetch(t) => tasks'[t].pc = "Fetching"
  BY FetchMoves
<1>3. /\ "Fetching" \in Pc /\ "Hanging" \in Pc /\ "Stored" \in Pc
      /\ "Finishing" \in Pc /\ "Leaving" \in Pc
  BY DEF Pc
<1> QED BY <1>1, <1>2, <1>3 DEF TaskStep, Register, Fetch, Store, LastCheck, Finish, Stop,
           StoreFails, StoreHangs, CommitFails, Working

\* Every step keeps the entries of the map those of tasks at work.
LEMMA EntryStep == TypeInv /\ EntryInv /\ [Next]_vars => EntryInv'
<1> SUFFICES ASSUME TypeInv, EntryInv, [Next]_vars PROVE EntryInv'
  OBVIOUS
<1>0. /\ tasks \in Seq(Task) /\ DOMAIN tasks = 1 .. Len(tasks)
      /\ \A e \in pendingJobs : e.task \in DOMAIN tasks
      /\ pendingJobs \subseteq [job : JobIds, task : DOMAIN tasks,
                                cancel : BOOLEAN, wait : BOOLEAN]
  BY TaskTypes DEF TypeInv, TypeOK
<1>1. ASSUME NEW users \in SUBSET Puids, SubmitJob(users) PROVE EntryInv'
  <2>1. NextJobId \in JobIds
    BY <1>1, NextIdIsNew
  <2>2. \A u \in DOMAIN tasks : tasks'[u] = tasks[u]
    BY <1>0, <1>1, <2>1, SubmitAppends
  <2> QED BY <1>0, <1>1, <2>2 DEF SubmitJob, EntryInv, Working, serverVars
<1>2. ASSUME NEW t \in DOMAIN tasks, TaskStep(t) PROVE EntryInv'
  <2>1. /\ \A u \in DOMAIN tasks \ {t} : tasks'[u] = tasks[u]
        /\ tasks'[t].job = tasks[t].job
        /\ UNCHANGED << server, waitingFor >>
    BY <1>0, <1>2, TaskStepMoves DEF Moves
  <2>2. CASE Working(t)' /\ Working(t) /\ pendingJobs' = pendingJobs
    BY <1>0, <2>1, <2>2 DEF EntryInv, Working
  <2>3. CASE Working(t)' /\ Register(t)
    BY <1>0, <2>1, <2>3 DEF EntryInv, Working, Register
  <2>4. CASE Leave(t)
    BY <1>0, <2>1, <2>4 DEF EntryInv, Working, Leave
  <2> QED BY <1>0, <1>2, <2>2, <2>3, <2>4, TaskStepEntries
<1>3. CASE CancelJob
  <2> DEFINE After(e) == [e EXCEPT !.cancel = FALSE, !.wait = FALSE]
  <2>1. PICK e \in pendingJobs :
            /\ pendingJobs' = (pendingJobs \ {e}) \cup {After(e)}
            /\ e.wait => server' = "Waiting" /\ waitingFor' = e.task
            /\ UNCHANGED tasks
    BY <1>3 DEF CancelJob
  <2>2. \A d \in pendingJobs : d.wait
    BY <1>0, <1>3 DEF CancelJob, EntryInv
  <2>3. After(e).task = e.task /\ After(e).job = e.job
    BY <1>0
  <2> HIDE DEF After
  <2>4. \A d \in pendingJobs' \ {After(e)} : d \in pendingJobs
    BY <2>1
  <2> QED BY <2>1, <2>2, <2>3, <2>4 DEF EntryInv, Working
<1>4. CASE JobDone
  BY <1>4 DEF JobDone, EntryInv, Working
<1>5. CASE Drop
  BY <1>5 DEF Drop, EntryInv
<1>6. CASE CommitJob \/ RollbackJob \/ UNCHANGED vars
  BY <1>6 DEF CommitJob, RollbackJob, vars, EntryInv, Working, serverVars
<1>7. CASE ShutDown \/ Restart
  BY <1>7 DEF ShutDown, Restart, EntryInv, Working
<1> QED BY <1>1, <1>2, <1>3, <1>4, <1>5, <1>6, <1>7 DEF Next, ServerStep, Exit, Crash

\* cancel_jobs never meets an entry it has already canceled, whatever fails.
THEOREM CancelNeverSpins == Spec => []NeverSpins
<1>1. Init => TypeInv /\ EntryInv
  BY TypeInvInit DEF Init, EntryInv
<1>2. TypeInv /\ EntryInv /\ [Next]_vars => TypeInv' /\ EntryInv'
  BY TypeStep, SubmissionStep, IncludedOnceStep, EntryStep DEF TypeInv
<1>3. EntryInv => NeverSpins
  BY DEF EntryInv, NeverSpins
<1> QED BY <1>1, <1>2, <1>3, PTL DEF Spec

\* What cancel_jobs waits for is at work, or has just told that it is done.
WaitsForWork ==
    server = "Waiting" =>
        waitingFor \in DOMAIN tasks
            /\ (Working(waitingFor) \/ tasks[waitingFor].pc = "Done")

\* Every step keeps it so.
LEMMA WaitStep ==
    TypeInv /\ EntryInv /\ WaitsForWork /\ [Next]_vars => WaitsForWork'
<1> SUFFICES ASSUME TypeInv, EntryInv, WaitsForWork, [Next]_vars,
                    server' = "Waiting"
             PROVE  /\ waitingFor' \in DOMAIN tasks'
                    /\ Working(waitingFor)' \/ tasks'[waitingFor'].pc = "Done"
  BY DEF WaitsForWork
<1>0. /\ tasks \in Seq(Task) /\ DOMAIN tasks = 1 .. Len(tasks)
      /\ \A e \in pendingJobs : e.task \in DOMAIN tasks
  BY TaskTypes DEF TypeInv, TypeOK
<1>1. ASSUME NEW users \in SUBSET Puids, SubmitJob(users)
      PROVE  /\ waitingFor' \in DOMAIN tasks'
             /\ Working(waitingFor)' \/ tasks'[waitingFor'].pc = "Done"
  <2>1. NextJobId \in JobIds
    BY <1>1, NextIdIsNew
  <2>2. /\ DOMAIN tasks \subseteq DOMAIN tasks'
        /\ \A u \in DOMAIN tasks : tasks'[u] = tasks[u]
    BY <1>0, <1>1, <2>1, SubmitAppends
  <2> QED BY <1>1, <2>2 DEF SubmitJob, WaitsForWork, Working, serverVars
<1>2. ASSUME NEW t \in DOMAIN tasks, TaskStep(t)
      PROVE  /\ waitingFor' \in DOMAIN tasks'
             /\ Working(waitingFor)' \/ tasks'[waitingFor'].pc = "Done"
  <2>1. /\ DOMAIN tasks' = DOMAIN tasks
        /\ \A u \in DOMAIN tasks \ {t} : tasks'[u] = tasks[u]
        /\ UNCHANGED << server, waitingFor >>
    BY <1>0, <1>2, TaskStepMoves DEF Moves
  <2>2. CASE waitingFor # t
    BY <2>1, <2>2 DEF WaitsForWork, Working
  <2>3. Leave(t) => tasks'[t].pc = "Done"
    BY <1>0, GotoMoves DEF Leave, Pc
  <2>4. CASE waitingFor = t
    BY <1>0, <1>2, <2>1, <2>3, <2>4, TaskStepEntries DEF Working
  <2> QED BY <2>2, <2>4
<1>3. CASE CancelJob
  BY <1>0, <1>3 DEF CancelJob, EntryInv, Working
<1>4. CASE JobDone \/ Drop \/ ShutDown \/ Restart
  BY <1>4 DEF JobDone, Drop, ShutDown, Restart
<1>5. CASE CommitJob \/ RollbackJob \/ UNCHANGED vars
  BY <1>5 DEF CommitJob, RollbackJob, vars, WaitsForWork, Working, serverVars
<1> QED BY <1>1, <1>2, <1>3, <1>4, <1>5 DEF Next, ServerStep, Exit, Crash

\* A shutdown waits for nothing that has stopped: whatever fails, the task that
\* cancel_jobs waits for is on its way to the answer, or has sent it.
THEOREM CancelWaitsForWork == Spec => []WaitsForWork
<1>1. Init => TypeInv /\ EntryInv /\ WaitsForWork
  BY TypeInvInit DEF Init, EntryInv, WaitsForWork
<1>2. TypeInv /\ EntryInv /\ WaitsForWork /\ [Next]_vars
          => TypeInv' /\ EntryInv' /\ WaitsForWork'
  BY TypeStep, SubmissionStep, IncludedOnceStep, EntryStep, WaitStep DEF TypeInv
<1> QED BY <1>1, <1>2, PTL DEF Spec

=============================================================================
