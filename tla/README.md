# Verification of the Harmonius Choir backend

TLA+ models of the backend in `src/backend`, TLC runs that check them on small
instances, and TLAPS proofs of the properties that matter most. This file says
what the system is, which module models what, what the runs and the proofs
show, and what is left.

## The system

The backend recruits singers for virtual choirs. Users join a *project*, upload
recordings and hand them in twice: a *pre-submit*, an audition, and after it
was passed, and the project's non-disclosure agreement (NDA) agreed to, the
*submit*. Managers review both, upload edited *masters* and master the user. A
manager finally bundles the masters of many users for the mixing: a *bundle
job*.

One process (Rust, axum, tokio) serves the API. Its state is in SQLite; files
are in an object store (S3), to which clients upload with presigned requests;
Redis remembers nonces; WeChat identifies users and delivers messages.

| part | source (under `src/backend/src`) | state | operations |
|---|---|---|---|
| status and stage of a project user | `api/shared/project_user`, `api/shared/submit` | none, derived from the tables | `Status::get_by_puid`, `Stage::try_from`, `NdaStatus` |
| files | `api/shared/file`, `api/*/upload_file`, `api/*/delete_file` | `files`, `pending_files`, `deleted_files`, `file_infos`, the object store | start, continue, finish, delete, use |
| recruiting, user side | `api/user/{join_project,pre_submit,agree_nda,submit}` | `project_users`, `status_pre_submits`, `status_submits`, `nda_agreed` | join, pre-submit, agree, submit |
| recruiting, manager side | `api/manager/{pre_submit_review,submit_review,upload_file,master,project_manager_edit}` | `review_*`, `checked_files`, `status_masters`, `project_managers` | review, upload, master, grant, revoke |
| bundle jobs | `api/manager/bundle_job` | `bundle_jobs`, `bundle_job_includes`, `bundle_jobs_finished`, `status_mixed`, the map `pending_jobs` | submit; the task `run_job` |
| life cycle | `lib.rs` | `pending_jobs` | `run`, `cancel_jobs` |
| manager login | `api/manager/login`, `acquire_sudo` | `managers` (revision, TOTP secret, token id) | start, end setup, end, sudo |
| user login | `api/user/{wechat_login_or_register,wechat_claim,login_as,revoke_all_tokens}`, `api/manager/gen_login_as` | `users` | log in, claim, log in as, revoke |
| requests | `api/mod.rs` | nonces in Redis | `verified`, `spawn_await`, `end_transaction` |
| WeChat client | `wechat` | the access token | refresh, send |
| queries, extractors, signing, migrations | the rest | none | |
| administration UI | `src/manage` (TypeScript) | none | calls the API |

**How they interact.** Every handler first burns the nonce of its request, if
there is one, then runs in a task of its own (`spawn_await`), so that neither
the timeout of 15 s nor a client that hangs up stops it half-way. The handler
opens one SQLite transaction, `BEGIN IMMEDIATE` when it writes, checks
everything in it, writes, and commits if and only if it returns `Ok`. A bundle
job is the exception: its request spawns a second task, which works on after
the answer, with a transaction of its own at the end, and is known to the rest
of the process through `pending_jobs` only.

**What is hard.** Requests of users and managers interleave freely between
transactions, and nothing but queries at the start of each handler keeps their
effects consistent: the schema has no foreign key and no unique index besides
the row ids. An upload takes three requests and one transfer that the backend
never sees, any of which may be late, repeated or missing. Projects end while
things are under way. Bundle jobs run beside the requests, fail, and are
canceled or cut off by a shutdown. `PROJECT.json` lists these hazards with the
line at which each bites. A login takes two requests, which read, compute for a
while and write in steps that other logins get between; a client repeats what it
got no answer to, and only a nonce in a cache that may forget it stands between
a retry and a second row.

## The modules

| module | models |
|---|---|
| `ProjectUser` | the derivation of status and stage from what was submitted and reviewed |
| `Progress` | abstract specification: the steps a status may take, and the NDA before the submit |
| `Recruit` | every handler that changes a project user's tables and files, the object store, the end of projects |
| `RecruitProps`, `MCRecruit` | the properties of `Recruit`; the values of its constants |
| `Requests` | the way of a writing request: nonce, detached handler, write lock, review message, commit, answer, and everything that fails on it |
| `Reviewing` | abstract specification of what all that comes down to: one review per submission; implemented by `Requests` and by `Recruit` |
| `RequestProps`, `MCRequests` | the properties of `Requests`; the values of its constants |
| `ManagerLogin` | the two requests of a manager's login, the setup of a TOTP secret, sessions, sudo mode, the creation of managers |
| `UserLogin` | beside it: login by openid, the `LoginAsToken` of single use, revocation |
| `AccessProps`, `MCAccess` | the properties of both; the values of their constants |
| `Ledger` | abstract specification of bundle jobs: who is in which job, and what a finished job has done |
| `BundleJob` | the request that submits a job, the task, `cancel_jobs`, crash and restart |
| `BundleProps`, `MCBundle` | the properties of `BundleJob`; the values of its constants |
| `RecruitProofs`, `ReviewProofs`, `JourneyProofs`, `FileProofs` | theorems about `Recruit`; the first also holds what is needed of maxima and sums |
| `RequestProofs` | theorems about `Requests`, whatever fails |
| `LoginProofs` | theorems about `ManagerLogin` and `UserLogin` |
| `BundleProofs`, `LedgerProofs` | theorems about `BundleJob` whatever fails, and while submits commit |

### Recruit

One variable per table, named after it, with the joins of a row and its review
folded together (`preSubmits[puid][i].review`); `urls` and `objects` are the
object store; `ended` is the clock as the handlers see it. One action per
handler, with the handler's name. Every handler that writes runs in one
immediate transaction, so it is one atomic action; a request that is refused
writes nothing and is no step.

Abstractions: a project user is the pair of project and user instead of a row
id; a pre-submit or submit is its position among those of its project user
(ids grow); sizes are small integers, negative ones included, since a manager's
upload compares its size with an upper limit only; a file's content is its md5. Names,
comments, reasons, file types and the groups other than choir decide nothing
and are left out. The right answer to a project's question and the right skip
password are assumed; wrong ones are refused. Tokens are valid: who may call
what is modelled (`JoinedAndOpen`, `CanAccess`), how a token is obtained is in
`ManagerLogin` and `UserLogin`. The review message is in `Requests`, which also
shows that a handler may be taken for one step: `Requests`, with all the steps
of a request, and `Recruit`, with one step per handler, implement the same
`Reviewing`, in which a submission gets one review and keeps it.

Kept on purpose, because they are what the code does: the count limit counts
files still uploading while handing in takes finished ones; deleted files count
towards the capacity; a deleted file can be finished; `have_uploading` looks at
all projects; masters need no status; a submit may have no files; a manager may
finish or delete an upload after losing access; two files with one content
share one key in the store.

`MarkMixed` is what `Recruit` sees of bundle jobs: the last transaction of a
task. `Ledger` promises its guard.

### BundleJob

`jobs`, `includes`, `mixedRows` and `finishedRows` are tables; `tars` is the
object store; `submission` is the write transaction of a request between
`spawn_job` and its commit, during which no other writer gets in; `tasks` are
the spawned tasks, each with its program counter:

    Spawned --Register--> Fetching --Store--> Stored --LastCheck--> Finishing
      --Finish--> Leaving --Leave--> Done

`Stop`, `StoreFails` and `CommitFails` lead to `Leaving` from where the code
checks for cancellation, transfers or commits. `StoreHangs` leads from a transfer
to `Hanging`, which nothing but the end of the process leaves: no request to the
object store has a timeout in the code, and a task looks for its cancellation
between transfers only. Each lock of `pending_jobs`
guards code without an `await`, so each critical section is one action. Whether
a task is canceled is not stored: the sender sits in the map, and a sender that
was used or dropped cancels (`Canceled`). `Drop` is the end of the process.
`Faults` says what may fail in an instance: the commit of a submit, transfers
(`"Store"` with an error, `"Hang"` without an answer), the last transaction of a
task, the process.

A request may still be at work after the server has stopped serving, because
its task outlives the timeout that closed its connection; `SubmitJob` is
therefore disabled only when the process is down. A task that panics is not
modelled: `run_job` returns its errors.

### Requests

Each of `MaxRequests` requests has a program counter:

    review:  New --Send--> Sent --Verified--> Spawned --Begin--> Telling --TakeToken--> Posting
                                                                 --Post--> Ending --Commit--> Done
    create:  New --Send--> Sent --Verified--> Spawned --Begin--> Asking --AskStore--> Ending
                                                                 --Commit--> Done

A review of a user without openid goes from `Telling` to `Ending`
(`NobodyToTell`), a `Create` that has nothing to ask from `Spawned`; `Fetching` is `Telling` with the mutex
of the access token held, when that has expired. `nonces` is Redis, `writer` the
holder of SQLite's write lock, `committed` the tables, `accessToken` the
`WechatImpl`, `honoured` the token WeChat knows. Two handlers stand for all. A
review asks WeChat with the transaction open, which gives up after 10 s. A
creation looks for no earlier one and thus relies on the nonce alone; it may ask
the object store with the transaction open, as `create_project` does for its
attachment and the finish of an upload in both APIs (`upload_finish`) for its
object, and may wait for the answer for good (`StoreHangs`, `Hanging`): neither
the client of the store nor the spawned handler has a timeout. `Begin` covers the insert, too: what is written is
seen by nobody before the commit. The verdict is not told apart; a second review
of a submission is one whatever it says.

Faults: a commit fails; the process is cut off and restarted at any point;
Redis answers with an error, before or after it stored the nonce, or forgets
nonces; WeChat does not answer, answers late, refuses a token it has replaced;
the object store answers with an error or not at all;
the timeout or a client that hangs up ends a request at any point. `Sent` to
`Spawned` is one step because nothing is awaited between the answer of Redis and
the spawn.

### ManagerLogin and UserLogin

One variable per column that decides something (`revision`, `secret`, `tokenId`),
`logins` and `loginAs` for the tokens handed out, `usedNonces` and `nonceKeys`
for Redis, `checked` for second requests between the check of their nonce and
their transaction, `sessions` and `userTokens` for the cookies handed out. A TOTP
secret and a nonce are named by the login they came with. `StartLogin` and
`HandOut` are two actions, because the password is checked without a connection;
so are `PreVerify` and `EndLogin` or `EndSetup`, and `LoginAs` and `EndLoginAs`.
Every request may fail or lose its answer after each step. Redis may forget a
nonce whenever it has one, again and again: it is configured to evict
(`allkeys-lru`, nothing persisted, `lib.rs:384`). `forgotten` counts how often,
and `MaxForgets` bounds the sum of the counts for TLC.

Passwords and codes are right or wrong, and wrong ones refuse: argon2, the
window and drift of TOTP, and the signatures that keep clients from making
tokens are left out, and one code may be shown twice, as in the code. The clock
jumps in units at which anything expires. The token id in a manager's session is
left out: nothing changes it. `wechat_claim` has no action: `is_uid_bound.sql`
selects by a column `uid` that `users_latest` does not have, so the handler ends
with an error before it writes.

## The runs

| run | instance | distinct states | what it shows |
|---|---|---|---|
| `recruit_one` | 1 user, 1 project with NDA, root; 3 files, 2 pre-submits, 2 submits | 1.0 M | the whole way of a user, including rejection, a second try at both stages and the reuse of the pre-submit file; the files of a master stay as a job read them; refinement of `Progress` and of `Reviewing` |
| `recruit_managers` | 2 users, root and a manager; 1 file, 2 submits each, lists of checked files | 1.0 M | masters, reviews and groups of checked files with two managers, one of them gaining and losing access |
| `recruit_projects` | 1 user, 2 projects; 2 files, sizes -1, 1 and 3, capacity 2 | 2.0 M | what projects share (capacity, uploading files) and must not (an end), and what an upload left unfinished at the end of one does to the other |
| `recruit_empty_list`, `recruit_early_master`, `recruit_late_mix` | as above, smaller | | findings, see below |
| `bundle_jobs` | 2 users, 3 tasks; failing or unanswered transfers, failing last transactions, crashes, shutdowns | 1.3 M | tables against archives, shutdown, refinement of `Ledger` |
| `bundle_shutdown` | 2 users, 2 tasks; everything may fail | 129 k | what holds even when submits fail to commit; a shutdown terminates, unless it waits for a transfer that is never answered |
| `bundle_finish` | 2 users, 3 tasks; nothing fails | 345 k | accepted jobs finish |
| `bundle_commit` | 2 users, 2 tasks; submits fail to commit, nothing else | | finding, see below |
| `requests` | 3 requests, 1 nonce, 1 submission, 2 access tokens; everything may fail | 1.5 M | retries take effect once, answers are true, what a user was told, the access token under the write lock, no handler hangs but on the object store, refinement of `Reviewing` |
| `access` | 2 managers, 2 logins, 3 sessions, 1 user, 1 `LoginAsToken`, 1 revocation, times 1 to 3; Redis forgets twice, the same nonce or two | 4.1 M | concurrent logins and setups, sudo mode, single use, revocation |

**Bounds, and why they are enough.** `MaxFiles`, `MaxPreSubmits`, `MaxSubmits`
and `MaxTasks` cap what grows. Two submissions of a kind are the least that
lets a rejected one be followed by another; three files are the least for a
pre-submit, a submit and a master of one user, or two of a kind and one after a
rejection. The handlers compare at most two rows of a kind (latest and
earlier, one manager's and another's, one project's and another's), which is
why two users, two managers and two projects suffice, each pair in the run
whose properties relate them. Three tasks are one job that fails, one beside it
and one after. The limits of the code, 100 files and 1 GB, become 2 files and 2
units, so that they are reached. Three requests are an original, its repetition
with the same nonce and a competitor; two access tokens are one and the one that
replaces it. Two logins are two that set up a secret at the same time, or a
login and its competitor; three sessions are one of each login and one in sudo
mode. A nonce forgotten twice (`MaxForgets`) is the least with which the sessions
of one login token exceed two, so that the count is no artefact of the
bound; the proofs need none. Sizes of -1 and 3 and a capacity of 2 let a manager
exceed the capacity by the one unit that the negative file made room for, and a
user, whose project allows 1 to 2, reach it with two files.
The two users of `recruit_managers` and the two projects of
`recruit_projects` are interchangeable in their instances and properties, none of
which is a liveness property, so symmetry is sound there. The lifetimes of tokens become 0 and 1 on a clock of 3 instants, which
keeps their order (sudo mode and the `LoginAsToken` end before a session) and
lets each expire while another is good; sudo mode of length 0 still spans
everything done in its instant. The proofs have no bounds but those of the
modules' constants, which are arbitrary.

**Deadlock.** The recruiting runs do not check it: clients may stop at any
time, and the bounds stop the model; nor do `requests` and `access`, for the same
reasons, the former stating instead that handlers end. The bundle runs check it; the server can
always be shut down and restarted.

**Fairness.** `Recruit` has none: nobody is obliged to do anything. `BundleJob`
assumes weak fairness of each task's next step (tokio runs what can run; SQLite
lets a waiting writer in or fails it; a transfer succeeds, fails or hangs, which
is a step of its own after which the task is owed nothing), of the end of an open transaction, and of `cancel_jobs`. Nothing
makes a client submit or a server stop. Since `MaxTasks` bounds the requests, a
task is not starved of the write lock by an endless stream of them; the code
gives no such guarantee, only SQLite's busy timeout, which `CommitFails`
covers. `Requests` assumes weak fairness of each handler's next step: the runtime
polls what can run, SQLite lets a waiting writer in or gives up after its busy
timeout, WeChat answers or the client gives up after 10 s. No such limit is on the object
store, so a handler that asks it may step to `Hanging` instead, and `HandlersEnd`
makes an exception of it: what is claimed is that a handler hangs nowhere else,
however long another one holds the write lock. `ShutdownEnds` has the same
exception for the one task that `cancel_jobs` waits for, and `JobsFinish` is
checked where nothing fails and nothing hangs. Timeouts that the AWS client may
have by default are not relied upon, since the code sets none. Clients, the clock,
the cache and the process have none. `ManagerLogin` and `UserLogin` state safety
only, since nothing ever has to be logged in.

### What the runs found

* `recruit_early_master`: a manager can master a user who has passed nothing.
  A later review then leads to `Mastered` whatever its verdict, and the user
  cannot submit again. A comment in `bundle_job` expects otherwise.
* `recruit_empty_list`: an empty list of checked files allocates a group id
  without a row; the next review of any user gets the same id, and from then on
  both show one list.
* `recruit_late_mix`: a job submitted before the end of a project mixes its
  users after it.
* `bundle_commit`: the task of a job is spawned before the job is committed; if
  the commit fails, the task works under an id the next job is given.

Also seen, without a run: a submit without files is accepted although
`todo.md:88` has the lower bound as done; root has a capacity although the
schema says that it is unlimited (`20250606_0001_init.sql:9`), and
`WithinCapacity` includes it; the size of a manager's upload has no lower end
(`api/manager/upload_file/mod.rs:154`), so that a negative one makes room for
more than the capacity once it is used up itself; nothing in `src` puts a
timeout on the object store, which is asked with the write lock held
(`api/shared/file/mod.rs:467`, `api/manager/create_project/mod.rs:67`) and by
tasks that a shutdown waits for (`api/manager/bundle_job/mod.rs:371`); a login
token leads to one more session each time Redis forgets its nonce; `resume_jobs`
has no caller, so that `LostForGood` holds; a file left uploading in a project
that has ended blocks its user in every other project (`StrandedForGood`);
`wechat_claim` always fails, and its checks `is_bound > 1` could refuse nobody
if it did not; no handler revokes the sessions of a manager; an access token
that WeChat refuses (40001, 40014) is kept until it expires, so that messages
are lost until then; since the review message is sent with the write lock held,
messages go out one at a time and every other writer waits for WeChat; a nonce
is burned although the request then fails, so that a retry needs a new one,
which the administration UI always makes (`src/manage/src/api.ts:60`).

## The proofs

All theorems are of the form `Spec => ...` for arbitrary users, projects,
managers, lists, requests, logins, tasks and bounds, from the assumptions on the
constants that each module names. Two need more: the theorems of `LedgerProofs`
`SubmitsCommit`, and those about checked files `NoEmptyList`; `bundle_commit`
and `recruit_empty_list` show that neither can be dropped.

* `RecruitProofs!TypeCorrect`: `TypeOK`. The inductive invariant `TypeInv` adds
  that `checkedFiles` is finite; without it the next group id, a maximum, might
  not exist. That finite sets of numbers have a maximum is proved by
  well-founded induction over their subsets (`MaxOfNat`).
* `RecruitProofs!CapacityHeld`: `WithinCapacity`. What is inductive
  is its first half (`CapacityInv`), that the unused files and, used or not, those
  of negative size sum up to the capacity at most: a use takes only sizes away
  that are not negative, and an upload that fits beside the unused files fits
  beside this sum, which is no larger. The half about uploaders without a
  negative size follows. What both need is a theory of sums over finite sets, which the fold
  of the community modules defines by recursion over subsets (`FoldIsSize`). `Sums(g, rows, T)` says
  that `g` gives every subset of `T` its sum; that one exists and that two
  agree is shown by taking a smallest set for which it is not so
  (`SmallestSet`), since an induction theorem cannot be instantiated. From it
  follow `SizeOfAny`, a sum loses the size of any element taken out, and
  `SizeOfFewer`, to leave out sizes that are not negative (not positive) makes a sum
  no larger (no smaller). An upload is then the one step that
  adds to the unused files (`CapacityUpload`), under a check that counts the new
  one; every other step takes some away or leaves them.
* `ReviewProofs`: `ReviewHistory`, `NdaBeforeSubmit` and `VerdictsFinal`. No
  run states the last two any more: the runs check `FollowsProgress` and
  `FollowsReviewing`, which say more. The invariant `InOrder(puid)` says that all but the latest pre-submit and submit
  are rejected and, stronger than `NdaBeforeSubmit`, that while an agreement is
  pending there is no submit at all: a rejected submit would otherwise allow
  the next step back to a status after `PreSubmitPassed`. From `NoEmptyList`
  also `CheckedListsApart` and `ReviewSetsCheckedList`, by `GroupsHaveRows`: the
  group of every review has a row, so that the next id, one more than the
  largest in `checkedFiles`, is the id of no review. An empty list breaks just
  that.
* `JourneyProofs!RecruitImplementsProgress`: `Recruit` implements `Progress`.
  Needed besides `ReviewInv`: who has a pre-submit, a submit or a master has
  joined (`JoinedAndMastered`).
* `JourneyProofs!RecruitFollowsReviewing`: `Recruit` implements `Reviewing`. Each
  handler is shown to leave all decisions alone or to decide on one submission,
  so far without a decision; what is handed in is new and undecided.
* `FileProofs`: `UsedFilesStored`, for which the invariant adds that every file
  whose upload was finished is in the store; `EndedProjectsFrozen`, one lemma
  per group of tables; `UsesFitTarget` and `UsedOnce`, in one invariant
  (`UsesInv`) with the existence of the pre-submits that are referred to, since
  a new pre-submit would otherwise find a use that was there before it;
  `OnePreSubmitFile` and `NothingLeftBehind`, by what a step can do to the unused
  files of one stage: an upload adds one only where the limit allows it, and the
  step that ends the stage uses them all; `StrandedForGood`; `JobInputsKept`, from
  `UsedFilesStored` and `MastersHaveFiles`: `Master` is the one step that refers
  to files as a master's, takes at least one and is refused the second time, and
  no step replaces a finished upload.
* `RequestProofs`, whatever fails: `TypeOK`, `AtMostOnce`, `AnswersHold`,
  `ToldIsStored`, `TokenNotReplaced`, and that `Requests` implements `Reviewing`.
  The actions of a handler are first summed up as six kinds of step (`Enters`,
  `GoesOn`, `Commits`, `Loses`, `Early`, `Abandons`), and the parts of the
  invariant are then proved for these. `OneWriter` says that the write lock is
  held by exactly the request inside its transaction, `NoncesKept` that a request
  beyond the check of its nonce left it in Redis or Redis forgot it, `Untold` that
  a request which asks the object store has told nobody, so that it may be refused
  there, `OneReview` that no two requests have or hold the review of one submission. Two more
  theorems follow that no run states: `RequestsOneWriter`, that the write lock is
  never left behind, and `RequestsToldOnce`, that a user is told two verdicts on
  one submission only after a handler was cut off between message and commit.
* `LoginProofs`: `TypeOK`, `SecretSetOnce`, `SessionsHaveSecret`,
  `OneSessionPerLogin`, `SudoNeedsCode`, `LoginAsOnce` and `RevokedForGood`. The
  invariant counts the second requests for a login, those under way and those
  that succeeded, against the times its nonce was let through, once and once more
  for each time Redis forgot it (`Counted`), and
  says that a setup token with the revision of its row means a row without a
  secret (`TokensFit`): the revision, not the nonce, is what admits one setup.
* `BundleProofs`, whatever fails: `TypeOK`, `IncludedOnce`, `NeverSpins`. The
  invariant `SubmissionInv` says that job ids have no gaps and that the open
  transaction holds the next one, for users who are in no job; without it the
  commit could add a second job with an id that exists. `EntryInv` says that an
  entry of the map is that of a task at work, and that the task `cancel_jobs`
  waits for is the only one whose receiver is taken. With it
  `CancelWaitsForWork`: that task is at work, on an unanswered transfer perhaps,
  or has sent its answer, so that the one way a shutdown could hang is a task that
  takes no further step.
* `LedgerProofs`, from `SubmitsCommit` (`"Submit" \notin Faults`; crashes,
  shutdowns, failing transfers and failing last transactions are allowed): `OnlyOnce`, `ArchivesFit`,
  `MixedByTheirJob`, `LostForGood`, `OrderlyExit` and that `BundleJob`
  implements `Ledger`. The assumption is needed, as `bundle_commit` shows. The
  heart of `JobInv` is `TaskInv`: a live task is alone with its job, the job is
  still as it was given to the task, it is not finished before the last
  transaction, and from the upload to that transaction its archive is the right
  one. A submit that fails to commit is what makes two live tasks share a job.

Only model-checked is liveness: `ShutdownEnds`, `JobsFinish` and `HandlersEnd`,
which rest on fairness and are out of the prover's reach. What they need at
every state is proved for the first and the last: `CancelWaitsForWork` and
`NeverSpins`, `RequestsOneWriter`. Every other property of the passing runs is a
theorem.

## Not modelled

* Queries and what they derive for display: they run in deferred transactions
  and change nothing. Where a derived value decides something (status, stage,
  unused files, the latest checked list), the models have it.
* CBOR, signatures, password hashing, TOTP codes, macros: stateless. A
  password, a code or a signature is right or wrong in the models.
* Start-up from the environment and the migrations: they run alone, before the
  server listens.
* The exchange of a WeChat login code: the backend keeps nothing of it;
  `UserLogin` starts from its result.
* `wechat_claim`, which always fails at its first query and writes nothing, and
  `resume_jobs`, which nothing calls.
* The creation of projects, as rows: projects and their managers' rights at the
  start are constants of `Recruit`; `Requests` has the request.
* The administration UI: its requests are the inputs of the models.

`Recruit`, `Requests`, `BundleJob` and the logins are separate specifications.
What they share is small: `MarkMixed` of `Recruit` is the last transaction of
`BundleJob`, an action of `Recruit` is a whole commit of `Requests`, and a
session of the logins is what every request carries. A composition of all of
them would multiply their states and check nothing that these seams do not
already fix.
