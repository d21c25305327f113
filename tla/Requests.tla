-------------------------------- MODULE Requests ------------------------------
(***************************************************************************)
(* The way of a request that writes, from the client to the commit and      *)
(* back, of which the specifications of the components only see the commit. *)
(*                                                                          *)
(* The nonce of a request, if it has one, is burned in Redis.  The handler  *)
(* then runs in a task of its own, so that neither the timeout of the       *)
(* request nor a client that hangs up stops it.  It waits for the write     *)
(* lock of SQLite, checks, writes and, if it is a review, tells the user by *)
(* a WeChat message before it commits.  For that it takes the access token  *)
(* that all handlers share, or fetches a new one once that has expired.     *)
(*                                                                          *)
(* Two handlers stand for all: the review of a submission, which looks for  *)
(* an earlier review, and every other write, which looks for nothing that   *)
(* matters here, but may ask the object store in its transaction, as the    *)
(* end of an upload and the creation of a project do.                       *)
(***************************************************************************)
EXTENDS Naturals, FiniteSets

CONSTANTS
    MaxRequests,    \* bound of the model: requests ever sent
    Nonces,         \* what clients put into the field nonce
    NoNonce,        \* the field is empty
    Submissions,    \* what can be reviewed
    Create,         \* create_project, upload_file and their like
    MaxTokens,      \* bound of the model: access tokens ever fetched
    Faults          \* what may go wrong: see ConstantsAssumption

ASSUME ConstantsAssumption ==
    /\ MaxRequests \in Nat /\ MaxTokens \in Nat
    /\ NoNonce \notin Nonces /\ Create \notin Submissions
    /\ Faults \subseteq {"Commit", "Crash", "Cache", "Revoke", "Hang"}

Requests == 1 .. MaxRequests
Tokens   == 0 .. MaxTokens
NoToken  == 0
NoWriter == 0
Ops      == Submissions \cup {Create}

VARIABLES
    reqs,           \* where each request is, what it asks, the token it uses
    answers,        \* what the client got: Ok, some error, or nothing in time
    nonces,         \* the nonces Redis remembers
    forgotten,      \* history: the nonces Redis has forgotten
    writer,         \* the request in an immediate transaction
    committed,      \* the requests whose rows are in the tables
    accessToken,    \* WechatImpl::access_token
    honoured,       \* the access token WeChat accepts
    told,           \* history: the reviews whose message was delivered
    lost            \* history: the requests cut off between Begin and Commit

cacheVars  == << nonces, forgotten >>
wechatVars == << accessToken, honoured >>
vars == << reqs, answers, cacheVars, writer, committed, wechatVars, told, lost >>

Sent(r)     == reqs[r].pc # "New"
InTrans     == {"Telling", "Fetching", "Posting", "Asking", "Hanging", "Ending"}
Handling    == InTrans \cup {"Spawned"}
IsReview(r) == reqs[r].op # Create

Init ==
    /\ reqs = [r \in Requests |-> [pc |-> "New", nonce |-> NoNonce,
                                   op |-> Create, token |-> NoToken]]
    /\ answers = [r \in Requests |-> "None"]
    /\ nonces = {} /\ forgotten = {}
    /\ writer = NoWriter
    /\ committed = {}
    /\ accessToken = [token |-> NoToken, fresh |-> FALSE] /\ honoured = NoToken
    /\ told = {} /\ lost = {}

Goto(r, pc) == reqs' = [reqs EXCEPT ![r].pc = pc]

\* A client that was cut off gets no other answer.
Answer(r, answer) ==
    answers' = [answers EXCEPT ![r] = IF @ = "None" THEN answer ELSE @]

\* The handler returns without having written.
Refuse(r, answer) ==
    /\ Goto(r, "Done")
    /\ Answer(r, answer)

-----------------------------------------------------------------------------
(* Before the handler.                                                     *)

\* A new request, or one sent again: with the nonce of another, a new one or
\* none.
Send(r, nonce, op) ==
    /\ reqs[r].pc = "New"
    /\ \A q \in Requests : q < r => Sent(q)
    /\ reqs' = [reqs EXCEPT ![r] = [pc |-> "Sent", nonce |-> nonce, op |-> op,
                                    token |-> NoToken]]
    /\ UNCHANGED << answers, cacheVars, writer, committed, wechatVars, told, lost >>

\* Mutant of Burn: an empty nonce is stored like any other.
Burn_Empty(r) == nonces' = nonces \cup {reqs[r].nonce}

Burn(r) == nonces' = nonces \cup ({reqs[r].nonce} \ {NoNonce})

\* Mutant of Verified: the nonce is looked up and not stored.
Verified_NotStored(r) ==
    /\ reqs[r].pc = "Sent"
    /\ IF reqs[r].nonce \in nonces THEN Refuse(r, "Error")
                                   ELSE Goto(r, "Spawned") /\ UNCHANGED answers
    /\ UNCHANGED << nonces, forgotten, writer, committed, wechatVars, told, lost >>

\* Request::verified and spawn_await, between which nothing is awaited.
Verified(r) ==
    /\ reqs[r].pc = "Sent"
    /\ IF reqs[r].nonce \in nonces THEN Refuse(r, "Error")
                                   ELSE Goto(r, "Spawned") /\ UNCHANGED answers
    /\ Burn(r)
    /\ UNCHANGED << forgotten, writer, committed, wechatVars, told, lost >>

\* Redis answers with an error, maybe after it has stored the nonce.
CacheFails(r) ==
    /\ "Cache" \in Faults
    /\ reqs[r].pc = "Sent"
    /\ Refuse(r, "Error")
    /\ Burn(r) \/ UNCHANGED nonces
    /\ UNCHANGED << forgotten, writer, committed, wechatVars, told, lost >>

\* Redis evicts keys when it is full and keeps none over a restart.
Forget(nonce) ==
    /\ "Cache" \in Faults
    /\ nonce \in nonces
    /\ nonces' = nonces \ {nonce}
    /\ forgotten' = forgotten \cup {nonce}
    /\ UNCHANGED << reqs, answers, writer, committed, wechatVars, told, lost >>

\* TimeoutLayer, or the client hangs up.  What was still waiting for Redis is
\* dropped, maybe after the nonce was stored; a spawned handler goes on.
Timeout(r) ==
    /\ answers[r] = "None"
    /\ \/ /\ reqs[r].pc = "Sent"
          /\ Refuse(r, "Timeout")
          /\ Burn(r) \/ UNCHANGED nonces
       \/ /\ reqs[r].pc \in Handling
          /\ Answer(r, "Timeout")
          /\ UNCHANGED << reqs, nonces >>
    /\ UNCHANGED << forgotten, writer, committed, wechatVars, told, lost >>

-----------------------------------------------------------------------------
(* The handler.                                                            *)

ReviewsOf(s) == {r \in committed : reqs[r].op = s}

Reviewed(r) == IsReview(r) /\ ReviewsOf(reqs[r].op) # {}

\* Where a handler goes in its transaction: a review tells the user, another
\* write may have to ask the object store.
Onward(r) ==
    \E pc \in IF IsReview(r) THEN {"Telling"} ELSE {"Asking", "Ending"} : Goto(r, pc)

\* Mutant of Begin: the transaction of a review is deferred and its insert comes
\* after the message, so that nothing takes the lock before.
Begin_InsertLast(r) ==
    /\ reqs[r].pc = "Spawned"
    /\ \/ /\ ~Reviewed(r)
          /\ IF IsReview(r) THEN UNCHANGED writer ELSE writer = NoWriter /\ writer' = r
          /\ Onward(r)
          /\ UNCHANGED answers
       \/ /\ Refuse(r, "Error")
          /\ UNCHANGED writer
    /\ UNCHANGED << cacheVars, committed, wechatVars, told, lost >>

\* Mutant of Begin: nobody looks for an earlier review.
Begin_Unchecked(r) ==
    /\ reqs[r].pc = "Spawned"
    /\ writer = NoWriter
    /\ \/ /\ writer' = r
          /\ Onward(r)
          /\ UNCHANGED answers
       \/ /\ Refuse(r, "Error")
          /\ UNCHANGED writer
    /\ UNCHANGED << cacheVars, committed, wechatVars, told, lost >>

\* BEGIN IMMEDIATE, the checks and the insert.  Whatever else a handler checks
\* may refuse the request; what was written is rolled back then.
Begin(r) ==
    /\ reqs[r].pc = "Spawned"
    /\ writer = NoWriter
    /\ \/ /\ ~Reviewed(r)
          /\ writer' = r
          /\ Onward(r)
          /\ UNCHANGED answers
       \/ /\ Refuse(r, "Error")
          /\ UNCHANGED writer
    /\ UNCHANGED << cacheVars, committed, wechatVars, told, lost >>

\* SQLite gives up waiting for the lock after its busy timeout.
BeginFails(r) ==
    /\ reqs[r].pc = "Spawned"
    /\ writer # NoWriter
    /\ Refuse(r, "Error")
    /\ UNCHANGED << cacheVars, writer, committed, wechatVars, told, lost >>

\* send_message_infallible to a user without openid.
NobodyToTell(r) ==
    /\ reqs[r].pc = "Telling"
    /\ Goto(r, "Ending")
    /\ UNCHANGED << answers, cacheVars, writer, committed, wechatVars, told, lost >>

\* Post the message with a copy of the access token.
GotoPost(r, token) ==
    reqs' = [reqs EXCEPT ![r] = [@ EXCEPT !.pc = "Posting", !.token = token]]

MutexFree == \A q \in Requests : reqs[q].pc # "Fetching"

\* get_access_token: the token is copied and the mutex given back, unless it
\* has expired; then the mutex is held until WeChat has answered.
TakeToken(r) ==
    /\ reqs[r].pc = "Telling"
    /\ MutexFree
    /\ IF accessToken.fresh THEN GotoPost(r, accessToken.token)
                            ELSE Goto(r, "Fetching")
    /\ UNCHANGED << answers, cacheVars, writer, committed, wechatVars, told, lost >>

\* WeChat no longer honours the token it gave out before.
FetchToken(r) ==
    /\ reqs[r].pc = "Fetching"
    /\ accessToken.token < MaxTokens
    /\ accessToken' = [token |-> accessToken.token + 1, fresh |-> TRUE]
    /\ honoured' = accessToken.token + 1
    /\ GotoPost(r, accessToken.token + 1)
    /\ UNCHANGED << answers, cacheVars, writer, committed, told, lost >>

\* No answer in time, or a token that has expired when it comes.  The error is
\* logged, and the review goes on without the message.
FetchFails(r) ==
    /\ reqs[r].pc = "Fetching"
    /\ Goto(r, "Ending")
    /\ UNCHANGED << answers, cacheVars, writer, committed, wechatVars, told, lost >>

\* Mutant of Post: an error of WeChat ends the handler.
Post_Fallible(r) ==
    /\ reqs[r].pc = "Posting"
    /\ \/ reqs[r].token = honoured /\ told' = told \cup {r}
       \/ UNCHANGED told
    /\ \/ /\ reqs' = [reqs EXCEPT ![r] = [@ EXCEPT !.pc = "Ending", !.token = NoToken]]
          /\ UNCHANGED << answers, writer >>
       \/ /\ reqs' = [reqs EXCEPT ![r] = [@ EXCEPT !.pc = "Done", !.token = NoToken]]
          /\ Answer(r, "Error")
          /\ writer' = NoWriter
    /\ UNCHANGED << cacheVars, committed, wechatVars, lost >>

\* The message may arrive even if its answer does not; an error is logged, and
\* an access token that WeChat refused stays where it is.
Post(r) ==
    /\ reqs[r].pc = "Posting"
    /\ reqs' = [reqs EXCEPT ![r] = [@ EXCEPT !.pc = "Ending", !.token = NoToken]]
    /\ \/ reqs[r].token = honoured /\ told' = told \cup {r}
       \/ UNCHANGED told
    /\ UNCHANGED << answers, cacheVars, writer, committed, wechatVars, lost >>

\* head_object, of the file whose upload ends or of the attachment of a project.
\* If it is not there, or the store answers with an error, nothing is written.
AskStore(r) ==
    /\ reqs[r].pc = "Asking"
    /\ \/ /\ Goto(r, "Ending")
          /\ UNCHANGED << answers, writer >>
       \/ /\ Refuse(r, "Error")
          /\ writer' = NoWriter
    /\ UNCHANGED << cacheVars, committed, wechatVars, told, lost >>

\* The store does not answer, and nobody stops waiting for it: the client has no
\* timeout, and that of the request does not reach a spawned handler.
StoreHangs(r) ==
    /\ "Hang" \in Faults
    /\ reqs[r].pc = "Asking"
    /\ Goto(r, "Hanging")
    /\ UNCHANGED << answers, cacheVars, writer, committed, wechatVars, told, lost >>

\* end_transaction of a handler that returned Ok.
Commit(r) ==
    /\ reqs[r].pc = "Ending"
    /\ committed' = committed \cup {r}
    /\ writer' = NoWriter
    /\ Goto(r, "Done") /\ Answer(r, "Ok")
    /\ UNCHANGED << cacheVars, wechatVars, told, lost >>

\* Mutant of CommitFails: the error of try_end_transaction is swallowed.
CommitFails_Swallowed(r) ==
    /\ "Commit" \in Faults
    /\ reqs[r].pc = "Ending"
    /\ lost' = lost \cup {r}
    /\ writer' = NoWriter
    /\ Goto(r, "Done") /\ Answer(r, "Ok")
    /\ UNCHANGED << cacheVars, committed, wechatVars, told >>

\* Mutant of CommitFails: the transaction is leaked instead of rolled back.
CommitFails_LockKept(r) ==
    /\ "Commit" \in Faults
    /\ reqs[r].pc = "Ending"
    /\ lost' = lost \cup {r}
    /\ Refuse(r, "Error")
    /\ UNCHANGED << cacheVars, writer, committed, wechatVars, told >>

CommitFails(r) ==
    /\ "Commit" \in Faults
    /\ reqs[r].pc = "Ending"
    /\ lost' = lost \cup {r}
    /\ writer' = NoWriter
    /\ Refuse(r, "Error")
    /\ UNCHANGED << cacheVars, committed, wechatVars, told >>

-----------------------------------------------------------------------------
(* The rest of the world.                                                  *)

ExpireToken ==
    /\ accessToken.fresh
    /\ accessToken' = [accessToken EXCEPT !.fresh = FALSE]
    /\ honoured' = NoToken
    /\ UNCHANGED << reqs, answers, cacheVars, writer, committed, told, lost >>

\* WeChat replaces a token early, as when someone else fetches one for the same
\* application; the backend is not told.
RevokeToken ==
    /\ "Revoke" \in Faults
    /\ honoured # NoToken
    /\ honoured' = NoToken
    /\ UNCHANGED << reqs, answers, cacheVars, writer, committed, accessToken, told, lost >>

\* The process ends, at a crash or at the end of a shutdown, and is started
\* again.  Requests on their way find the connection closed; transactions are
\* rolled back; the access token starts as expired.
Restart ==
    /\ "Crash" \in Faults
    /\ LET cut == {r \in Requests : reqs[r].pc \in Handling \cup {"Sent"}} IN
       /\ cut # {}
       /\ reqs' = [r \in Requests |->
                      IF r \in cut THEN [reqs[r] EXCEPT !.pc = "Done", !.token = NoToken]
                      ELSE reqs[r]]
       /\ answers' = [r \in Requests |->
                      IF r \in cut /\ answers[r] = "None" THEN "Timeout" ELSE answers[r]]
       /\ lost' = lost \cup {r \in cut : reqs[r].pc \in InTrans}
    /\ writer' = NoWriter
    /\ accessToken' = [accessToken EXCEPT !.fresh = FALSE]
    /\ UNCHANGED << cacheVars, committed, honoured, told >>

Handle(r) ==
    \/ Begin(r) \/ BeginFails(r)
    \/ NobodyToTell(r) \/ TakeToken(r) \/ FetchToken(r) \/ FetchFails(r) \/ Post(r)
    \/ AskStore(r) \/ StoreHangs(r)
    \/ Commit(r) \/ CommitFails(r)

Next ==
    \/ \E r \in Requests :
        \/ \E nonce \in Nonces \cup {NoNonce}, op \in Ops : Send(r, nonce, op)
        \/ Verified(r) \/ CacheFails(r) \/ Timeout(r) \/ Handle(r)
    \/ \E nonce \in Nonces : Forget(nonce)
    \/ ExpireToken \/ RevokeToken \/ Restart

Spec == Init /\ [][Next]_vars

\* The runtime polls tasks that can go on; SQLite lets a waiting writer in or
\* gives up; WeChat answers or the client's timeout of 10 s does.  The object
\* store answers or never does, and then the handler takes no further step.
FairSpec == Spec /\ \A r \in Requests : WF_vars(Handle(r))
==============================================================================
