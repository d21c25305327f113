------------------------------ MODULE RequestProps ----------------------------
(***************************************************************************)
(* The properties of Requests.                                              *)
(***************************************************************************)
EXTENDS Requests

Pc == InTrans \cup {"New", "Sent", "Spawned", "Done"}

Req == [pc : Pc, nonce : Nonces \cup {NoNonce}, op : Ops, token : Tokens]

Answers == {"None", "Ok", "Error", "Timeout"}

\* The types of the variables.
TypeOK ==
    /\ reqs \in [Requests -> Req]
    /\ answers \in [Requests -> Answers]
    /\ nonces \subseteq Nonces /\ forgotten \subseteq Nonces
    /\ writer \in Requests \cup {NoWriter}
    /\ committed \subseteq Requests /\ told \subseteq Requests /\ lost \subseteq Requests
    /\ accessToken \in [token : Tokens, fresh : BOOLEAN]
    /\ honoured \in Tokens

\* However often a client repeats a request with the same nonce, because of a
\* timeout, a hang-up, an error or a restart in between, at most one of them
\* takes effect, as long as Redis keeps the nonce (Request::verified).
AtMostOnce ==
    \A r, q \in committed :
        /\ r # q
        /\ reqs[r].nonce = reqs[q].nonce
        /\ reqs[r].nonce # NoNonce
        => reqs[r].nonce \in forgotten

\* What the client is told is so and stays so: an Ok stands for rows that are in
\* the tables, an error for rows that are not and never will be.  Only a timeout
\* says nothing (end_transaction, spawn_await).
AnswersHold ==
    \A r \in Requests :
        /\ answers[r] = "Ok" => r \in committed
        /\ answers[r] = "Error" =>
               r \notin committed /\ reqs[r].pc = "Done"

\* A user was told of a verdict that is not stored only if the handler was cut
\* off between the message and the commit, by a failing commit or the end of the
\* process; otherwise it is about to be stored.  So a user is told two verdicts
\* on one submission only after such a loss (send_message_infallible).
ToldIsStored ==
    \A r \in told : r \in committed \/ r \in lost \/ r = writer

\* The access token a handler is about to use has not been replaced by another
\* handler since it was taken from the mutex: the write lock, held all the while,
\* keeps every other sender out (get_access_token).
TokenNotReplaced ==
    \A r \in Requests :
        reqs[r].pc = "Posting" => reqs[r].token = accessToken.token

\* A handler that was spawned comes to an end and gives back the write lock,
\* whether or not its client still waits, and whatever WeChat does, unless it
\* waits itself for an answer of the object store that never comes, for which
\* there is no timeout.  One that does keeps the lock, but keeps no other from
\* ending (api_begin_transaction, end_transaction, is_s3_file_exists).  Since a
\* request is never spawned twice, it is enough to say that it is always at its
\* end again.
HandlersEnd ==
    \A r \in Requests :
        []<>(\/ reqs[r].pc \notin Handling /\ writer # r
             \/ reqs[r].pc = "Hanging")

-----------------------------------------------------------------------------
(* The abstract specification.                                             *)

Review == INSTANCE Reviewing WITH
    Reviews   <- Requests,
    reviewsOf <- [s \in Submissions |-> ReviewsOf(s)]

\* All the steps of a review handler come down to the one step that Recruit
\* takes a review for: one review per submission, which is kept.
FollowsReviewing == Review!Spec
==============================================================================
