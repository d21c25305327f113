---------------------------- MODULE RequestProofs ----------------------------
(***************************************************************************)
(* Proofs about Requests, for any number of requests, nonces, submissions   *)
(* and access tokens, and whatever goes wrong.                              *)
(***************************************************************************)
EXTENDS RequestProps, TLAPS

USE DEF NoWriter, InTrans, Handling

-----------------------------------------------------------------------------
(* How requests move.                                                      *)

\* A step of one request leaves the others where they are, and the request the
\* one it was.
Moves(r) ==
    /\ reqs' \in [Requests -> Req]
    /\ \A q \in Requests \ {r} : reqs'[q] = reqs[q]
    /\ reqs'[r].nonce = reqs[r].nonce /\ reqs'[r].op = reqs[r].op

\* Replacing the row of one request leaves the others alone.
LEMMA ReplaceMoves ==
    ASSUME reqs \in [Requests -> Req], NEW r \in Requests, NEW req \in Req,
           reqs' = [reqs EXCEPT ![r] = req],
           req.nonce = reqs[r].nonce, req.op = reqs[r].op
    PROVE  Moves(r) /\ reqs'[r] = req
BY DEF Moves

\* Goto changes the place of one request and nothing else of it.
LEMMA GotoMoves ==
    ASSUME reqs \in [Requests -> Req], NEW r \in Requests, NEW pc \in Pc, Goto(r, pc)
    PROVE  Moves(r) /\ reqs'[r].pc = pc /\ reqs'[r].token = reqs[r].token
<1> DEFINE req == [reqs[r] EXCEPT !.pc = pc]
<1>1. reqs' = [reqs EXCEPT ![r] = req]
  BY DEF Goto
<1>2. reqs[r] \in Req
  OBVIOUS
<1>3. /\ req \in Req /\ req.pc = pc /\ req.token = reqs[r].token
      /\ req.nonce = reqs[r].nonce /\ req.op = reqs[r].op
  BY <1>2 DEF Req
<1> HIDE DEF req
<1> QED BY <1>1, <1>3, ReplaceMoves

\* Reading the access token changes the place and the copy of one request.
LEMMA TokenMoves ==
    ASSUME reqs \in [Requests -> Req], NEW r \in Requests, NEW pc \in Pc,
           NEW token \in Tokens,
           reqs' = [reqs EXCEPT ![r] = [@ EXCEPT !.pc = pc, !.token = token]]
    PROVE  Moves(r) /\ reqs'[r].pc = pc /\ reqs'[r].token = token
<1> DEFINE req == [reqs[r] EXCEPT !.pc = pc, !.token = token]
<1>1. reqs' = [reqs EXCEPT ![r] = req]
  OBVIOUS
<1>2. reqs[r] \in Req
  OBVIOUS
<1>3. /\ req \in Req /\ req.pc = pc /\ req.token = token
      /\ req.nonce = reqs[r].nonce /\ req.op = reqs[r].op
  BY <1>2 DEF Req
<1> HIDE DEF req
<1> QED BY <1>1, <1>3, ReplaceMoves

\* A client gets the first answer only.
LEMMA AnswerOnce ==
    ASSUME answers \in [Requests -> Answers], NEW r \in Requests,
           NEW answer \in Answers, Answer(r, answer)
    PROVE  /\ answers' \in [Requests -> Answers]
           /\ \A q \in Requests \ {r} : answers'[q] = answers[q]
           /\ answers'[r] = IF answers[r] = "None" THEN answer ELSE answers[r]
BY DEF Answer

\* The next token is one the model has.
LEMMA NextToken ==
    ASSUME accessToken \in [token : Tokens, fresh : BOOLEAN],
           accessToken.token < MaxTokens
    PROVE  accessToken.token + 1 \in Tokens
<1>1. accessToken.token \in Tokens
  OBVIOUS
<1> QED BY <1>1, ConstantsAssumption DEF Tokens

-----------------------------------------------------------------------------
(* Types.                                                                  *)

\* Every handler step moves its request and keeps the types.
LEMMA HandleTypes ==
    ASSUME TypeOK, NEW r \in Requests, Handle(r)
    PROVE  TypeOK' /\ Moves(r)
<1> USE DEF TypeOK, Refuse, cacheVars, wechatVars
<1>1. CASE Begin(r)
  BY <1>1, GotoMoves, AnswerOnce DEF Begin, Onward, Pc, Answers, Moves
<1>2. CASE BeginFails(r)
  BY <1>2, GotoMoves, AnswerOnce DEF BeginFails, Pc, Answers, Moves
<1>3. CASE NobodyToTell(r) \/ FetchFails(r)
  BY <1>3, GotoMoves DEF NobodyToTell, FetchFails, Pc, Moves
<1>4. CASE TakeToken(r)
  <2>1. accessToken.token \in Tokens
    BY ConstantsAssumption
  <2>2. Moves(r)
    BY <1>4, <2>1, GotoMoves, TokenMoves DEF TakeToken, GotoPost, Pc
  <2> QED BY <1>4, <2>2 DEF TakeToken, Moves
<1>5. CASE FetchToken(r)
  <2>1. accessToken.token + 1 \in Tokens
    BY <1>5, NextToken DEF FetchToken
  <2>2. Moves(r)
    BY <1>5, <2>1, TokenMoves DEF FetchToken, GotoPost, Pc
  <2> QED BY <1>5, <2>1, <2>2 DEF FetchToken, Moves
<1>6. CASE Post(r)
  <2>1. NoToken \in Tokens
    BY ConstantsAssumption DEF NoToken, Tokens
  <2> QED BY <1>6, <2>1, TokenMoves DEF Post, Pc, Moves
<1>7. CASE Commit(r)
  BY <1>7, GotoMoves, AnswerOnce DEF Commit, Pc, Answers, Moves
<1>8. CASE CommitFails(r)
  BY <1>8, GotoMoves, AnswerOnce DEF CommitFails, Pc, Answers, Moves
<1>9. CASE AskStore(r)
  BY <1>9, GotoMoves, AnswerOnce DEF AskStore, Pc, Answers, Moves
<1>10. CASE StoreHangs(r)
  BY <1>10, GotoMoves DEF StoreHangs, Pc, Moves
<1> QED BY <1>1, <1>2, <1>3, <1>4, <1>5, <1>6, <1>7, <1>8, <1>9, <1>10 DEF Handle

\* The steps of the access token.
LEMMA WorldTypes ==
    ASSUME TypeOK, ExpireToken \/ RevokeToken
    PROVE  TypeOK'
<1>1. NoToken \in Tokens
  BY ConstantsAssumption DEF NoToken, Tokens
<1> QED BY <1>1 DEF ExpireToken, RevokeToken, TypeOK, cacheVars

\* A restart cuts off what is under way and leaves the rest.
LEMMA RestartMoves ==
    ASSUME TypeOK, Restart, NEW r \in Requests
    PROVE  /\ reqs'[r] \in Req
           /\ reqs'[r].nonce = reqs[r].nonce /\ reqs'[r].op = reqs[r].op
           /\ reqs'[r].pc = IF reqs[r].pc \in Handling \cup {"Sent"} THEN "Done"
                            ELSE reqs[r].pc
           /\ answers'[r] \in Answers
           /\ answers'[r] = IF reqs[r].pc \in Handling \cup {"Sent"} /\ answers[r] = "None"
                            THEN "Timeout" ELSE answers[r]
<1> DEFINE cut == reqs[r].pc \in Handling \cup {"Sent"}
           req == [reqs[r] EXCEPT !.pc = "Done", !.token = NoToken]
<1>1. reqs[r] \in Req /\ answers[r] \in Answers
  BY DEF TypeOK
<1>2. NoToken \in Tokens
  BY ConstantsAssumption DEF NoToken, Tokens
<1>3. /\ req \in Req /\ req.pc = "Done"
      /\ req.nonce = reqs[r].nonce /\ req.op = reqs[r].op
  BY <1>1, <1>2 DEF Req, Pc
<1>4. reqs'[r] = IF cut THEN req ELSE reqs[r]
  BY DEF Restart
<1>5. answers'[r] = IF cut /\ answers[r] = "None" THEN "Timeout" ELSE answers[r]
  BY DEF Restart
<1> HIDE DEF req
<1>6. answers'[r] \in Answers
  BY <1>1, <1>5 DEF Answers
<1> QED BY <1>1, <1>3, <1>4, <1>5, <1>6

\* The types, over a crash and restart.
LEMMA RestartTypes ==
    ASSUME TypeOK, Restart
    PROVE  TypeOK'
<1>1. reqs' \in [Requests -> Req]
  <2>1. reqs' = [r \in Requests |-> reqs'[r]]
    BY DEF Restart
  <2> QED BY <2>1, RestartMoves
<1>2. answers' \in [Requests -> Answers]
  <2>1. answers' = [r \in Requests |-> answers'[r]]
    BY DEF Restart
  <2> QED BY <2>1, RestartMoves
<1>3. lost' \subseteq Requests
  BY DEF Restart, TypeOK
<1>4. accessToken' \in [token : Tokens, fresh : BOOLEAN]
  BY DEF Restart, TypeOK
<1> QED BY <1>1, <1>2, <1>3, <1>4 DEF Restart, TypeOK, cacheVars

\* What happens before a handler, or beside it, to one request.
LEMMA EarlyTypes ==
    ASSUME TypeOK, NEW r \in Requests, Verified(r) \/ CacheFails(r) \/ Timeout(r)
    PROVE  TypeOK' /\ Moves(r)
<1> USE DEF TypeOK, Refuse, cacheVars, wechatVars
<1>1. reqs[r].nonce \in Nonces \cup {NoNonce}
  BY DEF Req
<1>2. CASE Verified(r)
  <2>1. nonces' \subseteq Nonces
    BY <1>1, <1>2 DEF Verified, Burn
  <2> QED BY <1>2, <2>1, GotoMoves, AnswerOnce DEF Verified, Pc, Answers, Moves
<1>3. CASE CacheFails(r)
  <2>1. nonces' \subseteq Nonces
    BY <1>1, <1>3 DEF CacheFails, Burn
  <2> QED BY <1>3, <2>1, GotoMoves, AnswerOnce DEF CacheFails, Pc, Answers, Moves
<1>4. CASE Timeout(r)
  <2>1. nonces' \subseteq Nonces
    BY <1>1, <1>4 DEF Timeout, Burn
  <2>2. Moves(r)
    BY <1>4, GotoMoves DEF Timeout, Pc, Moves
  <2> QED BY <1>4, <2>1, <2>2, AnswerOnce DEF Timeout, Answers, Moves
<1> QED BY <1>2, <1>3, <1>4

\* A request is sent that was not there before.
LEMMA SendMoves ==
    ASSUME TypeOK, NEW r \in Requests, NEW nonce \in Nonces \cup {NoNonce},
           NEW op \in Ops, Send(r, nonce, op)
    PROVE  /\ TypeOK'
           /\ \A q \in Requests \ {r} : reqs'[q] = reqs[q]
           /\ reqs[r].pc = "New" /\ reqs'[r].pc = "Sent"
<1> DEFINE req == [pc |-> "Sent", nonce |-> nonce, op |-> op, token |-> NoToken]
<1>1. NoToken \in Tokens
  BY ConstantsAssumption DEF NoToken, Tokens
<1>2. req \in Req /\ req.pc = "Sent"
  BY <1>1 DEF Req, Pc
<1>3. reqs' = [reqs EXCEPT ![r] = req] /\ reqs[r].pc = "New"
  BY DEF Send
<1> HIDE DEF req
<1>4. reqs' \in [Requests -> Req]
  BY <1>2, <1>3 DEF TypeOK
<1> QED BY <1>2, <1>3, <1>4 DEF Send, TypeOK, cacheVars, wechatVars

\* The types, at the start.
LEMMA InitTypes ==
    ASSUME Init
    PROVE  TypeOK
<1>1. NoToken \in Tokens
  BY ConstantsAssumption DEF NoToken, Tokens
<1>2. reqs \in [Requests -> Req]
  BY <1>1 DEF Init, Req, Pc, Ops
<1> QED BY <1>1, <1>2 DEF Init, TypeOK, Answers

\* The types of the variables.
THEOREM RequestTypes == Spec => []TypeOK
<1>1. Init => TypeOK
  BY InitTypes
<1>2. TypeOK /\ [Next]_vars => TypeOK'
  <2> SUFFICES ASSUME TypeOK, [Next]_vars PROVE TypeOK'
    OBVIOUS
  <2>1. ASSUME NEW r \in Requests, NEW nonce \in Nonces \cup {NoNonce}, NEW op \in Ops,
               Send(r, nonce, op)
        PROVE  TypeOK'
    BY <2>1, SendMoves
  <2>2. ASSUME NEW r \in Requests, Verified(r) \/ CacheFails(r) \/ Timeout(r)
        PROVE  TypeOK'
    BY <2>2, EarlyTypes
  <2>3. ASSUME NEW r \in Requests, Handle(r) PROVE TypeOK'
    BY <2>3, HandleTypes
  <2>4. ASSUME NEW nonce \in Nonces, Forget(nonce) PROVE TypeOK'
    BY <2>4 DEF Forget, TypeOK, wechatVars
  <2>5. CASE UNCHANGED vars
    BY <2>5 DEF vars, cacheVars, wechatVars, TypeOK
  <2> QED BY <2>1, <2>2, <2>3, <2>4, <2>5, WorldTypes, RestartTypes DEF Next
<1> QED BY <1>1, <1>2, PTL DEF Spec

-----------------------------------------------------------------------------
(* The steps of a request, as far as the invariants tell them apart.       *)

\* The request gets the write lock.
Enters(r) ==
    /\ reqs[r].pc = "Spawned" /\ reqs'[r].pc \in {"Telling", "Asking", "Ending"}
    /\ writer = NoWriter /\ writer' = r
    /\ ~Reviewed(r)
    /\ UNCHANGED << answers, committed, accessToken, told, lost >>

\* It goes on with the message, or with what the object store answers.
GoesOn(r) ==
    /\ reqs[r].pc \in InTrans /\ reqs'[r].pc \in InTrans \ {"Asking"}
    /\ told' \subseteq told \cup {r}
    /\ reqs'[r].pc = "Posting" => reqs'[r].token = accessToken'.token
    /\ UNCHANGED << answers, committed, writer, lost >>

\* It commits.
Commits(r) ==
    /\ reqs[r].pc \in InTrans /\ reqs'[r].pc = "Done"
    /\ writer' = NoWriter
    /\ committed' = committed \cup {r}
    /\ Answer(r, "Ok")
    /\ UNCHANGED << accessToken, told, lost >>

\* It loses what it wrote, or ends before it has written.
Loses(r) ==
    /\ reqs[r].pc \in InTrans /\ reqs'[r].pc = "Done"
    /\ writer' = NoWriter
    /\ \/ lost' = lost \cup {r}
       \/ reqs[r].pc = "Asking" /\ UNCHANGED lost
    /\ Answer(r, "Error")
    /\ UNCHANGED << committed, accessToken, told >>

\* It ends before it has written, or goes from Redis to its handler.
Early(r) ==
    /\ reqs[r].pc \in {"Sent", "Spawned"} /\ reqs'[r].pc \in {"Spawned", "Done"}
    /\ \/ reqs'[r].pc = "Spawned" /\ reqs[r].pc = "Sent" /\ UNCHANGED answers
       \/ /\ reqs'[r].pc = "Done"
          /\ \E answer \in {"Error", "Timeout"} : Answer(r, answer)
    /\ UNCHANGED << writer, committed, accessToken, told, lost >>

\* Its client gives up on it.
Abandons(r) ==
    /\ reqs[r].pc \in Handling
    /\ Answer(r, "Timeout")
    /\ UNCHANGED << reqs, writer, committed, accessToken, told, lost >>

\* A step of a handler enters, goes on in, commits or loses the transaction, or
\* is one outside of it.
LEMMA HandleSteps ==
    ASSUME TypeOK, NEW r \in Requests, Handle(r)
    PROVE  /\ TypeOK' /\ Moves(r)
           /\ UNCHANGED cacheVars
           /\ reqs[r].pc \in Handling
           /\ Enters(r) \/ GoesOn(r) \/ Commits(r) \/ Loses(r) \/ Early(r)
           /\ reqs'[r].pc # "Spawned"
<1>1. TypeOK' /\ Moves(r)
  BY HandleTypes
<1> USE DEF TypeOK, Refuse, wechatVars
<1>2. CASE Begin(r)
  BY <1>1, <1>2, GotoMoves DEF Begin, Onward, Pc, Enters, Early
<1>3. CASE BeginFails(r)
  BY <1>1, <1>3, GotoMoves DEF BeginFails, Pc, Early
<1>4. CASE NobodyToTell(r) \/ FetchFails(r)
  BY <1>1, <1>4, GotoMoves DEF NobodyToTell, FetchFails, Pc, GoesOn
<1>5. CASE TakeToken(r)
  <2>1. accessToken.token \in Tokens
    OBVIOUS
  <2>2. CASE accessToken.fresh
    <3>1. GotoPost(r, accessToken.token)
      BY <1>5, <2>2 DEF TakeToken
    <3>2. reqs'[r].pc = "Posting" /\ reqs'[r].token = accessToken.token
      BY <2>1, <3>1, TokenMoves DEF GotoPost, Pc
    <3> QED BY <1>1, <1>5, <3>2 DEF TakeToken, GoesOn
  <2>3. CASE ~accessToken.fresh
    BY <1>1, <1>5, <2>3, GotoMoves DEF TakeToken, Pc, GoesOn
  <2> QED BY <2>2, <2>3
<1>6. CASE FetchToken(r)
  <2>1. accessToken.token + 1 \in Tokens
    BY <1>6, NextToken DEF FetchToken
  <2>2. reqs'[r].pc = "Posting" /\ reqs'[r].token = accessToken.token + 1
    BY <1>6, <2>1, TokenMoves DEF FetchToken, GotoPost, Pc
  <2>3. accessToken'.token = accessToken.token + 1
    BY <1>6 DEF FetchToken
  <2> QED BY <1>1, <1>6, <2>2, <2>3 DEF FetchToken, GoesOn
<1>7. CASE Post(r)
  <2>1. NoToken \in Tokens
    BY ConstantsAssumption DEF NoToken, Tokens
  <2>2. reqs'[r].pc = "Ending"
    BY <1>7, <2>1, TokenMoves DEF Post, Pc
  <2> QED BY <1>1, <1>7, <2>2 DEF Post, GoesOn
<1>8. CASE Commit(r)
  BY <1>1, <1>8, GotoMoves DEF Commit, Pc, Commits
<1>9. CASE CommitFails(r)
  BY <1>1, <1>9, GotoMoves DEF CommitFails, Pc, Loses
<1>10. CASE AskStore(r)
  BY <1>1, <1>10, GotoMoves DEF AskStore, Pc, GoesOn, Loses
<1>11. CASE StoreHangs(r)
  BY <1>1, <1>11, GotoMoves DEF StoreHangs, Pc, GoesOn
<1> QED BY <1>2, <1>3, <1>4, <1>5, <1>6, <1>7, <1>8, <1>9, <1>10, <1>11 DEF Handle

\* What else happens to a request is outside the transaction, or its client
\* giving up.
LEMMA EarlySteps ==
    ASSUME TypeOK, NEW r \in Requests, Verified(r) \/ CacheFails(r) \/ Timeout(r)
    PROVE  /\ TypeOK' /\ Moves(r)
           /\ Early(r) \/ Abandons(r)
           /\ nonces \subseteq nonces' /\ UNCHANGED forgotten
           /\ reqs[r].pc = "Sent" /\ reqs'[r].pc = "Spawned" =>
                  /\ reqs[r].nonce \notin nonces
                  /\ reqs[r].nonce # NoNonce => reqs[r].nonce \in nonces'
<1>1. TypeOK' /\ Moves(r)
  BY EarlyTypes
<1> USE DEF TypeOK, Refuse, wechatVars, Burn
<1>2. CASE Verified(r)
  BY <1>1, <1>2, GotoMoves DEF Verified, Pc, Early
<1>3. CASE CacheFails(r)
  BY <1>1, <1>3, GotoMoves DEF CacheFails, Pc, Early
<1>4. CASE Timeout(r) /\ reqs[r].pc = "Sent"
  BY <1>1, <1>4, GotoMoves DEF Timeout, Pc, Early
<1>5. CASE Timeout(r) /\ reqs[r].pc # "Sent"
  BY <1>1, <1>5 DEF Timeout, Abandons
<1> QED BY <1>2, <1>3, <1>4, <1>5

-----------------------------------------------------------------------------
(* The inductive invariant.                                                *)

\* The write lock belongs to the one request that is in a transaction.
OneWriter == \A r \in Requests : reqs[r].pc \in InTrans <=> writer = r

\* Where a request is and what its client knows of it go together.
Accounted ==
    \A r \in Requests :
        /\ r \in committed => reqs[r].pc = "Done" /\ answers[r] \in {"Ok", "Timeout"}
        /\ reqs[r].pc \in {"New", "Sent"} => answers[r] = "None"
        /\ reqs[r].pc \in Handling => answers[r] \in {"None", "Timeout"}
        /\ answers[r] = "Ok" => r \in committed

\* A request that got past Redis left its nonce there.
Burned(r) == reqs[r].pc \in Handling \/ r \in committed

NoncesKept ==
    \A r \in Requests : Burned(r) /\ reqs[r].nonce # NoNonce =>
        /\ reqs[r].nonce \in nonces \cup forgotten
        /\ \A q \in Requests \ {r} :
               Burned(q) /\ reqs[q].nonce = reqs[r].nonce => reqs[r].nonce \in forgotten

\* Of the reviews of a submission one is stored or about to be.
Claims(r) == (r \in committed \/ r = writer) /\ IsReview(r)

OneReview ==
    \A r, q \in Requests :
        Claims(r) /\ Claims(q) /\ reqs[r].op = reqs[q].op => r = q

\* Nobody has been told of a request that has not come to its message yet.
Untold ==
    \A r \in told : reqs[r].pc \notin {"New", "Sent", "Spawned", "Asking"}

Inv == /\ TypeOK /\ OneWriter /\ Accounted /\ NoncesKept /\ OneReview
       /\ Untold /\ ToldIsStored /\ TokenNotReplaced

\* What a request that has not come to its handler can rely on.
LEMMA Outside ==
    ASSUME Inv, NEW r \in Requests, reqs[r].pc \in {"New", "Sent"}
    PROVE  r \notin committed /\ writer # r /\ ~Burned(r) /\ answers[r] = "None"
BY DEF Inv, OneWriter, Accounted, Burned

\* The write lock belongs to the one request in its transaction.
LEMMA WriterStep ==
    ASSUME TypeOK, OneWriter, NEW r \in Requests, Moves(r),
           \/ Enters(r) \/ GoesOn(r) \/ Commits(r) \/ Loses(r) \/ Early(r) \/ Abandons(r)
    PROVE  OneWriter'
<1>1. \A q \in Requests : q # NoWriter
  BY ConstantsAssumption DEF Requests
<1>2. CASE Enters(r) \/ Early(r)
  BY <1>1, <1>2 DEF Enters, Early, OneWriter, Moves
<1>3. CASE GoesOn(r)
  BY <1>3 DEF GoesOn, OneWriter, Moves
<1>4. CASE Commits(r) \/ Loses(r)
  BY <1>1, <1>4 DEF Commits, Loses, OneWriter, Moves
<1>5. CASE Abandons(r)
  BY <1>5 DEF Abandons, OneWriter
<1> QED BY <1>2, <1>3, <1>4, <1>5

\* Committed, lost and unanswered requests are told apart by every step.
LEMMA AccountStep ==
    ASSUME TypeOK, Accounted, NEW r \in Requests, Moves(r),
           \/ Enters(r) \/ GoesOn(r) \/ Commits(r) \/ Loses(r) \/ Early(r) \/ Abandons(r)
    PROVE  Accounted'
<1>1. \A answer \in Answers : Answer(r, answer) =>
          /\ \A q \in Requests \ {r} : answers'[q] = answers[q]
          /\ answers'[r] = IF answers[r] = "None" THEN answer ELSE answers[r]
  BY AnswerOnce DEF TypeOK
<1>2. {"Error", "Timeout", "Ok"} \subseteq Answers
  BY DEF Answers
<1>3. CASE Enters(r) \/ GoesOn(r)
  BY <1>3 DEF Enters, GoesOn, Accounted, Moves
<1>4. CASE Commits(r)
  BY <1>1, <1>2, <1>4 DEF Commits, Accounted, Moves
<1>5. CASE Loses(r)
  BY <1>1, <1>2, <1>5 DEF Loses, Accounted, Moves
<1>6. CASE Early(r)
  BY <1>1, <1>2, <1>6 DEF Early, Accounted, Moves
<1>7. CASE Abandons(r)
  BY <1>1, <1>2, <1>7 DEF Abandons, Accounted
<1> QED BY <1>3, <1>4, <1>5, <1>6, <1>7

\* A verdict told stays one that is stored or about to be.
LEMMA ToldStep ==
    ASSUME TypeOK, OneWriter, Untold, ToldIsStored, NEW r \in Requests, Moves(r),
           \/ Enters(r) \/ GoesOn(r) \/ Commits(r) \/ Loses(r) \/ Early(r) \/ Abandons(r)
    PROVE  Untold' /\ ToldIsStored'
<1> USE DEF Untold, ToldIsStored
<1>1. \A q \in told : q \in Requests /\ q # NoWriter
  BY ConstantsAssumption DEF TypeOK, Requests
<1>2. CASE Enters(r)
  BY <1>1, <1>2 DEF Enters, Moves
<1>3. CASE GoesOn(r)
  BY <1>1, <1>3 DEF GoesOn, OneWriter, Moves
<1>4. CASE Commits(r) \/ Loses(r)
  BY <1>1, <1>4 DEF Commits, Loses, OneWriter, Moves
<1>5. CASE Early(r)
  BY <1>1, <1>5 DEF Early, Moves
<1>6. CASE Abandons(r)
  BY <1>6 DEF Abandons
<1> QED BY <1>2, <1>3, <1>4, <1>5, <1>6

\* Only the holder of the lock writes the access token.
LEMMA TokenStep ==
    ASSUME TypeOK, OneWriter, TokenNotReplaced, NEW r \in Requests, Moves(r),
           \/ Enters(r) \/ GoesOn(r) \/ Commits(r) \/ Loses(r) \/ Early(r) \/ Abandons(r)
    PROVE  TokenNotReplaced'
<1>1. CASE Enters(r) \/ Early(r) \/ Commits(r) \/ Loses(r)
  BY <1>1 DEF Enters, Early, Commits, Loses, TokenNotReplaced, Moves
<1>2. CASE GoesOn(r)
  BY <1>2 DEF GoesOn, TokenNotReplaced, OneWriter, Moves
<1>3. CASE Abandons(r)
  BY <1>3 DEF Abandons, TokenNotReplaced
<1> QED BY <1>1, <1>2, <1>3

\* A second review of a submission finds the first and commits nothing.
LEMMA ReviewStep ==
    ASSUME TypeOK, OneWriter, OneReview, NEW r \in Requests, Moves(r),
           \/ Enters(r) \/ GoesOn(r) \/ Commits(r) \/ Loses(r) \/ Early(r) \/ Abandons(r)
    PROVE  OneReview'
<1>1. \A q \in Requests : q # NoWriter /\ reqs'[q].op = reqs[q].op
  BY ConstantsAssumption DEF Requests, Moves
<1>2. CASE Enters(r)
  <2>1. \A q \in Requests : q \in committed /\ reqs[q].op = reqs[r].op => ~IsReview(r)
    BY <1>2 DEF Enters, Reviewed, ReviewsOf
  <2> QED BY <1>1, <1>2, <2>1 DEF Enters, OneReview, Claims, IsReview
<1>3. CASE GoesOn(r) \/ Early(r) \/ Abandons(r)
  BY <1>1, <1>3 DEF GoesOn, Early, Abandons, OneReview, Claims, IsReview
<1>4. CASE Commits(r)
  BY <1>1, <1>4 DEF Commits, OneWriter, OneReview, Claims, IsReview
<1>5. CASE Loses(r)
  BY <1>1, <1>5 DEF Loses, OneReview, Claims, IsReview
<1> QED BY <1>2, <1>3, <1>4, <1>5

\* The nonces after a step in which nobody else gets past Redis.
LEMMA NonceStep ==
    ASSUME NoncesKept, nonces \cup forgotten \subseteq nonces' \cup forgotten',
           forgotten \subseteq forgotten',
           \A q \in Requests : Burned(q)' => Burned(q) /\ reqs'[q].nonce = reqs[q].nonce
    PROVE  NoncesKept'
BY DEF NoncesKept

\* The invariant, over a step of a handler.
LEMMA HandleKeepsInv ==
    ASSUME Inv, NEW r \in Requests, Handle(r)
    PROVE  Inv'
<1> USE DEF Inv
<1>1. /\ TypeOK' /\ Moves(r) /\ UNCHANGED cacheVars
      /\ reqs[r].pc \in Handling /\ reqs'[r].pc # "Spawned"
      /\ Enters(r) \/ GoesOn(r) \/ Commits(r) \/ Loses(r) \/ Early(r)
  BY HandleSteps
<1>2. \A q \in Requests : Burned(q)' => Burned(q) /\ reqs'[q].nonce = reqs[q].nonce
  <2>1. committed' \subseteq committed \cup {r}
    BY <1>1 DEF Enters, GoesOn, Commits, Loses, Early
  <2> QED BY <1>1, <2>1 DEF Burned, Moves
<1>3. NoncesKept'
  BY <1>1, <1>2, NonceStep DEF cacheVars
<1> QED BY <1>1, <1>3, WriterStep, AccountStep, ToldStep, TokenStep, ReviewStep

\* The invariant, over the nonce, a failing cache and the timeout.
LEMMA EarlyKeepsInv ==
    ASSUME Inv, NEW r \in Requests, Verified(r) \/ CacheFails(r) \/ Timeout(r)
    PROVE  Inv'
<1> USE DEF Inv
<1>1. /\ TypeOK' /\ Moves(r)
      /\ Early(r) \/ Abandons(r)
      /\ nonces \subseteq nonces' /\ UNCHANGED forgotten
      /\ reqs[r].pc = "Sent" /\ reqs'[r].pc = "Spawned" =>
             /\ reqs[r].nonce \notin nonces
             /\ reqs[r].nonce # NoNonce => reqs[r].nonce \in nonces'
  BY EarlySteps
<1>2. UNCHANGED committed
  BY <1>1 DEF Early, Abandons
<1>3. \A q \in Requests \ {r} : Burned(q)' <=> Burned(q)
  BY <1>1, <1>2 DEF Burned, Moves
<1>4. \A q \in Requests : reqs'[q].nonce = reqs[q].nonce
  BY <1>1 DEF Moves
<1>5. NoncesKept'
  <2>1. CASE reqs[r].pc = "Sent" /\ reqs'[r].pc = "Spawned"
    BY <1>1, <1>3, <1>4, <2>1 DEF NoncesKept
  <2>2. CASE ~(reqs[r].pc = "Sent" /\ reqs'[r].pc = "Spawned")
    <3>1. Burned(r)' => Burned(r)
      BY <1>1, <1>2, <2>2 DEF Burned, Early, Abandons
    <3> QED BY <1>1, <1>3, <1>4, <3>1, NonceStep
  <2> QED BY <2>1, <2>2
<1> QED BY <1>1, <1>5, WriterStep, AccountStep, ToldStep, TokenStep, ReviewStep

\* The invariant, over a new request.
LEMMA SendKeepsInv ==
    ASSUME Inv, NEW r \in Requests, NEW nonce \in Nonces \cup {NoNonce},
           NEW op \in Ops, Send(r, nonce, op)
    PROVE  Inv'
<1> USE DEF Inv
<1>1. /\ TypeOK'
      /\ \A q \in Requests \ {r} : reqs'[q] = reqs[q]
      /\ reqs[r].pc = "New" /\ reqs'[r].pc = "Sent"
  BY SendMoves
<1>2. UNCHANGED << answers, cacheVars, writer, committed, accessToken, told, lost >>
  BY DEF Send, wechatVars
<1>3. r \notin committed /\ writer # r /\ ~Burned(r) /\ answers[r] = "None"
  BY <1>1, Outside
<1>4. OneWriter'
  BY <1>1, <1>2, <1>3 DEF OneWriter
<1>5. Accounted'
  BY <1>1, <1>2, <1>3 DEF Accounted
<1>6. NoncesKept'
  <2>1. \A q \in Requests : Burned(q)' => Burned(q) /\ reqs'[q].nonce = reqs[q].nonce
    BY <1>1, <1>2, <1>3 DEF Burned
  <2> QED BY <1>2, <2>1, NonceStep DEF cacheVars
<1>7. OneReview'
  BY <1>1, <1>2, <1>3 DEF OneReview, Claims, IsReview
<1>8. Untold' /\ ToldIsStored'
  BY <1>1, <1>2 DEF Untold, ToldIsStored, TypeOK
<1>9. TokenNotReplaced'
  BY <1>1, <1>2 DEF TokenNotReplaced
<1> QED BY <1>1, <1>4, <1>5, <1>6, <1>7, <1>8, <1>9

\* The invariant, over a crash and restart.
LEMMA RestartKeepsInv ==
    ASSUME Inv, Restart
    PROVE  Inv'
<1> USE DEF Inv
<1>1. /\ UNCHANGED << cacheVars, committed, told >> /\ writer' = NoWriter
      /\ lost \subseteq lost'
      /\ \A r \in Requests : reqs[r].pc \in InTrans => r \in lost'
  BY DEF Restart
<1>2. \A r \in Requests :
          /\ reqs'[r].nonce = reqs[r].nonce /\ reqs'[r].op = reqs[r].op
          /\ reqs'[r].pc = IF reqs[r].pc \in Handling \cup {"Sent"} THEN "Done"
                           ELSE reqs[r].pc
          /\ answers'[r] = IF reqs[r].pc \in Handling \cup {"Sent"} /\ answers[r] = "None"
                           THEN "Timeout" ELSE answers[r]
  BY RestartMoves
<1>3. \A r \in Requests : reqs[r].pc \in Pc /\ r # NoWriter
  BY ConstantsAssumption DEF TypeOK, Req, Requests
<1>4. TypeOK'
  BY RestartTypes
<1>5. OneWriter'
  BY <1>1, <1>2, <1>3 DEF OneWriter, Pc
<1>6. Accounted'
  BY <1>1, <1>2, <1>3 DEF Accounted, Pc
<1>7. NoncesKept'
  <2>1. \A q \in Requests : Burned(q)' => Burned(q) /\ reqs'[q].nonce = reqs[q].nonce
    BY <1>1, <1>2 DEF Burned
  <2> QED BY <1>1, <2>1, NonceStep DEF cacheVars
<1>8. OneReview'
  BY <1>1, <1>2, <1>3 DEF OneReview, Claims, IsReview
<1>9. Untold' /\ ToldIsStored'
  BY <1>1, <1>2, <1>3 DEF Untold, ToldIsStored, OneWriter, TypeOK, Pc
<1>10. TokenNotReplaced'
  BY <1>2, <1>3 DEF TokenNotReplaced, Pc
<1> QED BY <1>4, <1>5, <1>6, <1>7, <1>8, <1>9, <1>10

\* The invariant, over what Redis and WeChat do.
LEMMA WorldKeepsInv ==
    ASSUME Inv, ExpireToken \/ RevokeToken \/ \E nonce \in Nonces : Forget(nonce)
    PROVE  Inv'
<1> USE DEF Inv
<1>1. CASE ExpireToken \/ RevokeToken
  <2>1. TypeOK'
    BY <1>1, WorldTypes
  <2>2. /\ UNCHANGED << reqs, answers, cacheVars, writer, committed, told, lost >>
        /\ accessToken'.token = accessToken.token
    BY <1>1 DEF ExpireToken, RevokeToken, TypeOK
  <2>3. NoncesKept'
    BY <2>2 DEF NoncesKept, Burned, cacheVars
  <2> QED BY <2>1, <2>2, <2>3 DEF OneWriter, Accounted, OneReview, Claims, IsReview,
             Untold, ToldIsStored, TokenNotReplaced
<1>2. CASE \E nonce \in Nonces : Forget(nonce)
  <2>1. /\ UNCHANGED << reqs, answers, writer, committed, wechatVars, told, lost >>
        /\ nonces \cup forgotten = nonces' \cup forgotten'
        /\ forgotten \subseteq forgotten'
    BY <1>2 DEF Forget
  <2>2. TypeOK'
    BY <1>2 DEF Forget, TypeOK, wechatVars
  <2>3. NoncesKept'
    BY <2>1, NonceStep DEF Burned
  <2> QED BY <2>1, <2>2, <2>3 DEF OneWriter, Accounted, OneReview, Claims, IsReview,
             Untold, ToldIsStored, TokenNotReplaced, wechatVars
<1> QED BY <1>1, <1>2

\* The invariant holds in every state.
THEOREM RequestInv == Spec => []Inv
<1>1. Init => Inv
  <2> SUFFICES ASSUME Init PROVE Inv
    OBVIOUS
  <2>1. TypeOK
    BY InitTypes
  <2>2. \A r \in Requests : reqs[r].pc = "New" /\ answers[r] = "None" /\ r # NoWriter
    BY ConstantsAssumption DEF Init, Requests
  <2> QED BY <2>1, <2>2 DEF Inv, Init, OneWriter, Accounted, NoncesKept, Burned,
             OneReview, Claims, Untold, ToldIsStored, TokenNotReplaced
<1>2. Inv /\ [Next]_vars => Inv'
  <2> SUFFICES ASSUME Inv, [Next]_vars PROVE Inv'
    OBVIOUS
  <2>1. ASSUME NEW r \in Requests, NEW nonce \in Nonces \cup {NoNonce}, NEW op \in Ops,
               Send(r, nonce, op)
        PROVE  Inv'
    BY <2>1, SendKeepsInv
  <2>2. ASSUME NEW r \in Requests, Verified(r) \/ CacheFails(r) \/ Timeout(r)
        PROVE  Inv'
    BY <2>2, EarlyKeepsInv
  <2>3. ASSUME NEW r \in Requests, Handle(r) PROVE Inv'
    BY <2>3, HandleKeepsInv
  <2>4. CASE UNCHANGED vars
    <3>1. TypeOK'
      BY <2>4 DEF vars, cacheVars, wechatVars, TypeOK, Inv
    <3> QED BY <2>4, <3>1 DEF vars, cacheVars, wechatVars, Inv, OneWriter, Accounted,
               NoncesKept, Burned, OneReview, Claims, IsReview, Untold,
               ToldIsStored, TokenNotReplaced
  <2> QED BY <2>1, <2>2, <2>3, <2>4, WorldKeepsInv, RestartKeepsInv DEF Next
<1> QED BY <1>1, <1>2, PTL DEF Spec

-----------------------------------------------------------------------------
(* What follows from it.                                                   *)

\* As long as Redis keeps the nonce, at most one of the requests that carry it
\* takes effect, whatever is lost, cut off or sent again.
THEOREM RequestsAtMostOnce == Spec => []AtMostOnce
<1>1. Inv => AtMostOnce
  BY DEF Inv, TypeOK, NoncesKept, Burned, AtMostOnce
<1> QED BY <1>1, RequestInv, PTL

\* An Ok stands for stored rows, an error for rows that are not stored.
THEOREM RequestAnswersHold == Spec => []AnswersHold
<1>1. Inv => AnswersHold
  BY DEF Inv, TypeOK, Req, Pc, Answers, Accounted, AnswersHold
<1> QED BY <1>1, RequestInv, PTL

\* A verdict that was told is stored or about to be, unless its handler was cut
\* off.
THEOREM RequestsToldIsStored == Spec => []ToldIsStored
<1>1. Inv => ToldIsStored
  BY DEF Inv
<1> QED BY <1>1, RequestInv, PTL

\* No handler replaces the access token another is about to use.
THEOREM RequestsTokenNotReplaced == Spec => []TokenNotReplaced
<1>1. Inv => TokenNotReplaced
  BY DEF Inv
<1> QED BY <1>1, RequestInv, PTL

\* The write lock is never left behind: whoever holds it is a handler in its
\* transaction, and no other request is in one (begin_transaction).
THEOREM RequestsOneWriter == Spec => []OneWriter
<1>1. Inv => OneWriter
  BY DEF Inv
<1> QED BY <1>1, RequestInv, PTL

\* A user who was told of two reviews of one submission.
ToldTwice(r, q) ==
    r \in told /\ q \in told /\ r # q /\ reqs[r].op = reqs[q].op /\ IsReview(r)

\* A user is told two verdicts on one submission only if a handler was cut off
\* between its message and its commit.
ToldOnce == \A r, q \in Requests : ToldTwice(r, q) => r \in lost \/ q \in lost

\* Two managers who review the same submission at once never both tell the user,
\* unless the handler that told first lost its transaction.
THEOREM RequestsToldOnce == Spec => []ToldOnce
<1>1. Inv => ToldOnce
  BY DEF Inv, ToldIsStored, OneReview, Claims, IsReview, ToldTwice, ToldOnce
<1> QED BY <1>1, RequestInv, PTL

-----------------------------------------------------------------------------
(* The abstract specification.                                             *)

\* Rows that are not committed do not show, and those that are stay.
LEMMA ReviewsKept ==
    ASSUME Inv, UNCHANGED committed,
           \A q \in committed : reqs'[q].op = reqs[q].op
    PROVE  UNCHANGED [s \in Submissions |-> ReviewsOf(s)]
<1>1. \A s \in Submissions : ReviewsOf(s)' = ReviewsOf(s)
  BY DEF ReviewsOf
<1> QED BY <1>1

\* A commit adds one review to a submission without one, or none.
LEMMA CommitReviews ==
    ASSUME Inv, NEW r \in Requests, Moves(r), Commits(r)
    PROVE  [Review!Next]_([s \in Submissions |-> ReviewsOf(s)])
<1>1. writer = r /\ \A q \in committed : reqs'[q].op = reqs[q].op
  BY DEF Inv, OneWriter, Commits, TypeOK, Moves
<1>2. reqs'[r].op = reqs[r].op /\ reqs[r].op \in Ops
  BY DEF Inv, TypeOK, Req, Moves
<1>3. CASE reqs[r].op = Create
  <2>1. \A s \in Submissions : ReviewsOf(s)' = ReviewsOf(s)
    BY <1>1, <1>2, <1>3, ConstantsAssumption DEF ReviewsOf, Commits
  <2> QED BY <2>1
<1>4. CASE reqs[r].op # Create
  <2> DEFINE now == [s \in Submissions |-> ReviewsOf(s)]
  <2>1. PICK sub \in Submissions : reqs[r].op = sub
    BY <1>2, <1>4 DEF Ops
  <2>2. r \notin committed
    BY DEF Inv, Accounted, Commits
  <2>3. ReviewsOf(sub) = {}
    BY <1>1, <1>4, <2>1, <2>2 DEF Inv, TypeOK, OneReview, Claims, IsReview, ReviewsOf
  <2>4. \A s \in Submissions \ {sub} : ReviewsOf(s)' = ReviewsOf(s)
    BY <1>1, <1>2, <2>1 DEF ReviewsOf, Commits
  <2>5. ReviewsOf(sub)' = {r}
    <3>1. \A q \in committed : reqs'[q].op # sub
      BY <1>1, <2>3 DEF ReviewsOf
    <3> QED BY <1>1, <1>2, <2>1, <3>1 DEF ReviewsOf, Commits
  <2>6. now' = [now EXCEPT ![sub] = {r}]
    <3>1. \A s \in Submissions :
              ReviewsOf(s)' = IF s = sub THEN {r} ELSE ReviewsOf(s)
      BY <2>4, <2>5
    <3>2. now' = [s \in Submissions |-> IF s = sub THEN {r} ELSE ReviewsOf(s)]
      BY <3>1
    <3>3. [now EXCEPT ![sub] = {r}]
              = [s \in Submissions |-> IF s = sub THEN {r} ELSE ReviewsOf(s)]
      BY <2>1
    <3> HIDE DEF now
    <3> QED BY <3>2, <3>3
  <2>7. now[sub] = {}
    BY <2>1, <2>3
  <2> QED BY <2>6, <2>7 DEF Review!Next, Review!Review
<1> QED BY <1>3, <1>4

\* All the steps of the requests come down to those of Reviewing: a submission
\* gets one review, in one instant, and keeps it.
THEOREM RequestsFollowReviewing == Spec => FollowsReviewing
<1>1. Init => Review!Init
  BY DEF Init, Review!Init, ReviewsOf
<1>2. Inv /\ [Next]_vars => [Review!Next]_([s \in Submissions |-> ReviewsOf(s)])
  <2> SUFFICES ASSUME Inv, [Next]_vars
               PROVE  [Review!Next]_([s \in Submissions |-> ReviewsOf(s)])
    OBVIOUS
  <2>1. ASSUME NEW r \in Requests, Moves(r),
               Enters(r) \/ GoesOn(r) \/ Commits(r) \/ Loses(r) \/ Early(r) \/ Abandons(r)
        PROVE  [Review!Next]_([s \in Submissions |-> ReviewsOf(s)])
    <3>1. CASE Commits(r)
      BY <2>1, <3>1, CommitReviews
    <3>2. CASE ~Commits(r)
      <4>1. UNCHANGED committed /\ \A q \in committed : reqs'[q].op = reqs[q].op
        BY <2>1, <3>2
           DEF Enters, GoesOn, Loses, Early, Abandons, Inv, TypeOK, Moves
      <4> QED BY <4>1, ReviewsKept
    <3> QED BY <3>1, <3>2
  <2>2. ASSUME NEW r \in Requests, Handle(r)
        PROVE  [Review!Next]_([s \in Submissions |-> ReviewsOf(s)])
    BY <2>1, <2>2, HandleSteps DEF Inv
  <2>3. ASSUME NEW r \in Requests, Verified(r) \/ CacheFails(r) \/ Timeout(r)
        PROVE  [Review!Next]_([s \in Submissions |-> ReviewsOf(s)])
    BY <2>1, <2>3, EarlySteps DEF Inv
  <2>4. ASSUME NEW r \in Requests, NEW nonce \in Nonces \cup {NoNonce}, NEW op \in Ops,
               Send(r, nonce, op)
        PROVE  [Review!Next]_([s \in Submissions |-> ReviewsOf(s)])
    <3>1. /\ \A q \in Requests \ {r} : reqs'[q] = reqs[q]
          /\ reqs[r].pc = "New" /\ UNCHANGED committed
      BY <2>4, SendMoves DEF Inv, Send
    <3>2. r \notin committed
      BY <3>1, Outside
    <3> QED BY <3>1, <3>2, ReviewsKept DEF Inv, TypeOK
  <2>5. CASE Restart
    <3>1. UNCHANGED committed
      BY <2>5 DEF Restart
    <3> QED BY <2>5, <3>1, RestartMoves, ReviewsKept DEF Inv, TypeOK
  <2>6. CASE ExpireToken \/ RevokeToken \/ \E nonce \in Nonces : Forget(nonce)
    <3>1. UNCHANGED << reqs, committed >>
      BY <2>6 DEF ExpireToken, RevokeToken, Forget
    <3> QED BY <3>1, ReviewsKept
  <2>7. CASE UNCHANGED vars
    BY <2>7, ReviewsKept DEF vars
  <2> QED BY <2>2, <2>3, <2>4, <2>5, <2>6, <2>7 DEF Next
<1> QED BY <1>1, <1>2, RequestInv, PTL DEF Spec, FollowsReviewing, Review!Spec
==============================================================================
