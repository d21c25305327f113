-------------------------------- MODULE UserLogin -----------------------------
(***************************************************************************)
(* How users get their sessions, beside ManagerLogin, with which it shares  *)
(* Redis and the clock: by the openid WeChat knows them by, or by a token   *)
(* that root generates to log in as them, which works once; and how a user  *)
(* revokes all sessions.                                                    *)
(*                                                                          *)
(* wechat_claim is left out: its first query names a column that            *)
(* users_latest does not have, so that it changes nothing.  Hence the       *)
(* openids of users are fixed.                                              *)
(***************************************************************************)
EXTENDS ManagerLogin

CONSTANTS
    Users,          \* users that exist and have an openid
    NoUser,         \* whom a token not yet generated is for
    MaxLoginAs,     \* bound of the model: LoginAsTokens ever generated
    MaxUserTokens,  \* bound of the model: UserTokens handed out
    MaxRevocations, \* bound of the model: revocations of a user
    LoginAsTime,    \* how long a LoginAsToken is good: 2 min
    LoginAsSession, \* how long the session from one lasts: 1 day
    UserTime        \* how long a session from WeChat lasts: 7 days

ASSUME UserAssumption ==
    /\ NoUser \notin Users
    /\ MaxLoginAs \in Nat /\ MaxUserTokens \in Nat /\ MaxRevocations \in Nat
    /\ LoginAsTime \in Nat /\ LoginAsSession \in Nat /\ UserTime \in Nat

LoginAsTokens == 1 .. MaxLoginAs    \* a token's nonce names it

VARIABLES
    tokenId,        \* users_latest.token_id
    loginAs,        \* the LoginAsTokens and how far they have been used
    nonceKeys,      \* login_as:nonce:{n} in Redis: Absent, pending or used
    userTokens,     \* the UserTokens handed out
    loginAsUses     \* history: the sessions a LoginAsToken has led to

userVars == << tokenId, loginAs, nonceKeys, userTokens, loginAsUses >>

UserToken == [uid : Users, tokenId : Nat, expired : Nat]

UserInit ==
    /\ tokenId = [u \in Users |-> 1]
    /\ loginAs = [n \in LoginAsTokens |->
                      [pc |-> "New", uid |-> NoUser, expired |-> Past]]
    /\ nonceKeys = [n \in LoginAsTokens |-> "Absent"]
    /\ userTokens = {}
    /\ loginAsUses = [n \in LoginAsTokens |-> 0]

UserGood(t) == now <= t.expired /\ t.tokenId = tokenId[t.uid]

\* The token id is read in a transaction just before; a revocation in between
\* would make the cookie worthless.
HandOutUser(uid, time) ==
    /\ Cardinality(userTokens) < MaxUserTokens
    /\ userTokens' = userTokens \cup
           {[uid |-> uid, tokenId |-> tokenId[uid], expired |-> now + time]}

\* do_register_or_login of a user whose openid is known; others are refused.
WechatLogin(u) ==
    /\ HandOutUser(u, UserTime)
    /\ UNCHANGED << tokenId, loginAs, nonceKeys, loginAsUses >>

\* Mutant of RevokeAll: the id alternates between two values.
RevokeAll_Toggle(t) ==
    /\ UserGood(t)
    /\ tokenId' = [tokenId EXCEPT ![t.uid] = 3 - @]
    /\ UNCHANGED << loginAs, nonceKeys, userTokens, loginAsUses >>

\* do_revoke.
RevokeAll(t) ==
    /\ UserGood(t)
    /\ tokenId[t.uid] <= MaxRevocations
    /\ tokenId' = [tokenId EXCEPT ![t.uid] = @ + 1]
    /\ UNCHANGED << loginAs, nonceKeys, userTokens, loginAsUses >>

\* gen_login_as and LoginAsToken::new; the nonce has no expiry yet.
GenLoginAs(n, s, u) ==
    /\ SudoGood(s) /\ s.mid = Root
    /\ loginAs[n].pc = "New"
    /\ \A k \in LoginAsTokens : k < n => loginAs[k].pc # "New"
    /\ nonceKeys' = [nonceKeys EXCEPT ![n] = "pending"]
    /\ loginAs' = [loginAs EXCEPT ![n] =
           [pc |-> "Token", uid |-> u, expired |-> now + LoginAsTime]]
    /\ UNCHANGED << tokenId, userTokens, loginAsUses >>

\* Mutant of LoginAs: what is not marked as used counts as unused, as for the
\* nonces of requests.
LoginAs_NX(n) ==
    /\ loginAs[n].pc # "New"
    /\ now <= loginAs[n].expired
    /\ nonceKeys[n] # "used"
    /\ nonceKeys' = [nonceKeys EXCEPT ![n] = "used"]
    /\ loginAs' = [loginAs EXCEPT ![n].pc = "Checked"]
    /\ UNCHANGED << tokenId, userTokens, loginAsUses >>

\* LoginAsToken::verify: SET XX GET, in one step, only finds a nonce that Redis
\* still has; "used" expires with the token.
LoginAs(n) ==
    /\ loginAs[n].pc # "New"
    /\ now <= loginAs[n].expired
    /\ nonceKeys[n] = "pending"
    /\ nonceKeys' = [nonceKeys EXCEPT ![n] = "used"]
    /\ loginAs' = [loginAs EXCEPT ![n].pc = "Checked"]
    /\ UNCHANGED << tokenId, userTokens, loginAsUses >>

\* do_login_as, with the token id of the moment, or an error, or an answer that
\* is lost.
EndLoginAs(n) ==
    /\ loginAs[n].pc = "Checked"
    /\ loginAs' = [loginAs EXCEPT ![n].pc = "Token"]
    /\ \/ /\ HandOutUser(loginAs[n].uid, LoginAsSession)
          /\ loginAsUses' = [loginAsUses EXCEPT ![n] = @ + 1]
       \/ UNCHANGED << userTokens, loginAsUses >>
    /\ UNCHANGED << tokenId, nonceKeys >>

\* Redis evicts the nonce, or "used" expires.
ForgetLoginAs(n) ==
    /\ nonceKeys[n] # "Absent"
    /\ nonceKeys' = [nonceKeys EXCEPT ![n] = "Absent"]
    /\ UNCHANGED << tokenId, loginAs, userTokens, loginAsUses >>

UserStep ==
    \/ \E u \in Users : WechatLogin(u)
    \/ \E t \in userTokens : RevokeAll(t)
    \/ \E n \in LoginAsTokens :
        \/ \E s \in sessions, u \in Users : GenLoginAs(n, s, u)
        \/ LoginAs(n) \/ EndLoginAs(n) \/ ForgetLoginAs(n)

Init == ManagerInit /\ UserInit

vars == << managerVars, userVars >>

Next ==
    \/ (ManagerStep \/ Tick) /\ UNCHANGED userVars
    \/ UserStep /\ UNCHANGED managerVars

Spec == Init /\ [][Next]_vars
==============================================================================
