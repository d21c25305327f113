------------------------------ MODULE ManagerLogin ----------------------------
(***************************************************************************)
(* How managers log in, set up their TOTP secret and enter sudo mode.       *)
(*                                                                          *)
(* A login takes two requests: the first checks the password and hands out  *)
(* a login token, which carries the revision of the manager's row and a     *)
(* nonce; the second brings it back with a TOTP code.  A manager without a  *)
(* secret gets a fresh one with the token and stores it by the second       *)
(* request.  Each request reads, waits and writes in steps that others may  *)
(* get between; the answer to any may be lost.  Tokens are signed, so that  *)
(* a client has only those it was given.                                    *)
(*                                                                          *)
(* The token id of a manager is left out: nothing changes it, so that no    *)
(* session is ever revoked.                                                 *)
(***************************************************************************)
EXTENDS Naturals, FiniteSets

CONSTANTS
    MaxManagers,    \* bound of the model: ids of managers, root being 0
    MaxLogins,      \* bound of the model: login tokens ever handed out
    MaxSessions,    \* bound of the model: ManagerTokens handed out
    MaxTime,        \* bound of the model: the clock
    LoginTime,      \* how long a login token is good: 10 min
    SudoTime,       \* how long sudo mode lasts: 10 min
    SessionTime,    \* how long a session lasts: 7 days
    MaxForgets      \* bound of the model: how often Redis forgets, in all

ASSUME LoginAssumption ==
    /\ MaxManagers \in Nat /\ MaxLogins \in Nat /\ MaxSessions \in Nat
    /\ MaxTime \in Nat \ {0}
    /\ LoginTime \in Nat /\ SudoTime \in Nat /\ SessionTime \in Nat
    /\ MaxForgets \in Nat

Root     == 0
Managers == 0 .. MaxManagers
Logins   == 1 .. MaxLogins      \* a token's nonce names it
Time     == 0 .. MaxTime

NoSecret == 0                   \* a secret is named by the login it came with
Secrets  == Logins \cup {NoSecret}
Past     == 0                   \* an instant that is over

VARIABLES
    now,            \* the clock, starting after Past
    managers,       \* the managers there are
    revision,       \* managers_latest.revision
    secret,         \* managers_latest.totp_secret
    logins,         \* the logins begun, with what their token says
    usedNonces,     \* the nonces of login tokens Redis remembers
    checked,        \* second requests under way, how many for each login
    sessions,       \* the ManagerTokens handed out
    forgotten,      \* history: how often Redis has forgotten a nonce
    uses,           \* history: the sessions a login token has led to
    confirmed       \* history: when a manager last showed a right code

managerRows == << managers, revision, secret >>
loginVars   == << logins, usedNonces, checked, sessions >>
historyVars == << forgotten, uses, confirmed >>
managerVars == << now, managerRows, loginVars, historyVars >>

Session == [mid : Managers, login : Logins, expired : Nat, sudoExpired : Nat]

ManagerInit ==
    /\ now = 1
    /\ managers = {Root}
    /\ revision = [m \in Managers |-> 1]
    /\ secret = [m \in Managers |-> NoSecret]
    /\ logins = [n \in Logins |-> [pc |-> "New", mid |-> Root, rev |-> 1,
                                   setup |-> FALSE, expired |-> Past]]
    /\ usedNonces = {} /\ forgotten = [n \in Logins |-> 0]
    /\ checked = [n \in Logins |-> 0]
    /\ sessions = {}
    /\ uses = [n \in Logins |-> 0]
    /\ confirmed = [m \in Managers |-> Past]

-----------------------------------------------------------------------------
(* The first request.                                                      *)

\* get_manager_for_start_login; the password is checked after the connection was
\* given back, which takes a while (argon2, eight at a time).  A wrong password
\* is refused.
StartLogin(n, m) ==
    /\ logins[n].pc = "New"
    /\ \A k \in Logins : k < n => logins[k].pc # "New"
    /\ m \in managers
    /\ logins' = [logins EXCEPT ![n] =
           [pc |-> "Password", mid |-> m, rev |-> revision[m],
            setup |-> secret[m] = NoSecret, expired |-> Past]]
    /\ UNCHANGED << now, managerRows, usedNonces, checked, sessions, historyVars >>

\* The token is handed out, with what was read before the password was checked.
HandOut(n) ==
    /\ logins[n].pc = "Password"
    /\ logins' = [logins EXCEPT ![n] = [@ EXCEPT !.pc = "Token", !.expired = now + LoginTime]]
    /\ UNCHANGED << now, managerRows, usedNonces, checked, sessions, historyVars >>

-----------------------------------------------------------------------------
(* The second request.                                                     *)

\* Mutant of PreVerify: the nonce is not burned.
PreVerify_Again(n) ==
    /\ logins[n].pc = "Token"
    /\ now <= logins[n].expired
    /\ n \notin usedNonces
    /\ checked[n] < 2
    /\ checked' = [checked EXCEPT ![n] = @ + 1] \/ UNCHANGED checked
    /\ UNCHANGED << now, managerRows, logins, usedNonces, sessions, historyVars >>

\* LoginToken::pre_verify.  The nonce is burned even if the request comes to
\* nothing: a setup compares the code with the secret in the token first, and
\* stops at a wrong one.
PreVerify(n) ==
    /\ logins[n].pc = "Token"
    /\ now <= logins[n].expired
    /\ n \notin usedNonces
    /\ usedNonces' = usedNonces \cup {n}
    /\ checked' = [checked EXCEPT ![n] = @ + 1] \/ UNCHANGED checked
    /\ UNCHANGED << now, managerRows, logins, sessions, historyVars >>

\* Mutant of Verify: the revision is not compared.
Verify_NoRevision(n) == logins[n].mid \in managers

\* LoginToken::verify: the manager's row is still the one the first request saw.
Verify(n) == revision[logins[n].mid] = logins[n].rev

\* The second request is over, without a session or with an answer that brings
\* one.
GiveUp(n) ==
    /\ checked' = [checked EXCEPT ![n] = @ - 1]
    /\ UNCHANGED << sessions, uses >>

LogIn(n) ==
    /\ Cardinality(sessions) < MaxSessions
    /\ checked' = [checked EXCEPT ![n] = @ - 1]
    /\ sessions' = sessions \cup
           {[mid |-> logins[n].mid, login |-> n, expired |-> now + SessionTime,
             sudoExpired |-> Past]}
    /\ uses' = [uses EXCEPT ![n] = @ + 1]

Confirm(m) == confirmed' = [confirmed EXCEPT ![m] = now]

\* Mutant of EndSetup: the cookie is handed out whatever becomes of the
\* transaction.
EndSetup_CommitIgnored(n) ==
    /\ checked[n] > 0 /\ logins[n].setup
    /\ LogIn(n)
    /\ \/ /\ Verify(n)
          /\ revision' = [revision EXCEPT ![logins[n].mid] = @ + 1]
          /\ secret' = [secret EXCEPT ![logins[n].mid] = n]
          /\ Confirm(logins[n].mid)
       \/ UNCHANGED << revision, secret, confirmed >>
    /\ UNCHANGED << now, managers, logins, usedNonces, forgotten >>

\* end_setup, in an immediate transaction.  The token id is read in it, so that
\* the cookie is as good as the transaction; it may be lost on its way, or the
\* request may have timed out.
EndSetup(n) ==
    /\ checked[n] > 0 /\ logins[n].setup
    /\ \/ /\ Verify(n)
          /\ revision' = [revision EXCEPT ![logins[n].mid] = @ + 1]
          /\ secret' = [secret EXCEPT ![logins[n].mid] = n]
          /\ Confirm(logins[n].mid)
          /\ LogIn(n) \/ GiveUp(n)
       \/ /\ GiveUp(n)         \* "manager updated", or the commit fails
          /\ UNCHANGED << revision, secret, confirmed >>
    /\ UNCHANGED << now, managers, logins, usedNonces, forgotten >>

\* verify_totp with a right code; without a secret it is an error.
TotpRight(m) == secret[m] # NoSecret /\ Confirm(m)

\* Mutant of EndLogin: the session is in sudo mode.
EndLogin_Sudo(n) ==
    /\ checked[n] > 0 /\ ~logins[n].setup
    /\ \/ /\ Verify(n)
          /\ checked' = [checked EXCEPT ![n] = @ - 1]
          /\ sessions' = sessions \cup
                 {[mid |-> logins[n].mid, login |-> n, expired |-> now + SessionTime,
                   sudoExpired |-> now + SessionTime]}
          /\ uses' = [uses EXCEPT ![n] = @ + 1]
          /\ TotpRight(logins[n].mid)
       \/ /\ GiveUp(n)
          /\ UNCHANGED confirmed
    /\ UNCHANGED << now, managerRows, logins, usedNonces, forgotten >>

\* end_login, in a deferred transaction: compares the code with the secret that
\* is stored.  A wrong one is refused.
EndLogin(n) ==
    /\ checked[n] > 0 /\ ~logins[n].setup
    /\ \/ /\ Verify(n)
          /\ TotpRight(logins[n].mid)
          /\ LogIn(n) \/ GiveUp(n)
       \/ /\ GiveUp(n)
          /\ UNCHANGED confirmed
    /\ UNCHANGED << now, managerRows, logins, usedNonces, forgotten >>

-----------------------------------------------------------------------------
(* Sessions.                                                               *)

\* ManagerToken::verify and verify_sudo.
SessionGood(s) == s.mid \in managers /\ now <= s.expired
SudoGood(s)    == SessionGood(s) /\ now <= s.sudoExpired

\* do_acquire_sudo.  The client may keep the old cookie, too.
AcquireSudo(s) ==
    /\ Cardinality(sessions) < MaxSessions
    /\ SessionGood(s)
    /\ TotpRight(s.mid)
    /\ sessions' = sessions \cup {[s EXCEPT !.sudoExpired = now + SudoTime]}
    /\ UNCHANGED << now, managerRows, logins, usedNonces, checked, forgotten, uses >>

\* Mutant of CreateManager: the id is one more than the number of managers.
CreateManager_Count(s) ==
    /\ SudoGood(s) /\ s.mid = Root
    /\ Cardinality(managers) \in Managers
    /\ managers' = managers \cup {Cardinality(managers) + 1}
    /\ UNCHANGED << now, revision, secret, loginVars, historyVars >>

\* do_create_manager: ids are given out in order and never again.
CreateManager(s) ==
    /\ SudoGood(s) /\ s.mid = Root
    /\ Cardinality(managers) \in Managers
    /\ managers' = managers \cup {Cardinality(managers)}
    /\ UNCHANGED << now, revision, secret, loginVars, historyVars >>

-----------------------------------------------------------------------------

\* All the times Redis has forgotten, the same nonce repeatedly or several.
Forgettings == {k \in Logins \X (1 .. MaxForgets) : k[2] <= forgotten[k[1]]}

\* Redis evicts keys when it is full and keeps none over a restart; nothing
\* keeps it from losing a nonce again that was burned again.
ForgetNonce(n) ==
    /\ n \in usedNonces /\ Cardinality(Forgettings) < MaxForgets
    /\ usedNonces' = usedNonces \ {n}
    /\ forgotten' = [forgotten EXCEPT ![n] = @ + 1]
    /\ UNCHANGED << now, managerRows, logins, checked, sessions, uses, confirmed >>

Tick ==
    /\ now < MaxTime
    /\ now' = now + 1
    /\ UNCHANGED << managerRows, loginVars, historyVars >>

ManagerStep ==
    \/ \E n \in Logins :
        \/ \E m \in Managers : StartLogin(n, m)
        \/ HandOut(n) \/ PreVerify(n) \/ EndSetup(n) \/ EndLogin(n) \/ ForgetNonce(n)
    \/ \E s \in sessions : AcquireSudo(s) \/ CreateManager(s)

ManagerNext == ManagerStep \/ Tick
==============================================================================
