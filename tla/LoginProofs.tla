----------------------------- MODULE LoginProofs -----------------------------
(***************************************************************************)
(* Proofs about ManagerLogin and UserLogin, for any number of managers,     *)
(* users, logins, tokens and revocations, and whatever Redis forgets.       *)
(***************************************************************************)
EXTENDS AccessProps, TLAPS

USE DEF Past, NoSecret

-----------------------------------------------------------------------------
(* The inductive invariant of the managers.                                *)

\* Their part of TypeOK.
ManagerTypes ==
    /\ now \in Time
    /\ managers \subseteq Managers
    /\ revision \in [Managers -> Nat]
    /\ secret \in [Managers -> Secrets]
    /\ logins \in [Logins -> Login]
    /\ usedNonces \subseteq Logins /\ forgotten \in [Logins -> Nat]
    /\ checked \in [Logins -> Nat] /\ uses \in [Logins -> Nat]
    /\ sessions \subseteq Session
    /\ confirmed \in [Managers -> Time]

\* A login token is let through once, and once more for each time its nonce was
\* forgotten.
Passes(n) == (IF n \in usedNonces THEN 1 ELSE 0) + forgotten[n]

Counted ==
    \A n \in Logins :
        /\ checked[n] + uses[n] <= Passes(n)
        /\ Passes(n) > 0 => logins[n].pc = "Token"

\* What a login token says of its manager's row, while the row is still the same
\* and after it has changed.
TokensFit ==
    \A n \in Logins : logins[n].pc # "New" =>
        LET m == logins[n].mid IN
        /\ logins[n].rev <= revision[m]
        /\ logins[n].setup /\ logins[n].rev = revision[m] =>
               secret[m] = NoSecret /\ uses[n] = 0
        /\ logins[n].setup => uses[n] <= 1

\* Where a session comes from.
SessionsFit ==
    \A s \in sessions :
        /\ uses[s.login] > 0 /\ logins[s.login].pc = "Token"
        /\ s.mid = logins[s.login].mid

CodesPast == \A m \in Managers : confirmed[m] <= now

ManagerInv ==
    /\ ManagerTypes /\ Counted /\ TokensFit /\ SessionsFit /\ CodesPast
    /\ SessionsHaveSecret /\ SudoNeedsCode

\* A row changes when its secret is set for the first time, and then only.
SetOnce ==
    \A m \in Managers : secret[m] # NoSecret => secret'[m] = secret[m]

-----------------------------------------------------------------------------
(* What the steps have in common.                                          *)

\* Times are numbers.
LEMMA Clock ==
    ASSUME ManagerTypes
    PROVE  now \in Nat /\ \A m \in Managers : confirmed[m] \in Nat
BY LoginAssumption DEF ManagerTypes, Time

\* Who is let through has a login token.
LEMMA CheckedToken ==
    ASSUME ManagerInv, NEW n \in Logins, checked[n] > 0 \/ uses[n] > 0
    PROVE  logins[n].pc = "Token"
BY DEF ManagerInv, ManagerTypes, Counted, Passes

\* The sessions after a second request that was answered.
LEMMA LogInFacts ==
    ASSUME ManagerInv, NEW n \in Logins, checked[n] > 0, LogIn(n)
    PROVE  /\ sessions' \subseteq Session /\ sessions \subseteq sessions'
           /\ \A s \in sessions' \ sessions :
                  /\ s.mid = logins[n].mid /\ s.login = n
                  /\ s.expired = now + SessionTime /\ s.sudoExpired = Past
           /\ checked' \in [Logins -> Nat] /\ uses' \in [Logins -> Nat]
           /\ checked'[n] = checked[n] - 1 /\ uses'[n] = uses[n] + 1
           /\ \A k \in Logins \ {n} : checked'[k] = checked[k] /\ uses'[k] = uses[k]
<1> USE DEF ManagerInv, ManagerTypes
<1> DEFINE s == [mid |-> logins[n].mid, login |-> n, expired |-> now + SessionTime,
                 sudoExpired |-> Past]
<1>1. logins[n].mid \in Managers
  BY DEF Login
<1>2. now + SessionTime \in Nat
  BY Clock, LoginAssumption
<1>3. /\ s \in Session /\ s.mid = logins[n].mid /\ s.login = n
      /\ s.expired = now + SessionTime /\ s.sudoExpired = Past
  BY <1>1, <1>2 DEF Session
<1>4. sessions' = sessions \cup {s}
  BY DEF LogIn
<1>5. /\ checked' \in [Logins -> Nat] /\ uses' \in [Logins -> Nat]
      /\ checked'[n] = checked[n] - 1 /\ uses'[n] = uses[n] + 1
      /\ \A k \in Logins \ {n} : checked'[k] = checked[k] /\ uses'[k] = uses[k]
  BY DEF LogIn
<1> HIDE DEF s
<1> QED BY <1>3, <1>4, <1>5

\* A second request that ends in an error is one less under way.
LEMMA GiveUpFacts ==
    ASSUME ManagerInv, NEW n \in Logins, checked[n] > 0, GiveUp(n)
    PROVE  /\ UNCHANGED << sessions, uses >>
           /\ checked' \in [Logins -> Nat]
           /\ checked'[n] = checked[n] - 1
           /\ \A k \in Logins \ {n} : checked'[k] = checked[k]
BY DEF GiveUp, ManagerInv, ManagerTypes

\* A right code is noted.
LEMMA ConfirmFacts ==
    ASSUME ManagerInv, NEW m \in Managers, Confirm(m), UNCHANGED now
    PROVE  /\ confirmed' \in [Managers -> Time] /\ CodesPast'
           /\ confirmed'[m] = now
           /\ \A k \in Managers : confirmed[k] <= confirmed'[k]
<1> USE DEF ManagerInv, ManagerTypes, CodesPast
<1>1. confirmed' \in [Managers -> Time] /\ confirmed'[m] = now
      /\ \A k \in Managers \ {m} : confirmed'[k] = confirmed[k]
  BY DEF Confirm
<1> QED BY <1>1, Clock

\* Sudo mode ends in time as long as codes are only added.
LEMMA SudoKept ==
    ASSUME ManagerInv, \A m \in Managers : confirmed'[m] \in Nat /\ confirmed[m] <= confirmed'[m],
           \A s \in sessions' \ sessions :
               /\ s \in Session
               /\ s.sudoExpired = Past \/ s.sudoExpired <= confirmed'[s.mid] + SudoTime
    PROVE  SudoNeedsCode'
<1> SUFFICES ASSUME NEW s \in sessions'
             PROVE  s.sudoExpired <= confirmed'[s.mid] + SudoTime
  BY DEF SudoNeedsCode
<1>1. s \in Session
  BY DEF ManagerInv, ManagerTypes
<1>2. s.mid \in Managers /\ s.sudoExpired \in Nat
  BY <1>1 DEF Session
<1>3. CASE s \in sessions
  <2>1. s.sudoExpired <= confirmed[s.mid] + SudoTime
    BY <1>3 DEF ManagerInv, SudoNeedsCode
  <2> QED BY <1>2, <2>1, Clock, LoginAssumption DEF ManagerInv
<1>4. CASE s \notin sessions
  BY <1>2, <1>4, LoginAssumption
<1> QED BY <1>3, <1>4

-----------------------------------------------------------------------------
(* The first request.                                                      *)

\* The invariant and the secrets, over the first request of a login.
LEMMA StartKeepsInv ==
    ASSUME ManagerInv, NEW n \in Logins, NEW m \in Managers, StartLogin(n, m)
    PROVE  ManagerInv' /\ SetOnce
<1> USE DEF ManagerInv
<1> DEFINE login == [pc |-> "Password", mid |-> m, rev |-> revision[m],
                     setup |-> secret[m] = NoSecret, expired |-> Past]
<1>1. /\ logins' = [logins EXCEPT ![n] = login] /\ logins[n].pc = "New"
      /\ UNCHANGED << now, managers, revision, secret, usedNonces, checked, sessions,
                      forgotten, uses, confirmed >>
  BY DEF StartLogin, managerRows, historyVars
<1>2. /\ login \in Login /\ login.pc = "Password" /\ login.mid = m
      /\ login.rev = revision[m] /\ login.setup = (secret[m] = NoSecret)
  <2>1. revision[m] \in Nat
    BY DEF ManagerTypes
  <2>2. (secret[m] = NoSecret) \in BOOLEAN
    OBVIOUS
  <2> HIDE DEF NoSecret
  <2> QED BY <2>1, <2>2 DEF Login
<1> HIDE DEF login
<1>3. /\ logins' \in [Logins -> Login] /\ logins'[n] = login
      /\ \A k \in Logins \ {n} : logins'[k] = logins[k]
  BY <1>1, <1>2 DEF ManagerTypes
<1>4. Passes(n) = 0 /\ uses[n] = 0 /\ checked[n] = 0
  <2>1. Passes(n) <= 0
    BY <1>1 DEF Counted, Passes, ManagerTypes
  <2>2. checked[n] + uses[n] <= Passes(n) /\ checked[n] \in Nat /\ uses[n] \in Nat
        /\ Passes(n) \in Nat
    BY DEF Counted, Passes, ManagerTypes
  <2> QED BY <2>1, <2>2
<1>5. ManagerTypes'
  BY <1>1, <1>3 DEF ManagerTypes
<1>6. Counted'
  BY <1>1, <1>3, <1>4 DEF Counted, Passes
<1>7. TokensFit'
  <2>1. \A k \in Logins \ {n} : logins'[k] = logins[k]
    BY <1>3
  <2>2. revision[m] \in Nat
    BY DEF ManagerTypes
  <2>3. /\ logins'[n].rev <= revision[logins'[n].mid]
        /\ logins'[n].setup => secret[logins'[n].mid] = NoSecret
    <3>1. /\ logins'[n].rev = revision[m] /\ logins'[n].mid = m
          /\ logins'[n].setup = (secret[m] = NoSecret)
      BY <1>2, <1>3
    <3>2. logins'[n].setup => secret[m] = NoSecret
      BY <3>1, Zenon
    <3> QED BY <2>2, <3>1, <3>2
  <2> QED BY <1>1, <1>4, <2>1, <2>3 DEF TokensFit
<1>8. \A s \in sessions : s.login \in Logins \ {n}
  BY <1>1 DEF SessionsFit, ManagerTypes, Session
<1>9. SessionsFit'
  BY <1>1, <1>3, <1>8 DEF SessionsFit
<1>10. SessionsHaveSecret'
  BY <1>1, <1>3, <1>8 DEF SessionsHaveSecret
<1>11. CodesPast' /\ SudoNeedsCode' /\ SetOnce
  BY <1>1 DEF CodesPast, SudoNeedsCode, SetOnce
<1> QED BY <1>5, <1>6, <1>7, <1>9, <1>10, <1>11

\* The same, over the login token handed out.
LEMMA HandOutKeepsInv ==
    ASSUME ManagerInv, NEW n \in Logins, HandOut(n)
    PROVE  ManagerInv' /\ SetOnce
<1> USE DEF ManagerInv
<1> DEFINE login == [logins[n] EXCEPT !.pc = "Token", !.expired = now + LoginTime]
<1>1. /\ logins' = [logins EXCEPT ![n] = login] /\ logins[n].pc = "Password"
      /\ UNCHANGED << now, managers, revision, secret, usedNonces, checked, sessions,
                      forgotten, uses, confirmed >>
  BY DEF HandOut, managerRows, historyVars
<1>2. /\ login \in Login /\ login.pc = "Token" /\ login.mid = logins[n].mid
      /\ login.rev = logins[n].rev /\ login.setup = logins[n].setup
  <2>1. logins[n] \in Login /\ now + LoginTime \in Nat
    BY Clock, LoginAssumption DEF ManagerTypes
  <2> QED BY <2>1 DEF Login
<1> HIDE DEF login
<1>3. /\ logins' \in [Logins -> Login] /\ logins'[n] = login
      /\ \A k \in Logins \ {n} : logins'[k] = logins[k]
  BY <1>1, <1>2 DEF ManagerTypes
<1>4. \A s \in sessions : s.login \in Logins \ {n}
  BY <1>1 DEF SessionsFit, ManagerTypes, Session
<1>5. ManagerTypes'
  BY <1>1, <1>3 DEF ManagerTypes
<1>6. Counted'
  BY <1>1, <1>2, <1>3 DEF Counted, Passes
<1>7. TokensFit'
  BY <1>1, <1>2, <1>3 DEF TokensFit
<1>8. SessionsFit'
  BY <1>1, <1>3, <1>4 DEF SessionsFit
<1>9. SessionsHaveSecret'
  BY <1>1, <1>3, <1>4 DEF SessionsHaveSecret
<1>10. CodesPast' /\ SudoNeedsCode' /\ SetOnce
  BY <1>1 DEF CodesPast, SudoNeedsCode, SetOnce
<1> QED BY <1>5, <1>6, <1>7, <1>8, <1>9, <1>10

-----------------------------------------------------------------------------
(* The second request.                                                     *)

\* The same, over the check of that token.
LEMMA PreVerifyKeepsInv ==
    ASSUME ManagerInv, NEW n \in Logins, PreVerify(n)
    PROVE  ManagerInv' /\ SetOnce
<1> USE DEF ManagerInv
<1>1. /\ logins[n].pc = "Token" /\ n \notin usedNonces
      /\ usedNonces' = usedNonces \cup {n}
      /\ UNCHANGED << now, managers, revision, secret, logins, sessions, forgotten, uses,
                      confirmed >>
  BY DEF PreVerify, managerRows, historyVars
<1>2. /\ checked' \in [Logins -> Nat]
      /\ checked'[n] = checked[n] + 1 \/ checked'[n] = checked[n]
      /\ \A k \in Logins \ {n} : checked'[k] = checked[k]
  BY DEF PreVerify, ManagerTypes
<1>3. ManagerTypes'
  BY <1>1, <1>2 DEF ManagerTypes
<1>4. Counted'
  <2>1. ASSUME NEW k \in Logins
        PROVE  checked'[k] + uses[k] <= Passes(k)' /\ (Passes(k)' > 0 => logins[k].pc = "Token")
    <3>1. /\ checked[k] + uses[k] <= Passes(k) /\ (Passes(k) > 0 => logins[k].pc = "Token")
          /\ checked[k] \in Nat /\ uses[k] \in Nat /\ forgotten[k] \in Nat
      BY DEF Counted, ManagerTypes
    <3>2. CASE k = n
      BY <1>1, <1>2, <3>1, <3>2 DEF Passes
    <3>3. CASE k # n
      BY <1>1, <1>2, <3>1, <3>3 DEF Passes
    <3> QED BY <3>2, <3>3
  <2> QED BY <1>1, <2>1 DEF Counted
<1>5. TokensFit' /\ SessionsFit' /\ SessionsHaveSecret' /\ CodesPast' /\ SudoNeedsCode'
      /\ SetOnce
  BY <1>1 DEF TokensFit, SessionsFit, SessionsHaveSecret, CodesPast, SudoNeedsCode,
     SetOnce
<1> QED BY <1>3, <1>4, <1>5

\* A second request that ends keeps the account.
LEMMA AccountKept ==
    ASSUME ManagerInv, NEW n \in Logins, checked[n] > 0, LogIn(n) \/ GiveUp(n),
           UNCHANGED << logins, usedNonces, forgotten >>
    PROVE  Counted'
<1> SUFFICES ASSUME NEW k \in Logins
             PROVE  checked'[k] + uses'[k] <= Passes(k)
  BY DEF Counted, Passes, ManagerInv
<1>1. /\ checked[k] + uses[k] <= Passes(k)
      /\ checked[k] \in Nat /\ uses[k] \in Nat
      /\ Passes(k) \in Nat
  BY DEF ManagerInv, ManagerTypes, Counted, Passes
<1>2. CASE LogIn(n)
  <2>1. \/ checked'[k] = checked[k] /\ uses'[k] = uses[k]
        \/ checked'[k] = checked[k] - 1 /\ uses'[k] = uses[k] + 1
    BY <1>2, LogInFacts
  <2> QED BY <1>1, <2>1
<1>3. CASE GiveUp(n)
  <2>1. /\ uses' = uses
        /\ checked'[k] = checked[k] \/ checked'[k] = checked[k] - 1
    BY <1>3, GiveUpFacts
  <2> QED BY <1>1, <2>1
<1> QED BY <1>2, <1>3

\* The sessions that were there are as they were, and the new one fits.
LEMMA LogInSessions ==
    ASSUME ManagerInv, NEW n \in Logins, checked[n] > 0, LogIn(n), UNCHANGED logins
    PROVE  SessionsFit'
<1> USE DEF ManagerInv
<1>1. /\ sessions' \subseteq Session
      /\ \A s \in sessions' \ sessions : s.mid = logins[n].mid /\ s.login = n
      /\ uses'[n] = uses[n] + 1
      /\ \A k \in Logins \ {n} : uses'[k] = uses[k]
  BY LogInFacts
<1>2. \A s \in sessions' : s.login \in Logins
  BY <1>1 DEF Session
<1>3. \A k \in Logins : uses[k] \in Nat
  BY DEF ManagerTypes
<1>4. logins[n].pc = "Token"
  BY CheckedToken
<1> QED BY <1>1, <1>2, <1>3, <1>4 DEF SessionsFit

\* The same, over a refused second request.
LEMMA GiveUpKeepsInv ==
    ASSUME ManagerInv, NEW n \in Logins, checked[n] > 0, GiveUp(n),
           UNCHANGED << now, managers, revision, secret, logins, usedNonces, forgotten,
                        confirmed >>
    PROVE  ManagerInv' /\ SetOnce
<1>1. Counted'
  BY AccountKept
<1>2. UNCHANGED << sessions, uses >> /\ checked' \in [Logins -> Nat]
  BY GiveUpFacts
<1> QED BY <1>1, <1>2 DEF ManagerInv, ManagerTypes, TokensFit, SessionsFit,
           SessionsHaveSecret, CodesPast, SudoNeedsCode, SetOnce

\* The same, over the end of a login.
LEMMA EndLoginKeepsInv ==
    ASSUME ManagerInv, NEW n \in Logins, EndLogin(n)
    PROVE  ManagerInv' /\ SetOnce
<1> USE DEF ManagerInv
<1>1. /\ checked[n] > 0 /\ ~logins[n].setup /\ logins[n].pc = "Token"
      /\ UNCHANGED << now, managers, revision, secret, logins, usedNonces, forgotten >>
  BY CheckedToken DEF EndLogin, managerRows
<1>2. CASE GiveUp(n) /\ UNCHANGED confirmed
  BY <1>1, <1>2, GiveUpKeepsInv
<1>3. CASE TotpRight(logins[n].mid) /\ (LogIn(n) \/ GiveUp(n))
  <2> DEFINE m == logins[n].mid
  <2>1. logins[n] \in Login /\ m \in Managers
    BY DEF ManagerTypes, Login
  <2>2. secret[m] # NoSecret /\ Confirm(m)
    BY <1>3 DEF TotpRight
  <2>3. /\ confirmed' \in [Managers -> Time] /\ CodesPast'
        /\ \A k \in Managers : confirmed[k] <= confirmed'[k]
    BY <1>1, <2>1, <2>2, ConfirmFacts
  <2>4. Counted'
    BY <1>1, <1>3, AccountKept
  <2>5. /\ sessions' \subseteq Session
        /\ checked' \in [Logins -> Nat] /\ uses' \in [Logins -> Nat]
        /\ \A k \in Logins \ {n} : uses'[k] = uses[k]
        /\ \A s \in sessions' \ sessions :
               s.mid = m /\ s.login = n /\ s.sudoExpired = Past
    BY <1>1, <1>3, LogInFacts, GiveUpFacts DEF ManagerTypes
  <2>6. ManagerTypes'
    BY <1>1, <2>3, <2>5 DEF ManagerTypes
  <2>7. TokensFit'
    BY <1>1, <2>5 DEF TokensFit
  <2>8. SessionsFit'
    <3>1. CASE LogIn(n)
      BY <1>1, <3>1, LogInSessions
    <3>2. CASE GiveUp(n)
      BY <1>1, <3>2, GiveUpFacts DEF SessionsFit
    <3> QED BY <1>3, <3>1, <3>2
  <2>9. SessionsHaveSecret'
    BY <1>1, <2>2, <2>5 DEF SessionsHaveSecret
  <2>10. SudoNeedsCode'
    <3>1. \A k \in Managers : confirmed'[k] \in Nat
      BY <2>3, LoginAssumption DEF Time
    <3> QED BY <2>3, <2>5, <3>1, SudoKept
  <2> QED BY <1>1, <2>3, <2>4, <2>6, <2>7, <2>8, <2>9, <2>10 DEF SetOnce
<1> QED BY <1>2, <1>3 DEF EndLogin

\* The same, over the end of a setup: the revision admits one of them.
LEMMA EndSetupKeepsInv ==
    ASSUME ManagerInv, NEW n \in Logins, EndSetup(n)
    PROVE  ManagerInv' /\ SetOnce
<1> USE DEF ManagerInv
<1>1. /\ checked[n] > 0 /\ logins[n].setup /\ logins[n].pc = "Token"
      /\ UNCHANGED << now, managers, logins, usedNonces, forgotten >>
  BY CheckedToken DEF EndSetup
<1>2. CASE GiveUp(n) /\ UNCHANGED << revision, secret, confirmed >>
  BY <1>1, <1>2, GiveUpKeepsInv
<1>3. CASE /\ Verify(n)
           /\ revision' = [revision EXCEPT ![logins[n].mid] = @ + 1]
           /\ secret' = [secret EXCEPT ![logins[n].mid] = n]
           /\ Confirm(logins[n].mid)
           /\ LogIn(n) \/ GiveUp(n)
  <2>1. logins[n] \in Login
    BY DEF ManagerTypes
  <2>2. PICK m \in Managers : m = logins[n].mid
    BY <2>1 DEF Login
  <2>3. logins[n].rev = revision[m] /\ secret[m] = NoSecret /\ uses[n] = 0
    BY <1>1, <1>3, <2>2 DEF Verify, TokensFit
  <2>4. /\ revision' \in [Managers -> Nat] /\ revision'[m] = revision[m] + 1
        /\ \A k \in Managers \ {m} : revision'[k] = revision[k]
    BY <1>3, <2>2 DEF ManagerTypes
  <2>5. /\ secret' \in [Managers -> Secrets] /\ secret'[m] = n /\ n # NoSecret
        /\ \A k \in Managers \ {m} : secret'[k] = secret[k]
    BY <1>3, <2>2, LoginAssumption DEF ManagerTypes, Secrets, Logins
  <2>6. /\ confirmed' \in [Managers -> Time] /\ CodesPast'
        /\ \A k \in Managers : confirmed[k] <= confirmed'[k]
    BY <1>1, <1>3, <2>2, ConfirmFacts
  <2>7. Counted'
    BY <1>1, <1>3, AccountKept
  <2>8. /\ sessions' \subseteq Session
        /\ checked' \in [Logins -> Nat] /\ uses' \in [Logins -> Nat]
        /\ uses'[n] \in {0, 1}
        /\ \A k \in Logins \ {n} : uses'[k] = uses[k]
        /\ \A s \in sessions' \ sessions :
               s.mid = m /\ s.login = n /\ s.sudoExpired = Past
    BY <1>1, <1>3, <2>2, <2>3, LogInFacts, GiveUpFacts DEF ManagerTypes
  <2>9. ManagerTypes'
    BY <1>1, <2>4, <2>5, <2>6, <2>8 DEF ManagerTypes
  <2>10. TokensFit'
    <3> SUFFICES ASSUME NEW k \in Logins, logins[k].pc # "New"
                 PROVE  LET q == logins[k].mid IN
                        /\ logins[k].rev <= revision'[q]
                        /\ logins[k].setup /\ logins[k].rev = revision'[q] =>
                               secret'[q] = NoSecret /\ uses'[k] = 0
                        /\ logins[k].setup => uses'[k] <= 1
      BY <1>1 DEF TokensFit
    <3>1. logins[k] \in Login /\ logins[k].mid \in Managers /\ logins[k].rev \in Nat
      BY DEF ManagerTypes, Login
    <3>2. revision[m] \in Nat
      BY DEF ManagerTypes
    <3>3. CASE logins[k].mid = m
      <4>1. logins[k].rev < revision'[m]
        BY <2>4, <3>1, <3>2, <3>3 DEF TokensFit
      <4>2. logins[k].setup => uses'[k] <= 1
        BY <2>8 DEF TokensFit
      <4> QED BY <3>1, <3>2, <2>4, <3>3, <4>1, <4>2
    <3>4. CASE logins[k].mid # m
      <4>1. k # n
        BY <2>2, <3>4
      <4>2. uses'[k] = uses[k]
        BY <2>8, <4>1
      <4> QED BY <2>4, <2>5, <3>1, <3>4, <4>2 DEF TokensFit
    <3> QED BY <3>3, <3>4
  <2>11. SessionsFit'
    <3>1. CASE LogIn(n)
      BY <1>1, <3>1, LogInSessions
    <3>2. CASE GiveUp(n)
      BY <1>1, <3>2, GiveUpFacts DEF SessionsFit
    <3> QED BY <1>3, <3>1, <3>2
  <2>12. SessionsHaveSecret'
    <3>1. \A s \in sessions : s.mid \in Managers \ {m}
      BY <2>3 DEF SessionsHaveSecret, ManagerTypes, Session
    <3> QED BY <1>1, <2>5, <2>8, <3>1 DEF SessionsHaveSecret
  <2>13. SudoNeedsCode'
    <3>1. \A k \in Managers : confirmed'[k] \in Nat
      BY <2>6, LoginAssumption DEF Time
    <3> QED BY <2>6, <2>8, <3>1, SudoKept
  <2>14. SetOnce
    BY <2>3, <2>5 DEF SetOnce
  <2> QED BY <2>6, <2>7, <2>9, <2>10, <2>11, <2>12, <2>13, <2>14
<1> QED BY <1>2, <1>3 DEF EndSetup

-----------------------------------------------------------------------------
(* Sessions, managers, Redis and the clock.                                *)

\* The same, over the entry to sudo mode.
LEMMA AcquireSudoKeepsInv ==
    ASSUME ManagerInv, NEW s \in sessions, AcquireSudo(s)
    PROVE  ManagerInv' /\ SetOnce
<1> USE DEF ManagerInv
<1> DEFINE t == [s EXCEPT !.sudoExpired = now + SudoTime]
<1>1. s \in Session /\ s.mid \in Managers
  BY DEF ManagerTypes, Session
<1>2. now + SudoTime \in Nat
  BY Clock, LoginAssumption
<1>3. /\ t \in Session /\ t.mid = s.mid /\ t.login = s.login /\ t.expired = s.expired
      /\ t.sudoExpired = now + SudoTime
  BY <1>1, <1>2 DEF Session
<1>4. /\ sessions' = sessions \cup {t}
      /\ Confirm(s.mid) /\ secret[s.mid] # NoSecret
      /\ UNCHANGED << now, managers, revision, secret, logins, usedNonces, checked,
                      forgotten, uses >>
  BY DEF AcquireSudo, TotpRight, managerRows
<1> HIDE DEF t
<1>5. /\ confirmed' \in [Managers -> Time] /\ CodesPast'
      /\ confirmed'[s.mid] = now
      /\ \A k \in Managers : confirmed[k] <= confirmed'[k]
  BY <1>1, <1>4, ConfirmFacts
<1>6. ManagerTypes'
  BY <1>3, <1>4, <1>5 DEF ManagerTypes
<1>7. Counted' /\ TokensFit' /\ SetOnce
  BY <1>4 DEF Counted, Passes, TokensFit, SetOnce
<1>8. SessionsFit'
  BY <1>3, <1>4 DEF SessionsFit
<1>9. SessionsHaveSecret'
  BY <1>3, <1>4 DEF SessionsHaveSecret
<1>10. SudoNeedsCode'
  <2>1. \A k \in Managers : confirmed'[k] \in Nat
    BY <1>5, LoginAssumption DEF Time
  <2>2. \A x \in sessions' \ sessions :
            x \in Session /\ x.sudoExpired <= confirmed'[x.mid] + SudoTime
    BY <1>1, <1>2, <1>3, <1>4, <1>5
  <2> QED BY <1>5, <2>1, <2>2, SudoKept
<1> QED BY <1>5, <1>6, <1>7, <1>8, <1>9, <1>10

\* The same, over the creation of a manager.
LEMMA CreateKeepsInv ==
    ASSUME ManagerInv, NEW s \in sessions, CreateManager(s)
    PROVE  ManagerInv' /\ SetOnce
<1>1. /\ managers' \subseteq Managers
      /\ UNCHANGED << now, revision, secret, logins, usedNonces, checked, sessions,
                      forgotten, uses, confirmed >>
  BY DEF CreateManager, loginVars, historyVars, ManagerInv, ManagerTypes
<1> QED BY <1>1 DEF ManagerInv, ManagerTypes, Counted, Passes, TokensFit, SessionsFit,
           SessionsHaveSecret, CodesPast, SudoNeedsCode, SetOnce

\* The same, over the loss of a nonce.
LEMMA ForgetKeepsInv ==
    ASSUME ManagerInv, NEW n \in Logins, ForgetNonce(n)
    PROVE  ManagerInv' /\ SetOnce
<1> USE DEF ManagerInv
<1>1. /\ n \in usedNonces
      /\ usedNonces' = usedNonces \ {n} /\ forgotten' = [forgotten EXCEPT ![n] = @ + 1]
      /\ UNCHANGED << now, managers, revision, secret, logins, checked, sessions, uses,
                      confirmed >>
  BY DEF ForgetNonce, managerRows
<1>2. ManagerTypes'
  BY <1>1 DEF ManagerTypes
<1>3. \A k \in Logins : Passes(k)' = Passes(k)
  BY <1>1 DEF Passes, ManagerTypes
<1>4. Counted'
  BY <1>1, <1>3 DEF Counted
<1> QED BY <1>1, <1>2, <1>4 DEF TokensFit, SessionsFit, SessionsHaveSecret, CodesPast,
           SudoNeedsCode, SetOnce

\* The same, over the clock.
LEMMA TickKeepsInv ==
    ASSUME ManagerInv, Tick
    PROVE  ManagerInv' /\ SetOnce
<1> USE DEF ManagerInv
<1>1. /\ now' = now + 1 /\ now < MaxTime
      /\ UNCHANGED << managers, revision, secret, logins, usedNonces, checked, sessions,
                      forgotten, uses, confirmed >>
  BY DEF Tick, managerRows, loginVars, historyVars
<1>2. ManagerTypes' /\ CodesPast'
  BY <1>1, Clock, LoginAssumption DEF ManagerTypes, CodesPast, Time
<1> QED BY <1>1, <1>2 DEF Counted, Passes, TokensFit, SessionsFit, SessionsHaveSecret,
           SudoNeedsCode, SetOnce

\* The same, over every step of a manager or the clock.
LEMMA ManagerKeepsInv ==
    ASSUME ManagerInv, ManagerStep \/ Tick
    PROVE  ManagerInv' /\ SetOnce
BY StartKeepsInv, HandOutKeepsInv, PreVerifyKeepsInv, EndSetupKeepsInv, EndLoginKeepsInv,
   ForgetKeepsInv, AcquireSudoKeepsInv, CreateKeepsInv, TickKeepsInv DEF ManagerStep

\* The same, over the steps of users.
LEMMA SameKeepsInv ==
    ASSUME ManagerInv, UNCHANGED managerVars
    PROVE  ManagerInv' /\ SetOnce
BY DEF managerVars, managerRows, loginVars, historyVars, ManagerInv, ManagerTypes, Counted,
   Passes, TokensFit, SessionsFit, SessionsHaveSecret, CodesPast, SudoNeedsCode,
   SetOnce

\* The managers' invariant holds at the start.
LEMMA InitManagerInv ==
    ASSUME ManagerInit
    PROVE  ManagerInv
<1> USE LoginAssumption DEF ManagerInit
<1>1. Root \in Managers /\ NoSecret \in Secrets /\ 1 \in Time /\ Past \in Time
  BY DEF Root, Managers, Secrets, Time
<1>2. ManagerTypes
  BY <1>1 DEF ManagerTypes, Login
<1>3. CodesPast
  BY DEF CodesPast
<1> QED BY <1>2, <1>3 DEF ManagerInv, Counted, Passes, TokensFit, SessionsFit,
           SessionsHaveSecret, SudoNeedsCode

-----------------------------------------------------------------------------
(* The users.                                                              *)

\* Their part of TypeOK.
UserTypes ==
    /\ tokenId \in [Users -> Nat]
    /\ loginAs \in [LoginAsTokens -> LoginAsToken]
    /\ nonceKeys \in [LoginAsTokens -> {"Absent", "pending", "used"}]
    /\ userTokens \subseteq UserToken
    /\ loginAsUses \in [LoginAsTokens -> Nat]

\* A LoginAsToken is unborn, unused, being used or used, and only once each.
OneUse ==
    \A n \in LoginAsTokens :
        /\ loginAs[n].pc = "New" => nonceKeys[n] = "Absent" /\ loginAsUses[n] = 0
        /\ loginAs[n].pc # "New" => loginAs[n].uid \in Users
        /\ nonceKeys[n] = "pending" => loginAs[n].pc = "Token" /\ loginAsUses[n] = 0
        /\ loginAs[n].pc = "Checked" => loginAsUses[n] = 0

\* No token is ahead of its user.
TokensPast == \A t \in userTokens : t.tokenId <= tokenId[t.uid]

UserInv == UserTypes /\ OneUse /\ LoginAsOnce /\ TokensPast

\* What was handed out is kept, and the ids of users only grow.
UsersGrow == \A u \in Users : tokenId[u] <= tokenId'[u]

\* A new token has the id of the moment.
LEMMA HandOutUserFacts ==
    ASSUME UserInv, now \in Nat, NEW u \in Users, NEW time \in Nat, HandOutUser(u, time),
           UNCHANGED tokenId
    PROVE  userTokens' \subseteq UserToken /\ TokensPast'
<1> USE DEF UserInv, UserTypes
<1> DEFINE t == [uid |-> u, tokenId |-> tokenId[u], expired |-> now + time]
<1>1. t \in UserToken /\ t.uid = u /\ t.tokenId = tokenId[u] /\ tokenId[u] \in Nat
  BY DEF UserToken
<1>2. userTokens' = userTokens \cup {t}
  BY DEF HandOutUser
<1> HIDE DEF t
<1> QED BY <1>1, <1>2 DEF TokensPast

\* A LoginAsToken moves and stays the one of its user.
LEMMA LoginAsMoves ==
    ASSUME UserTypes, NEW n \in LoginAsTokens, NEW pc \in {"Token", "Checked"},
           loginAs' = [loginAs EXCEPT ![n].pc = pc]
    PROVE  /\ loginAs' \in [LoginAsTokens -> LoginAsToken]
           /\ loginAs'[n].pc = pc /\ loginAs'[n].uid = loginAs[n].uid
           /\ \A k \in LoginAsTokens \ {n} : loginAs'[k] = loginAs[k]
<1> USE DEF UserTypes
<1> DEFINE token == [loginAs[n] EXCEPT !.pc = pc]
<1>1. token \in LoginAsToken /\ token.pc = pc /\ token.uid = loginAs[n].uid
  BY DEF LoginAsToken
<1>2. loginAs' = [loginAs EXCEPT ![n] = token]
  OBVIOUS
<1> HIDE DEF token
<1> QED BY <1>1, <1>2

\* The users' invariant, over every step of a user.
LEMMA UserKeepsInv ==
    ASSUME UserInv, now \in Nat, sessions \subseteq Session, UserStep
    PROVE  UserInv' /\ UsersGrow
<1> USE UserAssumption DEF UserInv, UserTypes
<1>1. ASSUME NEW u \in Users, WechatLogin(u)
      PROVE  UserInv' /\ UsersGrow
  <2>1. HandOutUser(u, UserTime)
        /\ UNCHANGED << tokenId, loginAs, nonceKeys, loginAsUses >>
    BY <1>1 DEF WechatLogin
  <2>2. userTokens' \subseteq UserToken /\ TokensPast'
    BY <2>1, HandOutUserFacts
  <2> QED BY <2>1, <2>2 DEF OneUse, LoginAsOnce, UsersGrow
<1>2. ASSUME NEW t \in userTokens, RevokeAll(t)
      PROVE  UserInv' /\ UsersGrow
  <2>1. /\ tokenId' = [tokenId EXCEPT ![t.uid] = @ + 1]
        /\ UNCHANGED << loginAs, nonceKeys, userTokens, loginAsUses >>
    BY <1>2 DEF RevokeAll
  <2>2. tokenId' \in [Users -> Nat] /\ UsersGrow
    <3>1. t.uid \in Users
      BY DEF UserToken
    <3> QED BY <2>1, <3>1 DEF UsersGrow
  <2>3. TokensPast'
    <3>1. \A x \in userTokens : x.uid \in Users /\ x.tokenId \in Nat
      BY DEF UserToken
    <3> QED BY <2>1, <2>2, <3>1 DEF TokensPast, UsersGrow
  <2> QED BY <2>1, <2>2, <2>3 DEF OneUse, LoginAsOnce
<1>3. ASSUME NEW n \in LoginAsTokens, NEW s \in sessions, NEW u \in Users,
             GenLoginAs(n, s, u)
      PROVE  UserInv' /\ UsersGrow
  <2> DEFINE token == [pc |-> "Token", uid |-> u, expired |-> now + LoginAsTime]
  <2>1. token \in LoginAsToken /\ token.pc = "Token" /\ token.uid = u
    BY DEF LoginAsToken
  <2>2. /\ loginAs[n].pc = "New"
        /\ loginAs' = [loginAs EXCEPT ![n] = token]
        /\ nonceKeys' = [nonceKeys EXCEPT ![n] = "pending"]
        /\ UNCHANGED << tokenId, userTokens, loginAsUses >>
    BY <1>3 DEF GenLoginAs
  <2> HIDE DEF token
  <2> QED BY <2>1, <2>2 DEF OneUse, LoginAsOnce, TokensPast, UsersGrow
<1>4. ASSUME NEW n \in LoginAsTokens, LoginAs(n)
      PROVE  UserInv' /\ UsersGrow
  <2>1. /\ nonceKeys[n] = "pending"
        /\ loginAs' = [loginAs EXCEPT ![n].pc = "Checked"]
        /\ nonceKeys' = [nonceKeys EXCEPT ![n] = "used"]
        /\ UNCHANGED << tokenId, userTokens, loginAsUses >>
    BY <1>4 DEF LoginAs
  <2>2. /\ loginAs' \in [LoginAsTokens -> LoginAsToken]
        /\ loginAs'[n].pc = "Checked" /\ loginAs'[n].uid = loginAs[n].uid
        /\ \A k \in LoginAsTokens \ {n} : loginAs'[k] = loginAs[k]
    BY <2>1, LoginAsMoves
  <2> QED BY <2>1, <2>2 DEF OneUse, LoginAsOnce, TokensPast, UsersGrow
<1>5. ASSUME NEW n \in LoginAsTokens, EndLoginAs(n)
      PROVE  UserInv' /\ UsersGrow
  <2>1. /\ loginAs[n].pc = "Checked"
        /\ loginAs' = [loginAs EXCEPT ![n].pc = "Token"]
        /\ \/ /\ HandOutUser(loginAs[n].uid, LoginAsSession)
              /\ loginAsUses' = [loginAsUses EXCEPT ![n] = @ + 1]
           \/ UNCHANGED << userTokens, loginAsUses >>
        /\ UNCHANGED << tokenId, nonceKeys >>
    BY <1>5 DEF EndLoginAs
  <2>2. /\ loginAs' \in [LoginAsTokens -> LoginAsToken]
        /\ loginAs'[n].pc = "Token" /\ loginAs'[n].uid = loginAs[n].uid
        /\ \A k \in LoginAsTokens \ {n} : loginAs'[k] = loginAs[k]
    BY <2>1, LoginAsMoves
  <2>3. loginAs[n].uid \in Users /\ loginAsUses[n] = 0 /\ nonceKeys[n] # "pending"
    BY <2>1 DEF OneUse
  <2>4. userTokens' \subseteq UserToken /\ TokensPast'
    BY <2>1, <2>3, HandOutUserFacts DEF TokensPast
  <2>5. /\ loginAsUses' \in [LoginAsTokens -> Nat] /\ loginAsUses'[n] <= 1
        /\ \A k \in LoginAsTokens \ {n} : loginAsUses'[k] = loginAsUses[k]
    BY <2>1, <2>3
  <2> QED BY <2>1, <2>2, <2>3, <2>4, <2>5 DEF OneUse, LoginAsOnce, UsersGrow
<1>6. ASSUME NEW n \in LoginAsTokens, ForgetLoginAs(n)
      PROVE  UserInv' /\ UsersGrow
  <2>1. /\ nonceKeys' = [nonceKeys EXCEPT ![n] = "Absent"]
        /\ UNCHANGED << tokenId, loginAs, userTokens, loginAsUses >>
    BY <1>6 DEF ForgetLoginAs
  <2> QED BY <2>1 DEF OneUse, LoginAsOnce, TokensPast, UsersGrow
<1> QED BY <1>1, <1>2, <1>3, <1>4, <1>5, <1>6 DEF UserStep

\* The same, over the steps of managers.
LEMMA SameKeepsUserInv ==
    ASSUME UserInv, UNCHANGED userVars
    PROVE  UserInv' /\ UsersGrow
BY DEF userVars, UserInv, UserTypes, OneUse, LoginAsOnce, TokensPast, UsersGrow

\* The users' invariant holds at the start.
LEMMA InitUserInv ==
    ASSUME UserInit
    PROVE  UserInv
BY DEF UserInit, UserInv, UserTypes, LoginAsToken, OneUse, LoginAsOnce, TokensPast

-----------------------------------------------------------------------------
(* Theorems.                                                               *)

\* Both invariants and both action properties, over every step.
LEMMA StepKeepsInv ==
    ASSUME ManagerInv, UserInv, [Next]_vars
    PROVE  ManagerInv' /\ UserInv' /\ SetOnce /\ UsersGrow
<1>1. now \in Nat /\ sessions \subseteq Session
  BY Clock DEF ManagerInv, ManagerTypes
<1>2. CASE (ManagerStep \/ Tick) /\ UNCHANGED userVars
  BY <1>2, ManagerKeepsInv, SameKeepsUserInv
<1>3. CASE UserStep /\ UNCHANGED managerVars
  BY <1>1, <1>3, UserKeepsInv, SameKeepsInv
<1>4. CASE UNCHANGED vars
  <2>1. UNCHANGED managerVars /\ UNCHANGED userVars
    BY <1>4 DEF vars
  <2> QED BY <2>1, SameKeepsInv, SameKeepsUserInv
<1> QED BY <1>2, <1>3, <1>4 DEF Next

\* The inductive invariants hold in every state.
THEOREM AccessInv == Spec => [](ManagerInv /\ UserInv)
<1>1. Init => ManagerInv /\ UserInv
  BY InitManagerInv, InitUserInv DEF Init
<1>2. (ManagerInv /\ UserInv) /\ [Next]_vars => (ManagerInv /\ UserInv)'
  BY StepKeepsInv
<1> QED BY <1>1, <1>2, PTL DEF Spec

\* The types of the variables.
THEOREM AccessTypes == Spec => []TypeOK
<1>1. ManagerInv /\ UserInv => TypeOK
  BY DEF ManagerInv, ManagerTypes, UserInv, UserTypes, TypeOK
<1> QED BY <1>1, AccessInv, PTL

\* Nobody is logged in without a secret, and nobody by a secret that is not
\* stored.
THEOREM AccessSessionsHaveSecret == Spec => []SessionsHaveSecret
<1>1. ManagerInv => SessionsHaveSecret
  BY DEF ManagerInv
<1> QED BY <1>1, AccessInv, PTL

\* A login token leads to no more sessions than one and as many as its nonce was
\* forgotten, and never to a second setup.
THEOREM AccessOneSession == Spec => []OneSessionPerLogin
<1>1. ManagerInv => OneSessionPerLogin
  <2> SUFFICES ASSUME ManagerInv, NEW n \in Logins
               PROVE  uses[n] <= IF logins[n].setup THEN 1 ELSE 1 + forgotten[n]
    BY DEF OneSessionPerLogin
  <2>1. /\ checked[n] \in Nat /\ uses[n] \in Nat /\ forgotten[n] \in Nat
        /\ checked[n] + uses[n] <= Passes(n)
        /\ Passes(n) > 0 => logins[n].pc = "Token"
    BY DEF ManagerInv, ManagerTypes, Counted
  <2>2. CASE ~logins[n].setup
    BY <2>1, <2>2 DEF Passes
  <2>3. CASE logins[n].setup
    <3>1. CASE logins[n].pc # "New"
      BY <2>3, <3>1 DEF ManagerInv, TokensFit
    <3>2. CASE logins[n].pc = "New"
      <4>1. Passes(n) \in Nat /\ ~(Passes(n) > 0)
        BY <2>1, <3>2 DEF Passes
      <4> QED BY <2>1, <2>3, <4>1
    <3> QED BY <3>1, <3>2
  <2> QED BY <2>2, <2>3
<1> QED BY <1>1, AccessInv, PTL

\* Sudo mode ends SudoTime after the last right code.
THEOREM AccessSudo == Spec => []SudoNeedsCode
<1>1. ManagerInv => SudoNeedsCode
  BY DEF ManagerInv
<1> QED BY <1>1, AccessInv, PTL

\* A secret is never replaced.
THEOREM AccessSecretSetOnce == Spec => SecretSetOnce
<1>1. ManagerInv /\ UserInv /\ [Next]_vars =>
          [\A m \in Managers : secret[m] # NoSecret => secret'[m] = secret[m]]_vars
  BY StepKeepsInv DEF SetOnce
<1> QED BY <1>1, AccessInv, PTL DEF Spec, SecretSetOnce

\* A LoginAsToken leads to one session.
THEOREM AccessLoginAsOnce == Spec => []LoginAsOnce
<1>1. UserInv => LoginAsOnce
  BY DEF UserInv
<1> QED BY <1>1, AccessInv, PTL

\* The clock does not go back, nor do the ids of users.
LEMMA NowGrows ==
    ASSUME ManagerInv, [Next]_vars
    PROVE  now \in Nat /\ now' \in Nat /\ now <= now'
<1>1. now \in Nat
  BY Clock DEF ManagerInv
<1>2. now' = now \/ now' = now + 1
  BY DEF Next, ManagerStep, StartLogin, HandOut, PreVerify, EndSetup, EndLogin, ForgetNonce,
     AcquireSudo, CreateManager, Tick, managerVars, vars
<1> QED BY <1>1, <1>2

\* A token that is no longer good stays so.
THEOREM AccessRevokedForGood == Spec => RevokedForGood
<1>1. ManagerInv /\ UserInv /\ [Next]_vars =>
          [\A t \in userTokens : ~UserGood(t) => ~UserGood(t)']_vars
  <2> SUFFICES ASSUME ManagerInv, UserInv, [Next]_vars, NEW t \in userTokens, ~UserGood(t)
               PROVE  ~UserGood(t)'
    OBVIOUS
  <2>1. now \in Nat /\ now' \in Nat /\ now <= now'
    BY NowGrows
  <2>2. t.uid \in Users /\ t.tokenId \in Nat /\ t.expired \in Nat
    BY DEF UserInv, UserTypes, UserToken
  <2>3. t.tokenId <= tokenId[t.uid] /\ tokenId[t.uid] <= tokenId'[t.uid]
        /\ tokenId[t.uid] \in Nat /\ tokenId'[t.uid] \in Nat
    BY <2>2, StepKeepsInv DEF UserInv, UserTypes, TokensPast, UsersGrow
  <2> QED BY <2>1, <2>2, <2>3 DEF UserGood
<1> QED BY <1>1, AccessInv, PTL DEF Spec, RevokedForGood
==============================================================================
