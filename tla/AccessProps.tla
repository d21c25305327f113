------------------------------ MODULE AccessProps ----------------------------
(***************************************************************************)
(* The properties of ManagerLogin and UserLogin.                            *)
(***************************************************************************)
EXTENDS UserLogin

Login == [pc : {"New", "Password", "Token"}, mid : Managers, rev : Nat,
          setup : BOOLEAN, expired : Nat]

LoginAsToken == [pc : {"New", "Token", "Checked"}, uid : Users \cup {NoUser},
                 expired : Nat]

\* The types of the variables.
TypeOK ==
    /\ now \in Time
    /\ managers \subseteq Managers
    /\ revision \in [Managers -> Nat]
    /\ secret \in [Managers -> Secrets]
    /\ logins \in [Logins -> Login]
    /\ usedNonces \subseteq Logins /\ forgotten \in [Logins -> Nat]
    /\ checked \in [Logins -> Nat] /\ uses \in [Logins -> Nat]
    /\ sessions \subseteq Session
    /\ confirmed \in [Managers -> Time]
    /\ tokenId \in [Users -> Nat]
    /\ loginAs \in [LoginAsTokens -> LoginAsToken]
    /\ nonceKeys \in [LoginAsTokens -> {"Absent", "pending", "used"}]
    /\ userTokens \subseteq UserToken
    /\ loginAsUses \in [LoginAsTokens -> Nat]

-----------------------------------------------------------------------------
(* Managers.                                                               *)

\* A manager's TOTP secret, once stored, is never replaced, however many logins
\* set one up at the same time: the revision in a login token admits only the
\* first (LoginToken::verify).
SecretSetOnce ==
    [][\A m \in Managers : secret[m] # NoSecret => secret'[m] = secret[m]]_vars

\* Whoever is logged in has a secret, and whoever logged in by setting one up
\* holds the very secret that is stored: of two setups at the same time, one
\* comes to nothing (end_setup).
SessionsHaveSecret ==
    \A s \in sessions :
        /\ secret[s.mid] # NoSecret
        /\ logins[s.login].setup => secret[s.mid] = s.login

\* A login token leads to one session, and to one more for each time Redis
\* forgets its nonce while the token lasts, however many second requests are
\* under way at once; a setup is not repeated even then (pre_verify,
\* LoginToken::verify).
OneSessionPerLogin ==
    \A n \in Logins :
        uses[n] <= IF logins[n].setup THEN 1 ELSE 1 + forgotten[n]

\* Sudo mode ends SudoTime after its manager has last shown a right code, at the
\* latest: a login alone does not bring it, and no old cookie keeps it alive
\* (login_finish_res, do_acquire_sudo).
SudoNeedsCode ==
    \A s \in sessions : s.sudoExpired <= confirmed[s.mid] + SudoTime

-----------------------------------------------------------------------------
(* Users.                                                                  *)

\* A LoginAsToken leads to one session, whatever Redis forgets: a nonce that is
\* not there counts as used (LoginAsToken::verify).
LoginAsOnce == \A n \in LoginAsTokens : loginAsUses[n] <= 1

\* A user's token that was revoked, or has expired, is never good again, however
\* logins and revocations interleave (do_revoke, UserToken::verify).
RevokedForGood ==
    [][\A t \in userTokens : ~UserGood(t) => ~UserGood(t)']_vars
==============================================================================
