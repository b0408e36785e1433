------------------------------ MODULE Sessions ------------------------------
(***************************************************************************)
(* Accounts and sessions (server/src/services/auth.service.ts) of the user  *)
(* of one e-mail address, as any number of requests on it overlap.  Every   *)
(* action is one await of a handler: what a handler has read stays in its   *)
(* locals while others write.                                               *)
(*                                                                          *)
(* A password is the number of its version: 0 before registration, 1 as     *)
(* registered, one more with every reset.  A refresh token is the session   *)
(* whose row holds its hash.  A wrong password, an unknown address and a    *)
(* used or expired token are answered without a write and are no steps.     *)
(***************************************************************************)
EXTENDS Naturals, FiniteSets

CONSTANTS
    Requests,      \* requests in progress at once
    Sessions,      \* bound: rows of the table sessions
    Tokens,        \* bound: rows of the table tokens
    None,          \* no session and no token
    MaxPasswords   \* bound: versions of the password

ASSUME RequestsAssumption == IsFiniteSet(Requests) /\ IsFiniteSet(Sessions)
ASSUME NoneAssumption == None \notin Sessions \cup Tokens
ASSUME PasswordsAssumption == MaxPasswords \in Nat \ {0}

VARIABLES
    password,        \* users.passwordHash: the current version, 0 without a row
    session,         \* [Sessions -> status]: "OVER" when revokedAt is set or expiresAt past
    authenticated,   \* history: the version of the password a live session was opened with
    token, purpose,  \* [Tokens -> status]: "SPENT" when used or expired; tokens.type
    uses,            \* history: how often a token was redeemed
    pc,              \* each request's next await
    checked,         \* the version of the password a request has verified
    holds            \* the session or the token a request has read

sessionVars == <<session, authenticated>>
tokenVars   == <<token, purpose, uses>>
localVars   == <<pc, checked, holds>>
serverVars  == <<password, sessionVars, tokenVars, localVars>>

Passwords == 0..MaxPasswords
Steps == {"idle", "createUser", "registerSession", "verifyToken", "loginSession", "touch",
          "resetToken", "verify", "reset"}

SessionsTypeOK ==
    /\ password \in Passwords
    /\ session \in [Sessions -> {"ABSENT", "LIVE", "OVER"}]
    /\ authenticated \in [Sessions -> Passwords]
    /\ token \in [Tokens -> {"ABSENT", "UNUSED", "SPENT"}]
    /\ purpose \in [Tokens -> {"EMAIL_VERIFY", "PASSWORD_RESET"}]
    /\ uses \in [Tokens -> Nat]
    /\ pc \in [Requests -> Steps]
    /\ checked \in [Requests -> Passwords]
    /\ holds \in [Requests -> Sessions \cup Tokens \cup {None}]

Init ==
    /\ password = 0
    /\ session = [s \in Sessions |-> "ABSENT"]
    /\ authenticated = [s \in Sessions |-> 0]
    /\ token = [t \in Tokens |-> "ABSENT"]
    /\ purpose = [t \in Tokens |-> "EMAIL_VERIFY"]
    /\ uses = [t \in Tokens |-> 0]
    /\ pc = [r \in Requests |-> "idle"]
    /\ checked = [r \in Requests |-> 0]
    /\ holds = [r \in Requests |-> None]

\* The handler waits for its next call; `version` and `row` are its locals.
Await(r, next, version, row) ==
    /\ pc' = [pc EXCEPT ![r] = next]
    /\ checked' = [checked EXCEPT ![r] = version]
    /\ holds' = [holds EXCEPT ![r] = row]

\* The handler has answered or thrown; its locals are gone.
Answer(r) == Await(r, "idle", 0, None)

-----------------------------------------------------------------------------
\* register: no row with this address yet.  (Hashing takes a while.)
Register(r) ==
    /\ pc[r] = "idle"
    /\ password = 0
    /\ Await(r, "createUser", 0, None)
    /\ UNCHANGED <<password, sessionVars, tokenVars>>

\* user.create; the address is unique, so the slower of two requests throws.
CreateUser(r) ==
    /\ pc[r] = "createUser"
    /\ IF password = 0
       THEN password' = 1 /\ Await(r, "registerSession", 1, None)
       ELSE Answer(r) /\ UNCHANGED password
    /\ UNCHANGED <<sessionVars, tokenVars>>

\* login reads the row and compares the password with the hash it read.
Login(r) ==
    /\ pc[r] = "idle"
    /\ password # 0
    /\ Await(r, "loginSession", password, None)
    /\ UNCHANGED <<password, sessionVars, tokenVars>>

\* createSession, for a login (which is over then) or a registration.  Rows are
\* alike: the new one is the first that is free.
CreateSession(r, s) ==
    /\ pc[r] \in {"registerSession", "loginSession"}
    /\ session[s] = "ABSENT" /\ s = CHOOSE new \in Sessions : session[new] = "ABSENT"
    /\ session' = [session EXCEPT ![s] = "LIVE"]
    /\ authenticated' = [authenticated EXCEPT ![s] = checked[r]]
    /\ IF pc[r] = "registerSession" THEN Await(r, "verifyToken", 0, s) ELSE Answer(r)
    /\ UNCHANGED <<password, tokenVars>>

\* token.create, at the end of a registration or of forgotPassword; sendMail
\* always returns.
CreateToken(r, t) ==
    /\ pc[r] \in {"verifyToken", "resetToken"}
    /\ token[t] = "ABSENT"
    /\ token' = [token EXCEPT ![t] = "UNUSED"]
    /\ purpose' = [purpose EXCEPT
           ![t] = IF pc[r] = "verifyToken" THEN "EMAIL_VERIFY" ELSE "PASSWORD_RESET"]
    /\ Answer(r)
    /\ UNCHANGED <<password, sessionVars, uses>>

\* refresh: the row is there, neither revoked nor expired, and has this hash.
Refresh(r, s) ==
    /\ pc[r] = "idle"
    /\ session[s] = "LIVE"
    /\ Await(r, "touch", 0, s)
    /\ UNCHANGED <<password, sessionVars, tokenVars>>

\* Mutant: the whole row is written back as it was read.
TouchWritesRow(r) ==
    /\ pc[r] = "touch"
    /\ session' = [session EXCEPT ![holds[r]] = "LIVE"]
    /\ Answer(r)
    /\ UNCHANGED <<password, authenticated, tokenVars>>

\* lastUsedAt is written and a new access token returned, whether the session
\* has been revoked since or not.  The refresh token returned with it has no
\* row: the session keeps the one it was created with.
Touch(r) ==
    /\ pc[r] = "touch"
    /\ Answer(r)
    /\ UNCHANGED <<password, sessionVars, tokenVars>>

\* Every session of S that there is ends.
End(S) ==
    /\ session' = [s \in Sessions |->
           IF s \in S /\ session[s] # "ABSENT" THEN "OVER" ELSE session[s]]
    /\ authenticated' = [s \in Sessions |-> IF s \in S THEN 0 ELSE authenticated[s]]

\* logout, one update whatever the row said; or expiresAt passes.
Logout(s) ==
    /\ session[s] # "ABSENT"
    /\ End({s})
    /\ UNCHANGED <<password, tokenVars, localVars>>

\* forgotPassword finds the user.
ForgotPassword(r) ==
    /\ pc[r] = "idle"
    /\ password # 0
    /\ Await(r, "resetToken", 0, None)
    /\ UNCHANGED <<password, sessionVars, tokenVars>>

\* verifyEmail and resetPassword read the token and reject one that is of
\* the other type, used or expired.
ReadToken(r, t) ==
    /\ pc[r] = "idle"
    /\ token[t] = "UNUSED"
    /\ Await(r, IF purpose[t] = "EMAIL_VERIFY" THEN "verify" ELSE "reset", 0, t)
    /\ UNCHANGED <<password, sessionVars, tokenVars>>

\* Mutant: usedAt is not written.
RedeemForgets(r) ==
    /\ uses' = [uses EXCEPT ![holds[r]] = @ + 1]
    /\ Answer(r)
    /\ UNCHANGED <<purpose, token>>

\* The token in hand is marked used, whether it has been used since or not.
Redeem(r) ==
    /\ token' = [token EXCEPT ![holds[r]] = "SPENT"]
    /\ uses' = [uses EXCEPT ![holds[r]] = @ + 1]
    /\ Answer(r)
    /\ UNCHANGED purpose

\* The transaction of verifyEmail; users.emailVerified is shown and decides
\* nothing.
VerifyEmail(r) ==
    /\ pc[r] = "verify"
    /\ Redeem(r)
    /\ UNCHANGED <<password, sessionVars>>

\* Mutant: the sessions stay.
ResetKeepsSessions(r) ==
    /\ pc[r] = "reset"
    /\ password < MaxPasswords
    /\ password' = password + 1
    /\ Redeem(r)
    /\ UNCHANGED sessionVars

\* The transaction of resetPassword: the new hash, the token, and every
\* session there is.
ResetPassword(r) ==
    /\ pc[r] = "reset"
    /\ password < MaxPasswords
    /\ password' = password + 1
    /\ End(Sessions)
    /\ Redeem(r)

\* A call of the handler throws, or the process dies: what was written stays.
Abort(r) ==
    /\ pc[r] # "idle"
    /\ Answer(r)
    /\ UNCHANGED <<password, sessionVars, tokenVars>>

\* Mutant: an expired token has a status nobody tests for.
TokenExpiresUnnoticed(t) ==
    /\ token[t] = "UNUSED"
    /\ token' = [token EXCEPT ![t] = "EXPIRED"]
    /\ UNCHANGED <<password, sessionVars, purpose, uses, localVars>>

\* expiresAt passes.
TokenExpires(t) ==
    /\ token[t] = "UNUSED"
    /\ token' = [token EXCEPT ![t] = "SPENT"]
    /\ UNCHANGED <<password, sessionVars, purpose, uses, localVars>>

-----------------------------------------------------------------------------
\* The endpoints that end in one handler each: a request is taken up, or
\* makes its next step.  (The first operator is all of them but refresh.)
AuthWrites(r) ==
    \/ Register(r) \/ CreateUser(r) \/ Login(r) \/ ForgotPassword(r)
    \/ \E s \in Sessions : CreateSession(r, s)
    \/ \E t \in Tokens : CreateToken(r, t) \/ ReadToken(r, t)
    \/ VerifyEmail(r) \/ ResetPassword(r)

AuthRouter(r) == AuthWrites(r) \/ (\E s \in Sessions : Refresh(r, s)) \/ Touch(r)

Next ==
    \/ \E r \in Requests : AuthRouter(r) \/ Abort(r)
    \/ \E s \in Sessions : Logout(s)
    \/ \E t \in Tokens : TokenExpires(t)

Spec == Init /\ [][Next]_serverVars

-----------------------------------------------------------------------------
(***************************************************************************)
(* Properties.                                                              *)
(***************************************************************************)

\* Live sessions that a password since replaced has opened, and requests that
\* have verified such a password and will open one.
Outdated == {s \in Sessions : session[s] = "LIVE" /\ authenticated[s] < password}
Latecomers == {r \in Requests : pc[r] \in {"registerSession", "loginSession"}
                                /\ checked[r] < password}

\* "Revoke all existing sessions on password reset." (resetPassword): a login
\* that has verified the old password when the reset commits opens its session
\* after it, and nothing ends that one.  But a session like this takes a request that
\* was in progress beside the reset: those alive and those to come are fewer than the
\* requests in progress at once, however many resets and logins there have been.
OutdatedSessionsBounded ==
    Outdated # {} \/ Latecomers # {} =>
        Cardinality(Outdated) + Cardinality(Latecomers) < Cardinality(Requests)

\* Requests that have found a token unused and are about to redeem it.
Redeeming(t) == {r \in Requests : pc[r] \in {"verify", "reset"} /\ holds[r] = t}

\* usedAt is tested before the transaction that sets it, so requests that
\* overlap can redeem one token together.  No others can: a token is redeemed
\* no more often than there are requests in progress at once, and with one
\* request at a time only once.
TokenUsesBounded ==
    \A t \in Tokens : uses[t] + Cardinality(Redeeming(t)) <= Cardinality(Requests)

\* A session that was revoked or has expired is never valid again: not through
\* a refresh that had read it while it was live, nor by anything else.
RevokedForGood ==
    [][\A s \in Sessions : session[s] = "OVER" => session'[s] = "OVER"]_serverVars
=============================================================================
