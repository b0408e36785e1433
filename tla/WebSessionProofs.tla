-------------------------- MODULE WebSessionProofs --------------------------
(***************************************************************************)
(* For any number of requests, sessions, tokens and resets: how many        *)
(* sessions outlive a reset, how often a token is redeemed, and that a      *)
(* session that is over stays over.  The browser adds nothing to this: each  *)
(* of its steps is a step of the server or none.                            *)
(***************************************************************************)
EXTENDS WebSession, TLAPS, FiniteSetTheorems

\* Before the registration there is nothing to sign in to.
Unregistered ==
    password = 0 =>
        /\ \A s \in Sessions : session[s] = "ABSENT"
        /\ \A r \in Requests : pc[r] \notin {"registerSession", "loginSession"}

\* A token that can still be read has not been redeemed.
Fresh == \A t \in Tokens : token[t] # "SPENT" => uses[t] = 0

Base == SessionsTypeOK /\ Unregistered /\ Fresh

LEMMA BaseInit == Init => Base
  BY PasswordsAssumption
  DEF Init, Base, SessionsTypeOK, Unregistered, Fresh, Passwords, Steps

\* Where a handler goes next, one operator for all of them.
LEMMA AwaitLocals ==
    ASSUME SessionsTypeOK, NEW r \in Requests, NEW next \in Steps, NEW version \in Passwords,
           NEW held \in Sessions \cup Tokens \cup {None}, Await(r, next, version, held)
    PROVE  /\ pc' \in [Requests -> Steps] /\ checked' \in [Requests -> Passwords]
           /\ holds' \in [Requests -> Sessions \cup Tokens \cup {None}]
           /\ pc'[r] = next /\ checked'[r] = version /\ holds'[r] = held
           /\ \A q \in Requests \ {r} :
                 pc'[q] = pc[q] /\ checked'[q] = checked[q] /\ holds'[q] = holds[q]
  BY DEF Await, SessionsTypeOK

LEMMA AnswerLocals ==
    ASSUME SessionsTypeOK, NEW r \in Requests, Answer(r)
    PROVE  /\ pc' \in [Requests -> Steps] /\ checked' \in [Requests -> Passwords]
           /\ holds' \in [Requests -> Sessions \cup Tokens \cup {None}]
           /\ pc'[r] = "idle"
           /\ \A q \in Requests \ {r} :
                 pc'[q] = pc[q] /\ checked'[q] = checked[q] /\ holds'[q] = holds[q]
  BY AwaitLocals, PasswordsAssumption DEF Answer, Steps, Passwords

\* A step of a handler that only reads.
LEMMA BaseReads ==
    ASSUME Base, NEW r \in Requests,
           \/ Register(r) \/ Login(r) \/ ForgotPassword(r) \/ Touch(r) \/ Abort(r)
           \/ \E s \in Sessions : Refresh(r, s)
           \/ \E t \in Tokens : ReadToken(r, t)
    PROVE  Base'
<1>1. PICK next \in Steps, version \in Passwords, held \in Sessions \cup Tokens \cup {None} :
          /\ Await(r, next, version, held)
          /\ next \in {"registerSession", "loginSession"} => password # 0
  BY PasswordsAssumption
  DEF Base, SessionsTypeOK, Register, Login, ForgotPassword, Touch, Abort, Refresh, ReadToken,
      Answer, Steps, Passwords
<1>2. UNCHANGED <<password, sessionVars, tokenVars>>
  BY DEF Register, Login, ForgotPassword, Touch, Abort, Refresh, ReadToken
<1>3. SessionsTypeOK'
  BY <1>1, <1>2, AwaitLocals DEF Base, SessionsTypeOK, sessionVars, tokenVars
<1>4. Unregistered' /\ Fresh'
  BY <1>1, <1>2, AwaitLocals DEF Base, Unregistered, Fresh, sessionVars, tokenVars
<1> QED
  BY <1>3, <1>4 DEF Base

LEMMA RedeemTokens ==
    ASSUME Base, NEW r \in Requests, Redeem(r)
    PROVE  /\ token' \in [Tokens -> {"ABSENT", "UNUSED", "SPENT"}] /\ uses' \in [Tokens -> Nat]
           /\ purpose' = purpose /\ Fresh' /\ Answer(r)
           /\ \A t \in Tokens : uses'[t] = IF t = holds[r] THEN uses[t] + 1 ELSE uses[t]
<1>1. \A t \in Tokens : uses'[t] = IF t = holds[r] THEN uses[t] + 1 ELSE uses[t]
  BY DEF Redeem, Base, SessionsTypeOK
<1>2. \A t \in Tokens : token'[t] = IF t = holds[r] THEN "SPENT" ELSE token[t]
  BY DEF Redeem, Base, SessionsTypeOK
<1>3. Fresh'
  BY <1>1, <1>2 DEF Base, Fresh
<1>4. token' \in [Tokens -> {"ABSENT", "UNUSED", "SPENT"}]
  BY DEF Redeem, Base, SessionsTypeOK
<1>5. /\ uses' = [t \in Tokens |-> IF t = holds[r] THEN uses[t] + 1 ELSE uses[t]]
      /\ \A t \in Tokens : uses[t] \in Nat
  BY DEF Redeem, Base, SessionsTypeOK
<1>6. uses' \in [Tokens -> Nat]
  BY <1>5
<1> QED
  BY <1>1, <1>3, <1>4, <1>6 DEF Redeem

\* A step of a handler that writes.
LEMMA BaseWrites ==
    ASSUME Base, NEW r \in Requests,
           \/ CreateUser(r) \/ VerifyEmail(r) \/ ResetPassword(r)
           \/ \E s \in Sessions : CreateSession(r, s)
           \/ \E t \in Tokens : CreateToken(r, t)
    PROVE  Base'
<1>1. CASE CreateUser(r)
  <2>1. CASE password = 0
    <3>1. password' = 1 /\ Await(r, "registerSession", 1, None)
      BY <1>1, <2>1 DEF CreateUser
    <3>2. 1 \in Passwords /\ "registerSession" \in Steps
      BY PasswordsAssumption DEF Passwords, Steps
    <3> QED
      BY <1>1, <3>1, <3>2, AwaitLocals
      DEF CreateUser, Base, SessionsTypeOK, Unregistered, Fresh, sessionVars, tokenVars
  <2>2. CASE password # 0
    BY <1>1, <2>2, AnswerLocals
    DEF CreateUser, Base, SessionsTypeOK, Unregistered, Fresh, sessionVars, tokenVars
  <2> QED
    BY <2>1, <2>2
<1>2. CASE \E s \in Sessions : CreateSession(r, s)
  <2> PICK s \in Sessions : CreateSession(r, s)
    BY <1>2
  <2>1. password # 0
    BY DEF CreateSession, Base, Unregistered
  <2>2. /\ session' \in [Sessions -> {"ABSENT", "LIVE", "OVER"}]
        /\ authenticated' \in [Sessions -> Passwords]
    BY DEF CreateSession, Base, SessionsTypeOK
  <2>3. PICK next \in Steps, held \in Sessions \cup Tokens \cup {None} : Await(r, next, 0, held)
    BY DEF CreateSession, Answer, Steps
  <2>4. 0 \in Passwords
    BY PasswordsAssumption DEF Passwords
  <2> QED
    BY <2>1, <2>2, <2>3, <2>4, AwaitLocals
    DEF CreateSession, Base, SessionsTypeOK, Unregistered, Fresh, tokenVars
<1>3. CASE \E t \in Tokens : CreateToken(r, t)
  BY <1>3, AnswerLocals
  DEF CreateToken, Base, SessionsTypeOK, Unregistered, Fresh, sessionVars
<1>4. CASE VerifyEmail(r)
  BY <1>4, RedeemTokens, AnswerLocals
  DEF VerifyEmail, Base, SessionsTypeOK, Unregistered, sessionVars
<1>5. CASE ResetPassword(r)
  <2>1. password' \in Passwords /\ password' # 0
    BY <1>5, PasswordsAssumption DEF ResetPassword, Base, SessionsTypeOK, Passwords
  <2>2. /\ session' \in [Sessions -> {"ABSENT", "LIVE", "OVER"}]
        /\ authenticated' \in [Sessions -> Passwords]
    BY <1>5, PasswordsAssumption DEF ResetPassword, End, Base, SessionsTypeOK, Passwords
  <2> QED
    BY <1>5, <2>1, <2>2, RedeemTokens, AnswerLocals
    DEF ResetPassword, Base, SessionsTypeOK, Unregistered
<1> QED
  BY <1>1, <1>2, <1>3, <1>4, <1>5

LEMMA BaseNext == Base /\ [Next]_serverVars => Base'
<1> SUFFICES ASSUME Base, [Next]_serverVars PROVE Base'
  OBVIOUS
<1>1. CASE \E r \in Requests : AuthRouter(r) \/ Abort(r)
  BY <1>1, BaseReads, BaseWrites DEF AuthRouter, AuthWrites
<1>2. CASE \E s \in Sessions : Logout(s)
  BY <1>2, PasswordsAssumption
  DEF Logout, End, Base, SessionsTypeOK, Unregistered, Fresh, tokenVars, localVars, Passwords
<1>3. CASE \E t \in Tokens : TokenExpires(t)
  BY <1>3
  DEF TokenExpires, Base, SessionsTypeOK, Unregistered, Fresh, sessionVars, localVars
<1>4. CASE UNCHANGED serverVars
  BY <1>4
  DEF Base, SessionsTypeOK, Unregistered, Fresh, serverVars, sessionVars, tokenVars, localVars
<1> QED
  BY <1>1, <1>2, <1>3, <1>4 DEF Next

LEMMA BaseInvariant == Spec => []Base
<1> QED
  BY BaseInit, BaseNext, PTL DEF Spec

-----------------------------------------------------------------------------
\* What a step does to the uses of a token and to those about to use it: a
\* request joins them while there is no use, or leaves them, by a use or not.
LEMMA RedeemingStep ==
    ASSUME Base, [Next]_serverVars, NEW t \in Tokens
    PROVE  \/ uses'[t] = uses[t] /\ Redeeming(t)' \subseteq Redeeming(t)
           \/ uses'[t] = 0
           \/ \E r \in Redeeming(t) :
                 uses'[t] = uses[t] + 1 /\ Redeeming(t)' = Redeeming(t) \ {r}
<1>1. CASE \E r \in Requests : \/ Register(r) \/ Login(r) \/ ForgotPassword(r) \/ Touch(r)
                               \/ Abort(r) \/ CreateUser(r)
                               \/ \E s \in Sessions : CreateSession(r, s) \/ Refresh(r, s)
                               \/ \E u \in Tokens : CreateToken(r, u)
  <2> PICK r \in Requests :
          \/ Register(r) \/ Login(r) \/ ForgotPassword(r) \/ Touch(r)
          \/ Abort(r) \/ CreateUser(r)
          \/ \E s \in Sessions : CreateSession(r, s) \/ Refresh(r, s)
          \/ \E u \in Tokens : CreateToken(r, u)
    BY <1>1
  <2>1. PICK next, version, held : next \notin {"verify", "reset"} /\ Await(r, next, version, held)
    BY DEF Register, Login, ForgotPassword, Touch, Abort, CreateUser, CreateSession, Refresh,
           CreateToken, Answer
  <2>2. uses' = uses
    BY DEF Register, Login, ForgotPassword, Touch, Abort, CreateUser, CreateSession, Refresh,
           CreateToken, tokenVars
  <2> QED
    BY <2>1, <2>2 DEF Await, Redeeming, Base, SessionsTypeOK
<1>2. CASE \E r \in Requests, u \in Tokens : ReadToken(r, u)
  <2> PICK r \in Requests, u \in Tokens : ReadToken(r, u)
    BY <1>2
  <2>1. uses' = uses
    BY DEF ReadToken, tokenVars
  <2>2. CASE u = t
    BY <2>1, <2>2 DEF ReadToken, Base, Fresh
  <2>3. CASE u # t
    BY <2>1, <2>3 DEF ReadToken, Await, Redeeming, Base, SessionsTypeOK
  <2> QED
    BY <2>2, <2>3
<1>3. CASE \E r \in Requests : VerifyEmail(r) \/ ResetPassword(r)
  <2> PICK r \in Requests : pc[r] \in {"verify", "reset"} /\ Redeem(r)
    BY <1>3 DEF VerifyEmail, ResetPassword
  <2>1. uses'[t] = IF t = holds[r] THEN uses[t] + 1 ELSE uses[t]
    BY RedeemTokens
  <2>2. pc'[r] = "idle" /\ \A q \in Requests \ {r} : pc'[q] = pc[q] /\ holds'[q] = holds[q]
    BY RedeemTokens, AnswerLocals DEF Base
  <2>3. CASE t = holds[r]
    BY <2>1, <2>2, <2>3 DEF Redeeming
  <2>4. CASE t # holds[r]
    BY <2>1, <2>2, <2>4 DEF Redeeming
  <2> QED
    BY <2>3, <2>4
<1>4. CASE (\E s \in Sessions : Logout(s)) \/ (\E u \in Tokens : TokenExpires(u)) \/ UNCHANGED serverVars
  BY <1>4 DEF Logout, TokenExpires, serverVars, tokenVars, localVars, Redeeming
<1> QED
  BY <1>1, <1>2, <1>3, <1>4 DEF Next, AuthRouter, AuthWrites

LEMMA RedeemingSize ==
    ASSUME NEW t \in Tokens
    PROVE  /\ IsFiniteSet(Redeeming(t)) /\ Cardinality(Redeeming(t)) \in Nat
           /\ Cardinality(Redeeming(t)) <= Cardinality(Requests)
           /\ Cardinality(Requests) \in Nat
<1>1. Redeeming(t) \in SUBSET Requests
  BY DEF Redeeming
<1> QED
  BY <1>1, RequestsAssumption, FS_Subset, FS_CardinalityType

LEMMA UsesNext == Base /\ Base' /\ TokenUsesBounded /\ [Next]_serverVars => TokenUsesBounded'
<1> SUFFICES ASSUME Base, Base', TokenUsesBounded, [Next]_serverVars, NEW t \in Tokens
             PROVE  uses'[t] + Cardinality(Redeeming(t)') <= Cardinality(Requests)
  BY DEF TokenUsesBounded
<1>1. uses[t] \in Nat /\ uses[t] + Cardinality(Redeeming(t)) <= Cardinality(Requests)
  BY DEF Base, SessionsTypeOK, TokenUsesBounded
<1>2. Redeeming(t)' \in SUBSET Requests
  BY DEF Redeeming
<1>3. /\ Cardinality(Redeeming(t)') \in Nat
      /\ Cardinality(Redeeming(t)') <= Cardinality(Requests)
      /\ Cardinality(Requests) \in Nat
  BY <1>2, RequestsAssumption, FS_Subset, FS_CardinalityType
<1>4. CASE uses'[t] = uses[t] /\ Redeeming(t)' \subseteq Redeeming(t)
  <2>1. Cardinality(Redeeming(t)') <= Cardinality(Redeeming(t))
    BY <1>4, RedeemingSize, FS_Subset
  <2> QED
    BY <1>1, <1>3, <1>4, <2>1, RedeemingSize
<1>5. CASE uses'[t] = 0
  BY <1>3, <1>5
<1>6. CASE \E r \in Redeeming(t) : uses'[t] = uses[t] + 1 /\ Redeeming(t)' = Redeeming(t) \ {r}
  <2>1. Cardinality(Redeeming(t)') = Cardinality(Redeeming(t)) - 1
    BY <1>6, RedeemingSize, FS_RemoveElement
  <2> QED
    BY <1>1, <1>6, <2>1, RedeemingSize
<1> QED
  BY <1>4, <1>5, <1>6, RedeemingStep

\* Whatever overlaps, a token (of an e-mail or of a reset) is redeemed no more
\* often than there are requests in progress at once.
THEOREM TokenUses == Spec => []TokenUsesBounded
<1>1. Init => TokenUsesBounded
  <2> SUFFICES ASSUME Init, NEW t \in Tokens
               PROVE  uses[t] + Cardinality(Redeeming(t)) <= Cardinality(Requests)
    BY DEF TokenUsesBounded
  <2>1. uses[t] = 0
    BY DEF Init
  <2> QED
    BY <2>1, RedeemingSize
<1> QED
  BY <1>1, BaseInvariant, UsesNext, PTL DEF Spec

-----------------------------------------------------------------------------
\* What a step does to the outdated sessions and to those to come: nothing is
\* added; or a latecomer opens its session; or the password changes, which
\* leaves no session, and takes a request that has just answered.
LEMMA OutdatedStep ==
    ASSUME Base, [Next]_serverVars
    PROVE  \/ Outdated' \subseteq Outdated /\ Latecomers' \subseteq Latecomers
           \/ \E r \in Latecomers, s \in Sessions \ Outdated :
                 Outdated' = Outdated \cup {s} /\ Latecomers' = Latecomers \ {r}
           \/ Outdated' = {} /\ \E r \in Requests : Latecomers' \subseteq Requests \ {r}
<1> USE DEF Outdated, Latecomers
<1>1. CASE \E r \in Requests : \/ Register(r) \/ ForgotPassword(r) \/ Touch(r) \/ Abort(r)
                               \/ VerifyEmail(r)
                               \/ \E s \in Sessions : Refresh(r, s)
                               \/ \E t \in Tokens : CreateToken(r, t) \/ ReadToken(r, t)
  <2> PICK r \in Requests : \/ Register(r) \/ ForgotPassword(r) \/ Touch(r) \/ Abort(r)
                            \/ VerifyEmail(r)
                            \/ \E s \in Sessions : Refresh(r, s)
                            \/ \E t \in Tokens : CreateToken(r, t) \/ ReadToken(r, t)
    BY <1>1
  <2>1. PICK next, version, held :
           next \notin {"registerSession", "loginSession"} /\ Await(r, next, version, held)
    BY DEF Register, ForgotPassword, Touch, Abort, VerifyEmail, Redeem, Refresh, CreateToken,
           ReadToken, Answer
  <2>2. UNCHANGED <<password, session, authenticated>>
    BY DEF Register, ForgotPassword, Touch, Abort, VerifyEmail, Refresh, CreateToken,
           ReadToken, sessionVars
  <2> QED
    BY <2>1, <2>2 DEF Await, Base, SessionsTypeOK
<1>2. CASE \E r \in Requests : Login(r)
  BY <1>2 DEF Login, Await, sessionVars, Base, SessionsTypeOK, Passwords
<1>3. CASE \E r \in Requests : CreateUser(r)
  <2> PICK r \in Requests : CreateUser(r)
    BY <1>3
  <2>1. CASE password = 0
    <3>1. Outdated' = {}
      BY <2>1 DEF CreateUser, sessionVars, Base, Unregistered
    <3>2. r \notin Latecomers'
      BY <2>1 DEF CreateUser, Await, Base, SessionsTypeOK
    <3> QED
      BY <3>1, <3>2
  <2>2. CASE password # 0
    BY <2>2 DEF CreateUser, Answer, Await, sessionVars, Base, SessionsTypeOK
  <2> QED
    BY <2>1, <2>2
<1>4. CASE \E r \in Requests, s \in Sessions : CreateSession(r, s)
  <2> PICK r \in Requests, s \in Sessions : CreateSession(r, s)
    BY <1>4
  <2>1. PICK next, held :
           next \notin {"registerSession", "loginSession"} /\ Await(r, next, 0, held)
    BY DEF CreateSession, Answer
  <2>2. /\ password' = password /\ session[s] = "ABSENT"
        /\ session'[s] = "LIVE" /\ authenticated'[s] = checked[r]
        /\ \A x \in Sessions \ {s} : session'[x] = session[x] /\ authenticated'[x] = authenticated[x]
    BY DEF CreateSession, Base, SessionsTypeOK
  <2>3. Latecomers' = Latecomers \ {r}
    BY <2>1, <2>2 DEF Await, Base, SessionsTypeOK
  <2>4. CASE checked[r] < password
    <3>1. r \in Latecomers
      BY <2>4 DEF CreateSession
    <3>2. Outdated' = Outdated \cup {s}
      BY <2>2, <2>4
    <3> QED
      BY <2>2, <2>3, <3>1, <3>2
  <2>5. CASE ~(checked[r] < password)
    BY <2>2, <2>3, <2>5
  <2> QED
    BY <2>4, <2>5
<1>5. CASE \E r \in Requests : ResetPassword(r)
  <2> PICK r \in Requests : ResetPassword(r)
    BY <1>5
  <2>1. Outdated' = {}
    BY DEF ResetPassword, End, Base, SessionsTypeOK
  <2>2. r \notin Latecomers'
    BY RedeemTokens, AnswerLocals DEF ResetPassword, Base
  <2> QED
    BY <2>1, <2>2
<1>6. CASE (\E s \in Sessions : Logout(s)) \/ (\E t \in Tokens : TokenExpires(t)) \/ UNCHANGED serverVars
  BY <1>6 DEF Logout, End, TokenExpires, serverVars, sessionVars, localVars, Base, SessionsTypeOK
<1> QED
  BY <1>1, <1>2, <1>3, <1>4, <1>5, <1>6 DEF Next, AuthRouter, AuthWrites

LEMMA OutdatedSizes ==
    /\ IsFiniteSet(Outdated) /\ Cardinality(Outdated) \in Nat
    /\ IsFiniteSet(Latecomers) /\ Cardinality(Latecomers) \in Nat
    /\ Cardinality(Requests) \in Nat
<1>1. Outdated \in SUBSET Sessions /\ Latecomers \in SUBSET Requests
  BY DEF Outdated, Latecomers
<1> QED
  BY <1>1, RequestsAssumption, FS_Subset, FS_CardinalityType

LEMMA OutdatedSizesNext ==
    /\ IsFiniteSet(Outdated') /\ Cardinality(Outdated') \in Nat
    /\ IsFiniteSet(Latecomers') /\ Cardinality(Latecomers') \in Nat
<1>1. Outdated' \in SUBSET Sessions /\ Latecomers' \in SUBSET Requests
  BY DEF Outdated, Latecomers
<1> QED
  BY <1>1, RequestsAssumption, FS_Subset, FS_CardinalityType

LEMMA OutdatedNext ==
    Base /\ OutdatedSessionsBounded /\ [Next]_serverVars => OutdatedSessionsBounded'
<1> SUFFICES ASSUME Base, OutdatedSessionsBounded, [Next]_serverVars,
                    Outdated' # {} \/ Latecomers' # {}
             PROVE  Cardinality(Outdated') + Cardinality(Latecomers') < Cardinality(Requests)
  BY DEF OutdatedSessionsBounded
<1>1. CASE Outdated' \subseteq Outdated /\ Latecomers' \subseteq Latecomers
  <2>1. Cardinality(Outdated') <= Cardinality(Outdated)
    BY <1>1, OutdatedSizes, FS_Subset
  <2>2. Cardinality(Latecomers') <= Cardinality(Latecomers)
    BY <1>1, OutdatedSizes, FS_Subset
  <2>3. Cardinality(Outdated) + Cardinality(Latecomers) < Cardinality(Requests)
    BY <1>1 DEF OutdatedSessionsBounded
  <2> QED
    BY <2>1, <2>2, <2>3, OutdatedSizes, OutdatedSizesNext
<1>2. CASE \E r \in Latecomers, s \in Sessions \ Outdated :
              Outdated' = Outdated \cup {s} /\ Latecomers' = Latecomers \ {r}
  <2> PICK r \in Latecomers, s \in Sessions \ Outdated :
              Outdated' = Outdated \cup {s} /\ Latecomers' = Latecomers \ {r}
    BY <1>2
  <2>1. Cardinality(Outdated') = Cardinality(Outdated) + 1
    BY OutdatedSizes, FS_AddElement
  <2>2. Cardinality(Latecomers') = Cardinality(Latecomers) - 1
    BY OutdatedSizes, FS_RemoveElement
  <2>3. Cardinality(Outdated) + Cardinality(Latecomers) < Cardinality(Requests)
    BY DEF OutdatedSessionsBounded
  <2> QED
    BY <2>1, <2>2, <2>3, OutdatedSizes
<1>3. CASE Outdated' = {} /\ \E r \in Requests : Latecomers' \subseteq Requests \ {r}
  <2> PICK r \in Requests : Latecomers' \subseteq Requests \ {r}
    BY <1>3
  <2>1. /\ IsFiniteSet(Requests \ {r})
        /\ Cardinality(Requests \ {r}) = Cardinality(Requests) - 1
    BY RequestsAssumption, FS_RemoveElement
  <2>2. Cardinality(Latecomers') <= Cardinality(Requests \ {r})
    BY <2>1, FS_Subset
  <2>3. Cardinality(Outdated') = 0
    BY <1>3, FS_EmptySet
  <2> QED
    BY <2>1, <2>2, <2>3, OutdatedSizes, OutdatedSizesNext
<1> QED
  BY <1>1, <1>2, <1>3, OutdatedStep

\* However many logins and resets there are, the sessions a password since
\* replaced has opened or will open are fewer than the requests in progress at once.
THEOREM OutdatedBounded == Spec => []OutdatedSessionsBounded
<1>1. Init => OutdatedSessionsBounded
  BY DEF Init, OutdatedSessionsBounded, Outdated, Latecomers
<1> QED
  BY <1>1, BaseInvariant, OutdatedNext, PTL DEF Spec

\* A session that is over is never written LIVE again.
THEOREM Revoked == Spec => RevokedForGood
<1>1. Base /\ [Next]_serverVars =>
         [\A s \in Sessions : session[s] = "OVER" => session'[s] = "OVER"]_serverVars
  BY DEF Base, SessionsTypeOK, Next, AuthRouter, AuthWrites, Register, CreateUser, Login, ForgotPassword,
         CreateSession, Refresh, CreateToken, ReadToken, Touch, VerifyEmail, ResetPassword, Abort,
         Logout, TokenExpires, End, sessionVars, serverVars
<1> QED
  BY <1>1, BaseInvariant, PTL DEF Spec, RevokedForGood

-----------------------------------------------------------------------------
\* A refresh is posted with a token and served by one request, which has only to
\* answer; the sign-in page waits for a registration or a login, which has a
\* session by the time its token is created.
Handlers ==
    /\ refreshing = "posted" => posted \in Sessions
    /\ serving # None => refreshing = "posted" /\ pc[serving] = "touch"
    /\ signing # None =>
          /\ pc[signing] \in {"createUser", "registerSession", "verifyToken", "loginSession"}
          /\ pc[signing] = "verifyToken" => holds[signing] \in Sessions

WebBase == Base /\ TypeOK /\ Handlers

\* The browser's steps at the server are steps of the server.
LEMMA BrowserStep == TypeOK /\ Handlers /\ [WebNext]_vars => [Next]_serverVars
<1> SUFFICES ASSUME TypeOK, Handlers, [WebNext]_vars PROVE [Next]_serverVars
  OBVIOUS
<1>1. serving \in Requests \cup {None} /\ signing \in Requests \cup {None}
  BY DEF TypeOK
<1>2. CASE \E c \in Calls : Send(c) \/ CallAnswered(c)
  BY <1>2 DEF Send, CallAnswered, Succeeds, Fails, Unauthorized
<1>3. CASE \E C \in SUBSET Calls : SignedIn(C)
  BY <1>1, <1>3 DEF SignedIn, Next, AuthRouter, AuthWrites
<1>4. CASE RefreshStep
  <2>1. ASSUME NEW r \in Requests, RefreshServed(r) PROVE [Next]_serverVars
    BY <2>1 DEF RefreshServed, Handlers, Next, AuthRouter
  <2>2. CASE RefreshRefused \/ RefreshDone \/ RefreshFailed
    BY <1>1, <2>2 DEF RefreshRefused, RefreshDone, RefreshFailed, Next, AuthRouter
  <2> QED
    BY <1>4, <2>1, <2>2 DEF RefreshStep
<1>5. CASE SignInStep \/ \E r \in Requests : StartSignIn(r)
  BY <1>1, <1>5 DEF StartSignIn, SignInStep, Next, AuthRouter, AuthWrites
<1>6. CASE SignOut \/ Reload
  BY <1>1, <1>6 DEF SignOut, Reload, Next, AuthRouter
<1>7. CASE Elsewhere
  BY <1>7 DEF Elsewhere, Next, AuthRouter
<1>8. CASE UNCHANGED vars
  BY <1>8 DEF vars, serverVars
<1> QED
  BY <1>2, <1>3, <1>4, <1>5, <1>6, <1>7, <1>8 DEF WebNext

\* A step of one request leaves the locals of the others.
LEMMA OthersWait ==
    ASSUME Base, NEW r \in Requests, AuthRouter(r) \/ Abort(r), NEW q \in Requests \ {r}
    PROVE  pc'[q] = pc[q] /\ holds'[q] = holds[q]
<1>1. \E next, version, held : Await(r, next, version, held)
  BY DEF AuthRouter, AuthWrites, Abort, Register, CreateUser, Login, ForgotPassword, CreateSession,
         Refresh, CreateToken, ReadToken, Touch, VerifyEmail, ResetPassword, Redeem, Answer
<1> QED
  BY <1>1 DEF Await, Base, SessionsTypeOK

LEMMA HandlersNext == WebBase /\ [WebNext]_vars => Handlers'
<1> SUFFICES ASSUME WebBase, [WebNext]_vars PROVE Handlers'
  OBVIOUS
<1>1. Base /\ Handlers /\ TypeOK
  BY DEF WebBase
<1>2. /\ serving \in Requests \cup {None} /\ signing \in Requests \cup {None}
      /\ serving = signing => serving = None
      /\ None \notin Requests
  BY <1>1, HandlersAssumption DEF Handlers, TypeOK
<1>3. CASE \E c \in Calls : Send(c) \/ CallAnswered(c)
  <2> PICK c \in Calls : Send(c) \/ CallAnswered(c)
    BY <1>3
  <2>1. UNCHANGED <<serverVars, signing, serving>>
    BY DEF Send, CallAnswered, Succeeds, Fails, Unauthorized, refreshVars, pageVars
  <2>2. \/ UNCHANGED refreshVars
        \/ refreshing = "none" /\ stored # None /\ refreshing' = "posted" /\ posted' = stored
    BY DEF Send, CallAnswered, Succeeds, Fails, Unauthorized
  <2> QED
    BY <1>1, <2>1, <2>2 DEF Handlers, TypeOK, serverVars, localVars, refreshVars
<1>4. ASSUME NEW r \in Requests, RefreshServed(r) PROVE Handlers'
  <2>1. /\ UNCHANGED <<refreshing, posted, signing>> /\ serving' = r
        /\ pc[r] = "idle" /\ pc'[r] = "touch"
    BY <1>1, <1>4 DEF RefreshServed, Refresh, Await, pageVars, Base, SessionsTypeOK
  <2>2. \A q \in Requests \ {r} : pc'[q] = pc[q] /\ holds'[q] = holds[q]
    BY <1>1, <1>4, OthersWait DEF RefreshServed, AuthRouter, Handlers
  <2> QED
    BY <1>1, <1>2, <1>4, <2>1, <2>2 DEF Handlers, RefreshServed
<1>5. CASE RefreshRefused
  BY <1>1, <1>5 DEF RefreshRefused, Handlers, serverVars, localVars, pageVars
<1>6. CASE RefreshDone \/ RefreshFailed \/ Reload
  <2>1. serving' = None /\ refreshing' = "none" /\ signing' \in {signing, None}
    BY <1>6 DEF RefreshDone, RefreshFailed, Reload, Settled, pageVars
  <2>2. \/ UNCHANGED localVars
        \/ serving \in Requests /\ (AuthRouter(serving) \/ Abort(serving))
    BY <1>2, <1>6 DEF RefreshDone, RefreshFailed, Reload, AuthRouter, serverVars
  <2>3. signing # None => pc'[signing] = pc[signing] /\ holds'[signing] = holds[signing]
    BY <1>1, <1>2, <2>2, OthersWait DEF localVars
  <2> QED
    BY <1>1, <2>1, <2>3 DEF Handlers
<1>7. ASSUME NEW r \in Requests, StartSignIn(r) PROVE Handlers'
  <2>1. UNCHANGED refreshVars /\ signing' = r /\ pc[r] = "idle"
    BY <1>7 DEF StartSignIn, Login, Register
  <2>2. pc'[r] \in {"createUser", "loginSession"}
    BY <1>1, <1>7 DEF StartSignIn, Login, Register, Await, Base, SessionsTypeOK
  <2>3. \A q \in Requests \ {r} : pc'[q] = pc[q] /\ holds'[q] = holds[q]
    BY <1>1, <1>7, OthersWait DEF StartSignIn, AuthRouter, AuthWrites
  <2> QED
    BY <1>1, <1>2, <2>1, <2>2, <2>3 DEF Handlers, refreshVars
<1>8. CASE SignInStep
  <2>1. UNCHANGED refreshVars /\ signing \in Requests /\ signing' \in {signing, None}
    BY <1>2, <1>8 DEF SignInStep
  <2>2. \/ CreateUser(signing) \/ Abort(signing)
        \/ \E s \in Sessions : CreateSession(signing, s)
        \/ \E t \in Tokens : CreateToken(signing, t)
    BY <1>8 DEF SignInStep
  <2>3. \A q \in Requests \ {signing} : pc'[q] = pc[q] /\ holds'[q] = holds[q]
    BY <1>1, <2>1, <2>2, OthersWait DEF AuthRouter, AuthWrites
  <2>4. PICK next, version, held :
          /\ Await(signing, next, version, held)
          /\ next \in {"idle", "registerSession", "verifyToken"}
          /\ next = "verifyToken" => held \in Sessions
    BY <2>2 DEF CreateUser, Abort, CreateSession, CreateToken, Answer
  <2>5. pc'[signing] = next /\ holds'[signing] = held
    BY <1>1, <2>1, <2>4 DEF Await, Base, SessionsTypeOK
  <2>6. pc'[signing] = "idle" => signing' = None
    BY <1>8 DEF SignInStep
  <2> QED
    BY <1>1, <1>2, <2>1, <2>3, <2>4, <2>5, <2>6 DEF Handlers, refreshVars
<1>9. ASSUME NEW C \in SUBSET Calls, SignedIn(C) PROVE Handlers'
  <2>1. UNCHANGED refreshVars /\ signing \in Requests /\ signing' = None
    BY <1>2, <1>9 DEF SignedIn
  <2>2. \A q \in Requests \ {signing} : pc'[q] = pc[q] /\ holds'[q] = holds[q]
    BY <1>1, <1>9, <2>1, OthersWait DEF SignedIn, AuthRouter, AuthWrites
  <2> QED
    BY <1>1, <1>2, <2>1, <2>2 DEF Handlers, refreshVars
<1>10. CASE SignOut
  BY <1>1, <1>10 DEF SignOut, Handlers, refreshVars, serverVars, localVars
<1>11. CASE Elsewhere
  <2>1. UNCHANGED <<refreshing, posted, serving, signing>>
    BY <1>11 DEF Elsewhere, browserVars, refreshVars, pageVars
  <2>2. \A q \in {serving, signing} \cap Requests : pc'[q] = pc[q] /\ holds'[q] = holds[q]
    <3>1. CASE \E r \in Requests \ {serving, signing} : AuthWrites(r) \/ Abort(r)
      BY <1>1, <3>1, OthersWait DEF AuthRouter
    <3>2. CASE (\E s \in Sessions : Logout(s)) \/ (\E t \in Tokens : TokenExpires(t))
      BY <3>2 DEF Logout, TokenExpires, localVars
    <3> QED
      BY <1>11, <3>1, <3>2 DEF Elsewhere
  <2> QED
    BY <1>1, <1>2, <2>1, <2>2 DEF Handlers
<1>12. CASE UNCHANGED vars
  BY <1>1, <1>12 DEF Handlers, vars, serverVars, localVars, browserVars, refreshVars, pageVars
<1> QED
  BY <1>3, <1>4, <1>5, <1>6, <1>7, <1>8, <1>9, <1>10, <1>11, <1>12 DEF WebNext, RefreshStep

LEMMA CallsTyped ==
    ASSUME TypeOK, NEW C, NEW next \in {"idle", "sent", "waiting"}, NEW again \in BOOLEAN,
           Set(C, next, again)
    PROVE  call' \in [Calls -> {"idle", "sent", "waiting"}] /\ retried' \in [Calls -> BOOLEAN]
  BY DEF Set, TypeOK

LEMMA StoreTyped ==
    ASSUME NEW s \in Sessions \cup {None}, Store(s)
    PROVE  stored' \in Sessions \cup {None} /\ latest' \in Sessions \cup {None} /\ overtaken' \in BOOLEAN
  BY DEF Store

LEMMA RejectTyped ==
    ASSUME TypeOK, NEW C, Reject(C)
    PROVE  /\ stored' \in Sessions \cup {None}
           /\ latest' \in Sessions \cup {None} /\ overtaken' \in BOOLEAN
           /\ loading' \subseteq SUBSET Calls
           /\ call' \in [Calls -> {"idle", "sent", "waiting"}] /\ retried' \in [Calls -> BOOLEAN]
  BY CallsTyped, StoreTyped DEF Reject, TypeOK, pastVars

LEMMA WebTypeNext == WebBase /\ Base' /\ [WebNext]_vars => TypeOK'
<1> SUFFICES ASSUME WebBase, Base', [WebNext]_vars PROVE TypeOK'
  OBVIOUS
<1>1. Base /\ Handlers /\ TypeOK /\ SessionsTypeOK'
  BY DEF WebBase, Base
<1>2. ASSUME NEW c \in Calls, Send(c) \/ Succeeds(c) PROVE TypeOK'
  <2>1. call' \in [Calls -> {"idle", "sent", "waiting"}] /\ retried' \in [Calls -> BOOLEAN]
    BY <1>1, <1>2, CallsTyped DEF Send, Succeeds
  <2>2. loading' \subseteq SUBSET Calls
    <3>1. ASSUME Succeeds(c) PROVE \A M \in loading' : \E L \in loading : M = L \ {c}
      BY <3>1 DEF Succeeds
    <3>2. CASE Send(c)
      BY <1>1, <3>2 DEF TypeOK, Send, pageVars
    <3>3. CASE Succeeds(c)
      <4>1. \A L \in loading : L \in SUBSET Calls
        BY <1>1 DEF TypeOK
      <4> QED
        BY <3>1, <3>3, <4>1
    <3> QED
      BY <1>2, <3>2, <3>3
  <2>3. user' \in BOOLEAN
    BY <1>1, <1>2, Zenon DEF TypeOK, Send, Succeeds, pageVars
  <2> QED
    BY <1>1, <1>2, <2>1, <2>2, <2>3 DEF TypeOK, Send, Succeeds, refreshVars, pageVars, pastVars
<1>3. ASSUME NEW c \in Calls, Fails(c) PROVE TypeOK'
  BY <1>1, <1>3, RejectTyped DEF TypeOK, Fails, refreshVars
<1>4. ASSUME NEW c \in Calls, Unauthorized(c) PROVE TypeOK'
  <2>1. CASE refreshing = "none" /\ stored = None
    BY <1>1, <1>4, <2>1, RejectTyped DEF TypeOK, Unauthorized, refreshVars
  <2>2. CASE ~(refreshing = "none" /\ stored = None)
    <3>1. call' \in [Calls -> {"idle", "sent", "waiting"}] /\ retried' \in [Calls -> BOOLEAN]
      BY <1>1, <1>4, <2>2, CallsTyped DEF Unauthorized
    <3> QED
      BY <1>1, <1>4, <2>2, <3>1 DEF TypeOK, Unauthorized, refreshVars, pastVars
  <2> QED
    BY <2>1, <2>2
<1>5. CASE RefreshStep
  <2>1. ASSUME NEW r \in Requests, RefreshServed(r) PROVE TypeOK'
    BY <1>1, <2>1 DEF TypeOK, RefreshServed, callVars, pageVars, pastVars
  <2>2. CASE RefreshRefused
    BY <1>1, <2>2 DEF TypeOK, RefreshRefused, callVars, pageVars, pastVars
  <2>3. CASE RefreshDone
    <3>1. call' \in [Calls -> {"idle", "sent", "waiting"}] /\ retried' \in [Calls -> BOOLEAN]
      BY <1>1, <2>3, CallsTyped DEF RefreshDone
    <3> QED
      BY <1>1, <2>3, <3>1 DEF TypeOK, RefreshDone, Settled, pageVars, pastVars
  <2>4. CASE RefreshFailed
    <3>1. call' \in [Calls -> {"idle", "sent", "waiting"}] /\ retried' \in [Calls -> BOOLEAN]
      BY <1>1, <2>4, CallsTyped DEF RefreshFailed
    <3> QED
      BY <1>1, <2>4, <3>1 DEF TypeOK, RefreshFailed, Settled
  <2> QED
    BY <1>5, <2>1, <2>2, <2>3, <2>4 DEF RefreshStep
<1>6. CASE SignInStep \/ \E r \in Requests : StartSignIn(r)
  BY <1>1, <1>6 DEF TypeOK, StartSignIn, SignInStep, callVars, refreshVars, pastVars
<1>7. ASSUME NEW C \in SUBSET Calls, SignedIn(C) PROVE TypeOK'
  <2>1. PICK s \in Sessions : Store(s)
    BY <1>1, <1>7 DEF SignedIn, Handlers, CreateToken
  <2>2. call' \in [Calls -> {"idle", "sent", "waiting"}] /\ retried' \in [Calls -> BOOLEAN]
    BY <1>1, <1>7, CallsTyped DEF SignedIn
  <2>3. loading' \subseteq SUBSET Calls
    BY <1>1, <1>7 DEF TypeOK, SignedIn, LoadSession
  <2> QED
    BY <1>1, <1>7, <2>1, <2>2, <2>3, StoreTyped DEF TypeOK, SignedIn, refreshVars
<1>8. CASE SignOut
  BY <1>1, <1>8, StoreTyped DEF TypeOK, SignOut, callVars, refreshVars
<1>9. CASE Reload
  <2>1. loading' \subseteq SUBSET Calls /\ call' \in [Calls -> {"idle", "sent", "waiting"}]
    BY <1>9 DEF Reload
  <2>2. overtaken' \in BOOLEAN
    BY <1>9, Zenon DEF Reload
  <2> QED
    BY <1>1, <1>9, <2>1, <2>2 DEF TypeOK, Reload, Settled
<1>10. CASE Elsewhere \/ UNCHANGED vars
  BY <1>1, <1>10
  DEF TypeOK, Elsewhere, vars, browserVars, callVars, refreshVars, pageVars, pastVars
<1> QED
  BY <1>2, <1>3, <1>4, <1>5, <1>6, <1>7, <1>8, <1>9, <1>10 DEF WebNext, CallAnswered

LEMMA WebInvariant == WebSpec => []WebBase
<1>1. WebInit => WebBase
  <2>1. WebInit => Base
    BY BaseInit DEF WebInit
  <2>2. WebInit => TypeOK /\ Handlers
    BY <2>1 DEF WebInit, TypeOK, Handlers, Base
  <2> QED
    BY <2>1, <2>2 DEF WebBase
<1>2. WebBase /\ [WebNext]_vars => WebBase'
  BY BrowserStep, BaseNext, HandlersNext, WebTypeNext DEF WebBase
<1> QED
  BY <1>1, <1>2, PTL DEF WebSpec

\* Type correctness of the browser and the server.
THEOREM WebTypeCorrect == WebSpec => []TypeOK
  BY WebInvariant, PTL DEF WebBase

\* The browser and the server together implement the server: what is proved of
\* Spec holds whatever the browser does.
THEOREM BrowserImplementsServer == WebSpec => Spec
<1>1. WebInit => Init
  BY DEF WebInit
<1>2. WebBase /\ [WebNext]_vars => [Next]_serverVars
  BY BrowserStep DEF WebBase
<1> QED
  BY <1>1, <1>2, WebInvariant, PTL DEF WebSpec, Spec

-----------------------------------------------------------------------------
\* Whose tokens the store has, and which a refresh in flight will put back there,
\* unless the store was changed under it.
Owned ==
    /\ {} \notin loading
    /\ stored # None /\ ~overtaken => stored = latest /\ (user \/ loading # {})
    /\ refreshing = "posted" /\ ~overtaken => stored = posted

\* A loadSession that fails leaves no tokens; while none fails, none is over.
LEMMA OwnedReject ==
    ASSUME Owned, NEW C, Reject(C),
           (refreshing = "none" /\ stored = None) \/ user' = user,
           refreshing' = refreshing /\ posted' = posted
    PROVE  Owned'
<1>1. CASE loading' # loading
  BY <1>1 DEF Owned, Reject, Store
<1>2. CASE loading' = loading
  BY <1>2 DEF Owned, Reject, pastVars
<1> QED
  BY <1>1, <1>2

LEMMA OwnedNext == WebBase /\ Owned /\ [WebNext]_vars => Owned'
<1> SUFFICES ASSUME WebBase, Owned, [WebNext]_vars PROVE Owned'
  OBVIOUS
<1>1. TypeOK /\ Handlers
  BY DEF WebBase
<1>2. ASSUME NEW c \in Calls, Send(c) PROVE Owned'
  BY <1>2 DEF Owned, Send, refreshVars, pageVars, pastVars
<1>3. ASSUME NEW c \in Calls, Succeeds(c) PROVE Owned'
  <2>1. loading # {} /\ loading' = {} => user'
    <3> SUFFICES ASSUME NEW L \in loading, loading' = {} PROVE user'
      OBVIOUS
    <3>1. L \ {c} = {}
      BY <1>3 DEF Succeeds
    <3>2. CASE L = {c}
      BY <1>3, <3>2 DEF Succeeds
    <3> QED
      BY <3>1, <3>2 DEF Owned
  <2> QED
    BY <1>3, <2>1 DEF Owned, Succeeds, refreshVars, pastVars
<1>4. ASSUME NEW c \in Calls, Fails(c) PROVE Owned'
  BY <1>4, OwnedReject DEF Fails, refreshVars
<1>5. ASSUME NEW c \in Calls, Unauthorized(c) PROVE Owned'
  <2>1. CASE refreshing = "none" /\ stored = None
    BY <1>5, <2>1, OwnedReject DEF Unauthorized, refreshVars
  <2>2. CASE ~(refreshing = "none" /\ stored = None)
    BY <1>5, <2>2 DEF Owned, Unauthorized, refreshVars, pastVars
  <2> QED
    BY <2>1, <2>2
<1>6. ASSUME NEW r \in Requests, RefreshServed(r) PROVE Owned'
  BY <1>6 DEF Owned, RefreshServed, pageVars, pastVars
<1>7. CASE RefreshRefused
  BY <1>7 DEF Owned, RefreshRefused, pageVars, pastVars
<1>8. CASE RefreshDone
  BY <1>8 DEF Owned, RefreshDone, Settled, pageVars, pastVars
<1>9. CASE RefreshFailed
  BY <1>9 DEF Owned, RefreshFailed, Settled
<1>10. CASE SignInStep \/ \E r \in Requests : StartSignIn(r)
  BY <1>10 DEF Owned, SignInStep, StartSignIn, refreshVars, pastVars
<1>11. ASSUME NEW C \in SUBSET Calls, SignedIn(C) PROVE Owned'
  <2>1. {} \notin loading'
    BY <1>11, FS_EmptySet DEF Owned, SignedIn, LoadSession
  <2> QED
    BY <1>11, <2>1 DEF Owned, SignedIn, Store, refreshVars
<1>12. CASE SignOut
  BY <1>12 DEF Owned, SignOut, Store, refreshVars
<1>13. CASE Reload
  <2>1. CASE stored = None
    BY <1>13, <2>1 DEF Owned, Reload, Settled
  <2>2. CASE stored # None
    <3>1. loading' # {} /\ {} \notin loading'
      BY <1>13, <2>2, FS_EmptySet DEF Reload
    <3>2. stored' = stored /\ latest' = latest /\ refreshing' = "none"
      BY <1>13 DEF Reload, Settled
    <3>3. overtaken' <=> overtaken /\ stored # latest
      BY <1>13, <2>2, Zenon DEF Reload
    <3> QED
      BY <2>2, <3>1, <3>2, <3>3 DEF Owned
  <2> QED
    BY <2>1, <2>2
<1>14. CASE Elsewhere \/ UNCHANGED vars
  BY <1>14 DEF Owned, Elsewhere, vars, browserVars, refreshVars, pageVars, pastVars
<1> QED
  BY <1>2, <1>3, <1>4, <1>5, <1>6, <1>7, <1>8, <1>9, <1>10, <1>11, <1>12, <1>13, <1>14
  DEF WebNext, CallAnswered, RefreshStep

\* Unless the store was changed under a refresh in flight (a sign-out, another
\* sign-in, one call of loadSession failing while the other waits), it holds the
\* tokens of the latest sign-in, and only while somebody is signed in or the
\* session is being loaded.
THEOREM StoreOwned == WebSpec => []TokensBelong
<1>1. WebInit => Owned
  BY DEF WebInit, Owned
<1>2. Owned => TokensBelong
  BY DEF Owned, TokensBelong
<1> QED
  BY <1>1, <1>2, WebInvariant, OwnedNext, PTL DEF WebSpec

-----------------------------------------------------------------------------
\* The promise that calls share is there as long as one of them waits for it,
\* and is served for one of them.
SharedPromise ==
    /\ Waiting # {} => refreshing # "none"
    /\ refreshing = "posted" => Waiting # {}

LEMMA WaitingKept ==
    ASSUME SharedPromise, Waiting' = Waiting, refreshing' = refreshing
    PROVE  SharedPromise'
  BY DEF SharedPromise

LEMMA SharedNext == TypeOK /\ SharedPromise /\ [WebNext]_vars => SharedPromise'
<1> SUFFICES ASSUME TypeOK, SharedPromise, [WebNext]_vars PROVE SharedPromise'
  OBVIOUS
<1>1. ASSUME NEW c \in Calls, Send(c) \/ Succeeds(c) \/ Fails(c) PROVE SharedPromise'
  <2>1. call[c] # "waiting" /\ refreshing' = refreshing
    BY <1>1 DEF Send, Succeeds, Fails, refreshVars
  <2>2. Waiting' = Waiting
    BY <1>1, <2>1 DEF Send, Succeeds, Fails, Reject, Set, Waiting, TypeOK
  <2> QED
    BY <2>1, <2>2, WaitingKept
<1>2. ASSUME NEW c \in Calls, Unauthorized(c) PROVE SharedPromise'
  <2>1. CASE refreshing = "none" /\ stored = None
    <3>1. Waiting' = Waiting /\ refreshing' = refreshing
      BY <1>2, <2>1 DEF Unauthorized, Reject, Set, Waiting, TypeOK, refreshVars
    <3> QED
      BY <3>1, WaitingKept
  <2>2. CASE ~(refreshing = "none" /\ stored = None)
    <3>1. c \in Waiting' /\ refreshing' # "none"
      BY <1>2, <2>2 DEF Unauthorized, Set, Waiting, refreshVars
    <3> QED
      BY <3>1 DEF SharedPromise
  <2> QED
    BY <2>1, <2>2
<1>3. CASE RefreshRefused \/ \E r \in Requests : RefreshServed(r)
  BY <1>3 DEF SharedPromise, RefreshRefused, RefreshServed, Waiting, callVars
<1>4. CASE RefreshDone
  BY <1>4 DEF SharedPromise, RefreshDone, Settled, Set, Waiting
<1>5. CASE RefreshFailed
  BY <1>5 DEF SharedPromise, RefreshFailed, Settled, Set, Waiting
<1>6. CASE SignOut \/ SignInStep \/ \E r \in Requests : StartSignIn(r)
  BY <1>6 DEF SharedPromise, SignOut, SignInStep, StartSignIn, Waiting, callVars, refreshVars
<1>7. ASSUME NEW C \in SUBSET Calls, SignedIn(C) PROVE SharedPromise'
  <2>1. Waiting' = Waiting /\ refreshing' = refreshing
    BY <1>7 DEF SignedIn, Set, Waiting, TypeOK, refreshVars
  <2> QED
    BY <2>1, WaitingKept
<1>8. CASE Reload
  BY <1>8 DEF SharedPromise, Reload, Settled, Waiting
<1>9. CASE Elsewhere \/ UNCHANGED vars
  BY <1>9 DEF SharedPromise, Elsewhere, Waiting, vars, browserVars, callVars, refreshVars
<1> QED
  BY <1>1, <1>2, <1>3, <1>4, <1>5, <1>6, <1>7, <1>8, <1>9 DEF WebNext, CallAnswered, RefreshStep

\* No call waits for a refresh that is over, however calls join it, fail, are
\* sent again or the page is loaded anew; and a refresh in flight has
\* somebody who waits for it (request and doRefresh, which share `refreshing`).
THEOREM WaitersHaveARefresh == WebSpec => []SharedPromise
<1>1. WebInit => SharedPromise
  BY DEF WebInit, SharedPromise, Waiting
<1>2. WebBase => TypeOK
  BY DEF WebBase
<1> QED
  BY <1>1, <1>2, WebInvariant, SharedNext, PTL DEF WebSpec
=============================================================================
