----------------------------- MODULE WebSession -----------------------------
(***************************************************************************)
(* One browser of the user (web/src/lib/api.ts and                          *)
(* web/src/context/AuthContext.tsx) against the server of Sessions: the     *)
(* tokens in localStorage, the calls of its pages, and the one refresh they *)
(* share when the access token has expired.                                 *)
(*                                                                          *)
(* A refresh, or a sign-in, is served by any request of Sessions that is    *)
(* free; all others belong to other devices.  An access token expires by    *)
(* itself, so that any call may be answered 401; the two tokens are stored  *)
(* and removed together and are named by their session.  JavaScript runs    *)
(* one callback at a time: what follows an await without a call in between  *)
(* is one action.                                                           *)
(***************************************************************************)
EXTENDS Sessions

CONSTANT Calls    \* bound: calls a browser has open at once

ASSUME HandlersAssumption == None \notin Requests

VARIABLES
    stored,       \* localStorage: the session of both tokens, or None
    user,         \* AuthContext has a user: the pages are shown
    loading,      \* the sessions being loaded, each the calls its Promise.all still waits for
    call,         \* each call: "idle", "sent", or "waiting" for the refresh
    retried,      \* its _retry
    refreshing,   \* the promise: "none", "posted", or "stuck"
    posted,       \* the refresh token that doRefresh has read
    serving,      \* the request that serves the refresh, or None
    signing,      \* the request the sign-in page waits for, or None
    latest,       \* history: what a sign-in, a sign-out or an error has last put in the store
    overtaken     \* history: it did so under a refresh in flight

callVars    == <<call, retried>>
refreshVars == <<refreshing, posted, serving>>
pageVars    == <<user, loading, signing>>
pastVars    == <<latest, overtaken>>
browserVars == <<stored, callVars, refreshVars, pageVars, pastVars>>
vars        == <<serverVars, browserVars>>

TypeOK ==
    /\ SessionsTypeOK
    /\ stored \in Sessions \cup {None}
    /\ user \in BOOLEAN
    /\ serving \in Requests \cup {None} /\ signing \in Requests \cup {None}
    /\ loading \subseteq SUBSET Calls
    /\ call \in [Calls -> {"idle", "sent", "waiting"}]
    /\ retried \in [Calls -> BOOLEAN]
    /\ refreshing \in {"none", "posted", "stuck"} /\ posted \in Sessions \cup {None}
    /\ latest \in Sessions \cup {None} /\ overtaken \in BOOLEAN

WebInit ==
    /\ Init
    /\ stored = None
    /\ user = FALSE /\ loading = {} /\ signing = None
    /\ call = [c \in Calls |-> "idle"]
    /\ retried = [c \in Calls |-> FALSE]
    /\ refreshing = "none" /\ posted = None /\ serving = None
    /\ latest = None /\ overtaken = FALSE

-----------------------------------------------------------------------------
\* The calls of C are in state `next` and have this _retry.
Set(C, next, again) ==
    /\ call' = [c \in Calls |-> IF c \in C THEN next ELSE call[c]]
    /\ retried' = [c \in Calls |-> IF c \in C THEN again ELSE retried[c]]

\* loadSession asks for the user and for the organizations: two calls at once.
LoadSession(C) ==
    /\ Cardinality(C) = 2
    /\ loading' = loading \cup {C}

\* The tokens are removed or replaced; a refresh in flight does not know.
Store(s) == stored' = s /\ latest' = s /\ overtaken' = (refreshing = "posted")

\* Mutant: the catch leaves the tokens in the store.
RejectKeepsTokens(C) ==
    /\ Set(C, "idle", FALSE)
    /\ loading' = {L \in loading : L \cap C = {}}
    /\ UNCHANGED <<stored, pastVars>>

\* The calls of C are rejected.  A loadSession that waits for one of them ends in
\* its catch, which drops the tokens, and its other call goes on.
Reject(C) ==
    /\ Set(C, "idle", FALSE)
    /\ loading' = {L \in loading : L \cap C = {}}
    /\ IF loading' # loading THEN Store(None) ELSE UNCHANGED <<stored, pastVars>>

\* A page makes a call.
Send(c) ==
    /\ user /\ call[c] = "idle"
    /\ Set({c}, "sent", FALSE)
    /\ UNCHANGED <<serverVars, stored, refreshVars, pageVars, pastVars>>

\* The call succeeds.  The last one of a loadSession sets the user.
Succeeds(c) ==
    /\ call[c] = "sent"
    /\ Set({c}, "idle", FALSE)
    /\ user' = (user \/ {c} \in loading)
    /\ loading' = {L \ {c} : L \in loading} \ {{}}
    /\ UNCHANGED <<serverVars, stored, refreshVars, signing, pastVars>>

\* The call fails with any error but 401, or with 401 a second time.
Fails(c) ==
    /\ call[c] = "sent"
    /\ Reject({c})
    /\ UNCHANGED <<serverVars, refreshVars, user, signing>>

\* The first 401 of a call: it joins the refresh in flight, or starts one;
\* without a refresh token it is rejected at once, and wp:logout removes the
\* user.
Unauthorized(c) ==
    /\ call[c] = "sent" /\ ~retried[c]
    /\ IF refreshing = "none" /\ stored = None
       THEN /\ Reject({c}) /\ user' = FALSE
            /\ UNCHANGED refreshVars
       ELSE /\ Set({c}, "waiting", TRUE)
            /\ IF refreshing = "none"
               THEN refreshing' = "posted" /\ posted' = stored /\ UNCHANGED serving
               ELSE UNCHANGED refreshVars
            /\ UNCHANGED <<stored, user, loading, pastVars>>
    /\ UNCHANGED <<serverVars, signing>>

Waiting == {c \in Calls : call[c] = "waiting"}

\* The server takes up the refresh.
RefreshServed(r) ==
    /\ refreshing = "posted" /\ serving = None
    /\ Refresh(r, posted)
    /\ serving' = r
    /\ UNCHANGED <<stored, callVars, refreshing, posted, pageVars, pastVars>>

\* The server finds the session over and answers 401.  The interceptor of that
\* response awaits `refreshing`, the very promise that waits for it.
RefreshRefused ==
    /\ refreshing = "posted" /\ serving = None
    /\ session[posted] # "LIVE"
    /\ refreshing' = "stuck" /\ posted' = None
    /\ UNCHANGED <<serverVars, stored, callVars, serving, pageVars, pastVars>>

Settled == refreshing' = "none" /\ posted' = None /\ serving' = None

\* Mutant: those who wait are not sent again.
RefreshDoneForgets ==
    /\ refreshing = "posted" /\ serving # None
    /\ Touch(serving)
    /\ stored' = posted
    /\ Settled
    /\ UNCHANGED <<callVars, pageVars, pastVars>>

\* The new access token arrives: it is stored with the refresh token that was
\* read, whatever the store holds by then, and all who wait are sent again.
RefreshDone ==
    /\ refreshing = "posted" /\ serving # None
    /\ Touch(serving)
    /\ stored' = posted
    /\ Settled
    /\ Set(Waiting, "sent", TRUE)
    /\ UNCHANGED <<pageVars, pastVars>>

\* No response, or an error but 401: the tokens are dropped, all who wait are
\* rejected, and wp:logout removes the user.
RefreshFailed ==
    /\ refreshing = "posted"
    /\ IF serving # None THEN Abort(serving) ELSE UNCHANGED serverVars
    /\ Settled
    /\ Set(Waiting, "idle", FALSE)
    /\ stored' = None /\ latest' = None /\ overtaken' = FALSE /\ user' = FALSE
    /\ loading' = {L \in loading : L \cap Waiting = {}}
    /\ UNCHANGED signing

-----------------------------------------------------------------------------
\* The sign-in page, which anybody can open at any time, posts to /auth/login or
\* /auth/register.
StartSignIn(r) ==
    /\ signing = None
    /\ Login(r) \/ Register(r)
    /\ signing' = r
    /\ UNCHANGED <<stored, callVars, refreshVars, user, loading, pastVars>>

\* The handler goes on; an answer that is an error, or is lost, ends the wait.
SignInStep ==
    /\ signing # None
    /\ \/ CreateUser(signing)
       \/ \E s \in Sessions : CreateSession(signing, s)
       \/ \E t \in Tokens : CreateToken(signing, t)
       \/ Abort(signing)
    /\ signing' = IF pc'[signing] = "idle" THEN None ELSE signing
    /\ UNCHANGED <<stored, callVars, refreshVars, user, loading, pastVars>>

\* The answer arrives: the tokens are stored, the user set, and the session is
\* loaded; register asks for the organizations only.
SignedIn(C) ==
    /\ signing # None /\ \A c \in C : call[c] = "idle"
    /\ \/ /\ pc[signing] = "loginSession"
          /\ \E s \in Sessions : CreateSession(signing, s) /\ Store(s)
          /\ LoadSession(C)
       \/ /\ \E t \in Tokens : CreateToken(signing, t)
          /\ Store(holds[signing])
          /\ Cardinality(C) = 1 /\ UNCHANGED loading
    /\ Set(C, "sent", FALSE)
    /\ signing' = None /\ user' = TRUE
    /\ UNCHANGED refreshVars

\* The user signs out: the logout is posted and nobody waits for it.
SignOut ==
    /\ user
    /\ Store(None) /\ user' = FALSE
    /\ UNCHANGED <<serverVars, callVars, refreshVars, loading, signing>>

\* The page is loaded anew: only localStorage is left, and the effect of
\* AuthProvider loads the session if there are tokens.  What the server has begun
\* it ends without the browser.
Reload ==
    /\ IF stored = None
       THEN loading' = {} /\ call' = [c \in Calls |-> "idle"]
       ELSE \E C \in SUBSET Calls :
               /\ Cardinality(C) = 2 /\ loading' = {C}
               /\ call' = [c \in Calls |-> IF c \in C THEN "sent" ELSE "idle"]
    /\ retried' = [c \in Calls |-> FALSE]
    /\ Settled
    /\ user' = FALSE /\ signing' = None
    /\ overtaken' = (overtaken /\ stored \notin {None, latest})
    /\ IF serving # None THEN Touch(serving) ELSE UNCHANGED serverVars
    /\ UNCHANGED <<stored, latest>>

\* Other devices (whose refreshes change nothing), time, and logouts that were
\* posted at any time before.
Elsewhere ==
    /\ \/ \E r \in Requests \ {serving, signing} : AuthWrites(r) \/ Abort(r)
       \/ \E s \in Sessions : Logout(s)
       \/ \E t \in Tokens : TokenExpires(t)
    /\ UNCHANGED browserVars

CallAnswered(c) == Succeeds(c) \/ Fails(c) \/ Unauthorized(c)
RefreshStep == (\E r \in Requests : RefreshServed(r)) \/ RefreshRefused \/ RefreshDone \/ RefreshFailed

WebNext ==
    \/ \E c \in Calls : Send(c) \/ CallAnswered(c)
    \/ \E C \in SUBSET Calls : SignedIn(C)
    \/ RefreshStep
    \/ \E r \in Requests : StartSignIn(r)
    \/ SignInStep \/ SignOut \/ Reload
    \/ Elsewhere

\* A refresh in flight is answered or fails: it can fail as long as it is in
\* flight, so that the fairness of RefreshFailed says no more than this.
WebSpec == WebInit /\ [][WebNext]_vars /\ WF_vars(RefreshFailed)

-----------------------------------------------------------------------------
(***************************************************************************)
(* Properties.                                                              *)
(***************************************************************************)

\* Calls that wait for the refresh are always let go in the end, with a new token
\* or an error, whichever call started it and whoever joined it before or after it was
\* served; none is forgotten by the shared promise.  The exception is a refresh
\* that the server refuses: doRefresh then waits for itself, its catch block is
\* never reached, and every call that meets a 401 waits until the page is loaded
\* anew.
WaitersReleased == []<>(Waiting = {} \/ refreshing = "stuck")

\* The store has tokens only while somebody is signed in (or the session is being
\* loaded), and then those of the latest sign-in: calls never run as an earlier
\* session, and nobody who was shown the sign-in page has tokens left.  The
\* exception is a refresh in flight under which the store was changed, by a
\* sign-out, another sign-in, or a loadSession of whose two calls one fails while
\* the other waits for the refresh: the answer writes the old tokens back.
TokensBelong ==
    stored # None /\ ~overtaken => stored = latest /\ (user \/ loading # {})
=============================================================================
