-------------------------------- MODULE Client --------------------------------
(***************************************************************************)
(* The browser side of a session, the same in both front ends: tabs that   *)
(* share one cookie jar, each with an access token in memory, one refresh  *)
(* in flight at most and several calls of api() that retry after it.  Of   *)
(* the server (Sessions, AuthzVersion) only what a tab can see is here:    *)
(* whether the refresh cookie can be renewed, and the version that access  *)
(* tokens are compared with.  The second factor is left out, and login and *)
(* logout are answered at once.                                            *)
(***************************************************************************)
EXTENDS Naturals, Null

CONSTANTS Tabs, Calls,
          MaxAv,     \* bound on the authorisation version
          MaxCsrf    \* bound on the CSRF cookies handed out

Answers == {"ok", "401", "401 ended", "403"}
Steps == {"sent", "answered", "waiting", "retry", "failed"}
Call == [tab : Tabs, step : Steps, bearer : Nat \cup {NULL},
         header : Nat \cup {NULL}, cookie : Nat \cup {NULL}, answer : Answers \cup {NULL}, again : BOOLEAN]
Refresh == [state : {"asked", "renewed", "refused"}, av : Nat]

ASSUME ClientAssumption ==
    MaxAv \in Nat /\ MaxCsrf \in Nat /\ NULL \notin Nat \cup Answers \cup Call \cup Refresh

VARIABLES
    renewable, av,  \* the server: the jar's session can be renewed; authz version
    csrf, issued,   \* the CSRF cookie in the jar, and how many there have been
    bearer,         \* accessToken of each tab: the version in it
    shows,          \* what the tab shows: AuthState and sessionEndedMessage
    mounting,       \* its mount-time refresh has not settled
    refreshing,     \* refreshPromise of each tab: [state, av], NULL if none
    call,           \* calls of api() under way
    excuse          \* since the tab signed in, the jar lost its session or the tab
                    \* the answer to a refresh

clientVars == <<renewable, av, csrf, issued, bearer, shows, mounting, refreshing, call, excuse>>

ClientTypeOK ==
    /\ renewable \in BOOLEAN /\ av \in Nat
    /\ csrf \in Nat \cup {NULL} /\ issued \in Nat
    /\ bearer \in [Tabs -> Nat \cup {NULL}]
    /\ shows \in [Tabs -> {"loading", "user", "signin", "ended"}]
    /\ mounting \in [Tabs -> BOOLEAN]
    /\ refreshing \in [Tabs -> Refresh \cup {NULL}]
    /\ call \in [Calls -> Call \cup {NULL}]
    /\ excuse \in [Tabs -> BOOLEAN]

Asked == [state |-> "asked", av |-> 0]

\* AuthProvider's effect asks for a refresh as soon as a tab opens.
ClientInit ==
    /\ renewable \in BOOLEAN /\ av = 0
    /\ csrf = IF renewable THEN 0 ELSE NULL
    /\ issued = 0
    /\ bearer = [t \in Tabs |-> NULL]
    /\ shows = [t \in Tabs |-> "loading"]
    /\ mounting = [t \in Tabs |-> TRUE]
    /\ refreshing = [t \in Tabs |-> Asked]
    /\ call = [c \in Calls |-> NULL]
    /\ excuse = [t \in Tabs |-> ~renewable]

-----------------------------------------------------------------------------
(* refreshSession.                                                         *)

\* setCsrfCookie
NewCsrf == issued < MaxCsrf /\ issued' = issued + 1 /\ csrf' = issued + 1

\* clearAuthCookies takes the refresh cookie as well, whichever session it is of.
ClearCookies ==
    /\ csrf' = NULL /\ renewable' = FALSE
    /\ excuse' = [o \in Tabs |-> TRUE]
    /\ UNCHANGED issued

\* The one promise of a tab settles: the calls that wait for it go on.
Settled(t, result) ==
    [c \in Calls |->
        IF call[c] = NULL THEN NULL
        ELSE IF call[c].tab = t /\ call[c].step = "waiting"
             THEN [call[c] EXCEPT !.step = IF result = NULL THEN "failed" ELSE "retry",
                                  !.bearer = result]
             ELSE call[c]]

\* The effect that waits since the tab opened has its answer as well.
Mounted(t, result) ==
    IF mounting[t] THEN [shows EXCEPT ![t] = IF result = NULL THEN "signin" ELSE "user"]
    ELSE shows

Settle(t, result) ==
    /\ refreshing' = [refreshing EXCEPT ![t] = NULL]
    /\ call' = Settled(t, result)
    /\ shows' = Mounted(t, result)
    /\ mounting' = [mounting EXCEPT ![t] = FALSE]
    /\ bearer' = IF result = NULL THEN bearer ELSE [bearer EXCEPT ![t] = result]
    /\ UNCHANGED av

\* POST /auth/refresh on the server; within the grace tabs do not disturb one
\* another (Sessions).
ServerRefresh(t) ==
    /\ refreshing[t] = Asked
    /\ refreshing' = [refreshing EXCEPT ![t] = [state |-> IF renewable THEN "renewed" ELSE "refused", av |-> av]]
    /\ UNCHANGED <<renewable, av, csrf, issued, bearer, shows, mounting, call, excuse>>

refreshAccessToken(t) ==
    /\ refreshing[t] \notin {NULL, Asked}
    /\ IF refreshing[t].state = "refused" THEN Settle(t, NULL) /\ ClearCookies
       ELSE Settle(t, refreshing[t].av) /\ NewCsrf /\ UNCHANGED <<renewable, excuse>>

\* The request or its answer is lost; so are the cookies.
RefreshLost(t) ==
    /\ refreshing[t] # NULL
    /\ Settle(t, NULL)
    /\ excuse' = [excuse EXCEPT ![t] = TRUE]
    /\ UNCHANGED <<renewable, csrf, issued>>

-----------------------------------------------------------------------------
(* api.                                                                    *)

Sent(t, token, header, again) ==
    [tab |-> t, step |-> "sent", bearer |-> token, header |-> header, cookie |-> csrf,
     answer |-> NULL, again |-> again]

api(c, t) ==
    /\ call[c] = NULL /\ shows[t] = "user"
    /\ call' = [call EXCEPT ![c] = Sent(t, bearer[t], csrf, FALSE)]
    /\ UNCHANGED <<renewable, av, csrf, issued, bearer, shows, mounting, refreshing, excuse>>

\* The guards in their order, for a route that changes state.  A token may have
\* expired at any time, and a handler may answer 401 on its own account.
Guarded(k) ==
    IF k.bearer = NULL THEN {"401"}
    ELSE IF k.bearer # av THEN {"401", "401 ended"}
    ELSE IF k.cookie = NULL \/ k.header # k.cookie THEN {"401", "403"}
    ELSE {"401", "ok"}

ServerAnswer(c, a) ==
    /\ call[c] # NULL /\ call[c].step = "sent"
    /\ a \in Guarded(call[c])
    /\ call' = [call EXCEPT ![c] = [@ EXCEPT !.step = "answered", !.answer = a]]
    /\ UNCHANGED <<renewable, av, csrf, issued, bearer, shows, mounting, refreshing, excuse>>

Is401(a) == a \in {"401", "401 ended"}

\* A 401 with a token at hand waits for the tab's refresh, which is started unless
\* one is in flight.
AwaitRefresh(c) ==
    LET k == call[c] IN
    /\ k # NULL /\ k.step = "answered" /\ ~k.again
    /\ Is401(k.answer) /\ bearer[k.tab] # NULL
    /\ call' = [call EXCEPT ![c].step = "waiting"]
    /\ refreshing' = [refreshing EXCEPT ![k.tab] = IF @ = NULL THEN Asked ELSE @]
    /\ UNCHANGED <<renewable, av, csrf, issued, bearer, shows, mounting, excuse>>

\* Fault: the header keeps the CSRF token that was read before the refresh.
RetryStale(c) ==
    LET k == call[c] IN
    /\ k # NULL /\ k.step = "retry"
    /\ call' = [call EXCEPT ![c] = Sent(k.tab, k.bearer, k.header, TRUE)]
    /\ UNCHANGED <<renewable, av, csrf, issued, bearer, shows, mounting, refreshing, excuse>>

\* The second fetch, with the new token and the CSRF cookie read again; without
\* one the old header stays.
Retry(c) ==
    LET k == call[c] IN
    /\ k # NULL /\ k.step = "retry"
    /\ call' = [call EXCEPT ![c] = Sent(k.tab, k.bearer, IF csrf = NULL THEN k.header ELSE csrf, TRUE)]
    /\ UNCHANGED <<renewable, av, csrf, issued, bearer, shows, mounting, refreshing, excuse>>

\* Fault: whether the refresh failed is not asked.
EndsSessionAnyway(k) == k.answer = "401 ended"

\* The last refusal says so and the refresh could not help.
EndsSession(k) == k.answer = "401 ended" /\ k.step = "failed"

\* The call returns or throws; a session that has ended takes the tab to sign-in.
\* Reading the body comes before, so other calls may have moved on.
Return(c) ==
    LET k == call[c] IN
    /\ k # NULL
    /\ \/ k.step = "failed"
       \/ k.step = "answered" /\ (k.again \/ ~Is401(k.answer) \/ bearer[k.tab] = NULL)
    /\ IF EndsSession(k)
       THEN /\ bearer' = [bearer EXCEPT ![k.tab] = NULL]
            /\ shows' = [shows EXCEPT ![k.tab] = "ended"]
       ELSE UNCHANGED <<bearer, shows>>
    /\ call' = [call EXCEPT ![c] = NULL]
    /\ UNCHANGED <<renewable, av, csrf, issued, mounting, refreshing, excuse>>

\* fetch throws.
CallLost(c) ==
    /\ call[c] # NULL /\ call[c].step = "sent"
    /\ call' = [call EXCEPT ![c] = NULL]
    /\ UNCHANGED <<renewable, av, csrf, issued, bearer, shows, mounting, refreshing, excuse>>

-----------------------------------------------------------------------------
(* AuthProvider, and the server's own events.                              *)

\* A right password opens a session of its own in the jar.  Nobody signs in while
\* a call has only its body left to read.
clientLogin(t) ==
    /\ shows[t] # "user"
    /\ \A c \in Calls : call[c] # NULL /\ call[c].tab = t => call[c].step # "failed"
    /\ renewable' = TRUE
    /\ NewCsrf
    /\ bearer' = [bearer EXCEPT ![t] = av]
    /\ shows' = [shows EXCEPT ![t] = "user"]
    /\ excuse' = [excuse EXCEPT ![t] = FALSE]
    /\ UNCHANGED <<av, mounting, refreshing, call>>

\* logout forgets the session whether or not the server heard of it.
clientLogout(t, heard) ==
    /\ shows[t] = "user"
    /\ bearer' = [bearer EXCEPT ![t] = NULL]
    /\ shows' = [shows EXCEPT ![t] = "signin"]
    /\ IF heard THEN ClearCookies
       ELSE UNCHANGED <<renewable, csrf, issued, excuse>>
    /\ UNCHANGED <<av, mounting, refreshing, call>>

\* A change of role moves the version on; ending the sessions (deactivation, a
\* password set elsewhere) revokes the refresh tokens with it.
ServerMovesOn(ends) ==
    /\ av < MaxAv
    /\ av' = av + 1
    /\ IF ends THEN renewable' = FALSE /\ excuse' = [o \in Tabs |-> TRUE]
       ELSE UNCHANGED <<renewable, excuse>>
    /\ UNCHANGED <<csrf, issued, bearer, shows, mounting, refreshing, call>>

ClientNext ==
    \/ \E t \in Tabs :
          \/ ServerRefresh(t) \/ refreshAccessToken(t) \/ RefreshLost(t) \/ clientLogin(t)
          \/ \E heard \in BOOLEAN : clientLogout(t, heard)
          \/ \E c \in Calls : api(c, t)
    \/ \E c \in Calls :
          \/ \E a \in Answers : ServerAnswer(c, a)
          \/ AwaitRefresh(c) \/ Retry(c) \/ Return(c) \/ CallLost(c)
    \/ \E ends \in BOOLEAN : ServerMovesOn(ends)

ClientSpec == ClientInit /\ [][ClientNext]_clientVars

-----------------------------------------------------------------------------

\* A tab is sent to the sign-in page with "Your session has ended" only if its
\* session did end, or an answer to its refresh was lost: a changed role, an
\* expired token, another tab's refresh and calls that overtake one another are
\* all survived (api, refreshSession).
SentAwayOnlyWhenEnded == \A t \in Tabs : shows[t] = "ended" => excuse[t]

\* A call that carries the CSRF cookie is never refused for its CSRF header, also
\* when a refresh, here or in another tab, has replaced the cookie since the call
\* began (api).
HeaderMatchesCookie ==
    \A c \in Calls : call[c] # NULL /\ call[c].answer = "403" => call[c].cookie = NULL
=============================================================================
