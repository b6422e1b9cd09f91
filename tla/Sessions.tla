------------------------------- MODULE Sessions -------------------------------
(***************************************************************************)
(* The sign-in sessions of one user: refresh tokens that rotate on every   *)
(* use, the access tokens signed with the user's authz_version, the        *)
(* handlers that end sessions, and browsers whose responses may be lost or *)
(* arrive out of order.  Every transaction on refresh tokens holds the     *)
(* user's advisory lock; the user row is also written outside it.          *)
(***************************************************************************)
EXTENDS Naturals, FiniteSets, Null

CONSTANTS Browsers, Tokens, Reqs,
          Prompt,      \* browsers that use a consumed token within the grace
          MaxVersion   \* bound on authz_version

\* isRevoked, revokedAt and expiresAt: RECENT was revoked within the grace.
State == {"LIVE", "EXPIRED", "RECENT", "OLD"}

\* A family is named by its first token.
TokenRow == [family : Tokens, state : State]

ASSUME SessionsAssumption ==
    /\ Prompt \subseteq Browsers /\ MaxVersion \in Nat
    /\ NULL \notin Tokens \cup Browsers \cup TokenRow

VARIABLES
    active, version,  \* users.is_active, users.authz_version
    token,            \* refresh_tokens: [family, state], NULL if never created
    access,           \* access tokens signed so far: [family, av]
    cookie,           \* the refresh cookie of each browser
    closed,           \* families that a logout or a session end has closed
    ended,            \* those of them that endSessions closed
    pc, arg           \* step and arguments of each request

vars == <<active, version, token, access, cookie, closed, ended, pc, arg>>
user == <<active, version>>

\* w, k: browser and token of a request; av: the version it signs with; row: the
\* token it found to rotate.
Arg == [w : Browsers \cup {NULL}, k : Tokens \cup {NULL}, av : Nat, row : Tokens \cup {NULL}]

NoArg == [w |-> NULL, k |-> NULL, av |-> 0, row |-> NULL]

Issued == {k \in Tokens : token[k] # NULL}
Family(f) == {k \in Issued : token[k].family = f}
Live(f) == {k \in Family(f) : token[k].state = "LIVE"}
Unrevoked(f) == {k \in Family(f) : token[k].state \in {"LIVE", "EXPIRED"}}

TypeOK ==
    /\ active \in BOOLEAN /\ version \in 0 .. MaxVersion
    /\ token \in [Tokens -> TokenRow \cup {NULL}]
    /\ \A k \in Issued : token[k].family \in Issued
    /\ access \subseteq [family : Tokens, av : 0 .. MaxVersion]
    /\ cookie \in [Browsers -> Issued \cup {NULL}]
    /\ ended \subseteq closed /\ closed \subseteq Tokens
    /\ pc \in [Reqs -> {"idle", "sign", "store", "wait", "rotate", "renew", "respond", "end",
                        "bump"}]
    /\ arg \in [Reqs -> Arg]

Init ==
    /\ active = TRUE /\ version = 0
    /\ token = [k \in Tokens |-> NULL]
    /\ access = {}
    /\ cookie = [w \in Browsers |-> NULL]
    /\ closed = {} /\ ended = {}
    /\ pc = [r \in Reqs |-> "idle"]
    /\ arg = [r \in Reqs |-> NoArg]

Goto(r, label, a) ==
    /\ pc' = [pc EXCEPT ![r] = label]
    /\ arg' = [arg EXCEPT ![r] = a]

Start(r, label, w, k) == pc[r] = "idle" /\ Goto(r, label, [NoArg EXCEPT !.w = w, !.k = k])

Done(r) == Goto(r, "idle", NoArg)

\* Fault: transactions of one user do not wait for each other.
NoLock == TRUE

\* withUserLock.  Only a rotation holds the lock over more than one step: the
\* other transactions read nothing that they use later.
LockFree == \A r \in Reqs : pc[r] # "rotate"

\* updateMany isRevoked = false: what is revoked already keeps its revokedAt.
Revoke(ks) ==
    [k \in Tokens |-> IF k \in ks /\ token[k].state \in {"LIVE", "EXPIRED"}
                      THEN [family |-> token[k].family, state |-> "RECENT"] ELSE token[k]]

-----------------------------------------------------------------------------
(* Signing in.                                                             *)

\* login with the right credentials, up to issueTokens.
login(r, w) ==
    /\ active
    /\ Start(r, "sign", w, NULL)
    /\ UNCHANGED <<user, token, access, cookie, closed, ended>>

\* signAccessToken reads the version of the moment ...
SignAccessToken(r) ==
    /\ pc[r] = "sign"
    /\ Goto(r, "store", [arg[r] EXCEPT !.av = version])
    /\ UNCHANGED <<user, token, access, cookie, closed, ended>>

\* ... and createRefreshToken opens a family.
createRefreshToken(r, k) ==
    /\ pc[r] = "store" /\ LockFree
    /\ token[k] = NULL
    /\ token' = [token EXCEPT ![k] = [family |-> k, state |-> "LIVE"]]
    /\ access' = access \cup {[family |-> k, av |-> arg[r].av]}
    /\ Goto(r, "respond", [arg[r] EXCEPT !.k = k])
    /\ UNCHANGED <<user, cookie, closed, ended>>

-----------------------------------------------------------------------------
(* Refreshing.                                                             *)

\* A page load presents the browser's cookie; ownerOf finds the user.
refresh(r, w) ==
    /\ cookie[w] # NULL
    /\ Start(r, "wait", w, cookie[w])
    /\ UNCHANGED <<user, token, access, cookie, closed, ended>>

\* Fault: no grace for a token that was consumed a moment ago.
RowToRotateStrict(k) == IF token[k].state = "LIVE" THEN k ELSE NULL

\* Fault: a token consumed a moment ago is rotated itself.
RowToRotateConsumed(k) == IF token[k].state \in {"LIVE", "RECENT"} THEN k ELSE NULL

\* The row that rotateLocked rotates: the presented one, or for a recently
\* consumed one the live token of its family.
RowToRotate(k) ==
    IF token[k].state = "LIVE" THEN k
    ELSE IF token[k].state = "RECENT" /\ Live(token[k].family) # {}
         THEN CHOOSE j \in Live(token[k].family) : TRUE
    ELSE NULL

\* rotateRefreshToken reads the user and the token under the lock.
LockUser(r) ==
    /\ pc[r] = "wait" /\ LockFree
    /\ IF active
       THEN Goto(r, "rotate", [arg[r] EXCEPT !.av = version, !.row = RowToRotate(arg[r].k)])
       ELSE Goto(r, "respond", [arg[r] EXCEPT !.k = NULL])
    /\ UNCHANGED <<user, token, access, cookie, closed, ended>>

\* rotateRow: consume the row and issue its successor.
RotateRow(r, k) ==
    LET row == arg[r].row IN
    /\ pc[r] = "rotate" /\ row # NULL
    /\ token[k] = NULL
    /\ token' = [token EXCEPT ![row].state = "RECENT",
                              ![k] = [family |-> token[row].family, state |-> "LIVE"]]
    /\ Goto(r, "renew", [arg[r] EXCEPT !.k = k])
    /\ UNCHANGED <<user, access, cookie, closed, ended>>

\* Nothing to rotate: an expired token is revoked, reuse revokes the family.
RefuseRotation(r) ==
    LET k == arg[r].k IN
    /\ pc[r] = "rotate" /\ arg[r].row = NULL
    /\ token' = Revoke(IF token[k].state = "EXPIRED" THEN {k} ELSE Family(token[k].family))
    /\ Goto(r, "respond", [arg[r] EXCEPT !.k = NULL])
    /\ UNCHANGED <<user, access, cookie, closed, ended>>

\* Fault: the access token is signed with the version of the moment.
RenewVersionNow(r) == version

\* The version that was read under the lock.
RenewVersion(r) == arg[r].av

\* refreshTokens looks at the user once more and signs.
Renew(r) ==
    LET f == token[arg[r].k].family IN
    /\ pc[r] = "renew"
    /\ IF active
       THEN /\ access' = access \cup {[family |-> f, av |-> RenewVersion(r)]}
            /\ Goto(r, "respond", arg[r])
       ELSE Goto(r, "respond", [arg[r] EXCEPT !.k = NULL]) /\ UNCHANGED access
    /\ UNCHANGED <<user, token, cookie, closed, ended>>

\* The response sets the cookie, or clears it after a refusal.  Responses arrive
\* in any order.
Deliver(r) ==
    /\ pc[r] = "respond"
    /\ cookie' = [cookie EXCEPT ![arg[r].w] = arg[r].k]
    /\ Done(r)
    /\ UNCHANGED <<user, token, access, closed, ended>>

\* The browser aborts a request, the lock times out, or the server stops.
Fail(r) ==
    /\ pc[r] # "idle"
    /\ Done(r)
    /\ UNCHANGED <<user, token, access, cookie, closed, ended>>

-----------------------------------------------------------------------------
(* Ending sessions.                                                        *)

\* logout and logoutAll revoke refresh tokens and leave the version alone.
logout(r, w) ==
    /\ cookie[w] # NULL /\ LockFree
    /\ token' = Revoke(Family(token[cookie[w]].family))
    /\ closed' = closed \cup {token[cookie[w]].family}
    /\ Start(r, "respond", w, NULL)
    /\ UNCHANGED <<user, access, cookie, ended>>

logoutAll(r, w) ==
    /\ LockFree
    /\ token' = Revoke(Issued)
    /\ closed' = closed \cup {token[k].family : k \in Issued}
    /\ Start(r, "respond", w, NULL)
    /\ UNCHANGED <<user, access, cookie, ended>>

\* The transaction of changePassword, confirmTotp or disableTotp: the caller's
\* own family is to stay.
changeCredentials(r, w) ==
    /\ Start(r, "end", w, cookie[w])
    /\ UNCHANGED <<user, token, access, cookie, closed, ended>>

\* That of confirmPasswordReset, forceChangePassword or resetTotp.
resetCredentials(r) ==
    /\ Start(r, "end", NULL, NULL)
    /\ UNCHANGED <<user, token, access, cookie, closed, ended>>

deactivate(r) ==
    /\ active' = FALSE
    /\ Start(r, "end", NULL, NULL)
    /\ UNCHANGED <<version, token, access, cookie, closed, ended>>

\* Families that endSessions ends: all but that of the excepted token.
Ends(k) == {token[j].family : j \in Issued} \ (IF k = NULL THEN {} ELSE {token[k].family})

endSessions(r) ==
    LET fs == Ends(arg[r].k) IN
    /\ pc[r] = "end" /\ LockFree
    /\ version < MaxVersion
    /\ version' = version + 1
    /\ token' = Revoke({k \in Issued : token[k].family \in fs})
    /\ closed' = closed \cup fs /\ ended' = ended \cup fs
    /\ Done(r)
    /\ UNCHANGED <<active, access, cookie>>

reactivate(r) ==
    /\ active' = TRUE
    /\ Start(r, "bump", NULL, NULL)
    /\ UNCHANGED <<version, token, access, cookie, closed, ended>>

\* The transaction of a change of role or of the role's permissions.
changeRole(r) ==
    /\ Start(r, "bump", NULL, NULL)
    /\ UNCHANGED <<user, token, access, cookie, closed, ended>>

\* bumpUsers and bumpRole take no advisory lock.
bumpVersion(r) ==
    /\ pc[r] = "bump"
    /\ version < MaxVersion
    /\ version' = version + 1
    /\ Done(r)
    /\ UNCHANGED <<active, token, access, cookie, closed, ended>>

-----------------------------------------------------------------------------
(* Time.                                                                   *)

InHand(w, k) == cookie[w] = k \/ \E r \in Reqs : arg[r].w = w /\ arg[r].k = k

SetState(k, s) ==
    /\ token' = [token EXCEPT ![k].state = s]
    /\ UNCHANGED <<user, access, cookie, closed, ended, pc, arg>>

\* reuseGraceMs after its revocation.
GraceOver(k) ==
    /\ token[k] # NULL /\ token[k].state = "RECENT"
    /\ \A w \in Prompt : ~InHand(w, k)
    /\ SetState(k, "OLD")

\* Days later; a prompt browser uses its session in time.
Expire(k) ==
    /\ token[k] # NULL /\ token[k].state = "LIVE"
    /\ \A w \in Prompt, j \in Family(token[k].family) : ~InHand(w, j)
    /\ SetState(k, "EXPIRED")

Next ==
    \/ \E r \in Reqs :
          \/ \E w \in Browsers :
                \/ login(r, w) \/ refresh(r, w)
                \/ logout(r, w) \/ logoutAll(r, w) \/ changeCredentials(r, w)
          \/ \E k \in Tokens : createRefreshToken(r, k) \/ RotateRow(r, k)
          \/ SignAccessToken(r) \/ LockUser(r) \/ RefuseRotation(r) \/ Renew(r)
          \/ Deliver(r) \/ Fail(r)
          \/ resetCredentials(r) \/ deactivate(r) \/ endSessions(r)
          \/ reactivate(r) \/ changeRole(r) \/ bumpVersion(r)
    \/ \E k \in Tokens : GraceOver(k) \/ Expire(k)

Spec == Init /\ [][Next]_vars

-----------------------------------------------------------------------------
(* Properties.                                                             *)

\* A family never forks: at most one of its tokens is not revoked, however many
\* tabs refresh at once (rotateRow under the user's lock).
OneTokenPerFamily ==
    \A k, j \in Issued :
        token[k].family = token[j].family /\ {k, j} \subseteq Unrevoked(token[k].family) => k = j

\* An access token of a session that endSessions has ended is refused: its
\* version is behind, even if a refresh was under way when the session ended
\* (rotateRefreshToken reads the version under the lock).
EndedSessionsAreRefused ==
    \A a \in access : a.family \in ended => a.av < version

\* A browser that comes back within the grace, with whatever cookie lost and late
\* responses have left it, is still signed in until somebody closes its session:
\* the cookie is live, or recently consumed and its family has a live token.
PromptBrowserStaysSignedIn ==
    \A w \in Prompt :
        cookie[w] # NULL /\ token[cookie[w]].family \notin closed =>
            /\ token[cookie[w]].state \in {"LIVE", "RECENT"}
            /\ Live(token[cookie[w]].family) # {}

\* A family whose tokens are all revoked never gets a live one again.
DeadFamilyStaysDead ==
    [][\A f \in Issued : Unrevoked(f) = {} => Unrevoked(f)' = {}]_vars
=============================================================================
