---------------------------- MODULE PasswordLinks ----------------------------
(***************************************************************************)
(* How the password of one account is set: by its owner, by a reset link   *)
(* and by a portal invitation.  A link or an invitation is claimed by one  *)
(* UPDATE that commits at once and the password follows later, in a        *)
(* transaction of its own.  Issuing a link and setting a password lock the *)
(* user's row; claiming does not, and neither does the job that answers a  *)
(* request from the sign-in page.                                          *)
(***************************************************************************)
EXTENDS Naturals, FiniteSets, Null

CONSTANTS Links, Invites, LinkReqs,
          InviteCap,    \* INVITE_WRONG_ATTEMPT_CAP
          MaxChanges,   \* bound on the passwords the owner sets
          LinkOps,      \* operations that start
          LinkTogether  \* operations that may overlap one another

\* consumedAt and expiresAt: EXPIRED was never consumed.
LinkState == {"LIVE", "EXPIRED", "CONSUMED"}
LinkRow == [state : LinkState, at : Nat, admin : BOOLEAN]
InviteRow == [open : BOOLEAN, wrong : Nat]

ASSUME LinksAssumption ==
    /\ InviteCap \in Nat \ {0} /\ MaxChanges \in Nat
    /\ LinkTogether \subseteq LinkOps
    /\ Links \cap Invites = {}
    /\ NULL \notin Links \cup Invites \cup LinkReqs \cup LinkRow \cup InviteRow

VARIABLES
    hasAccount, isActive,  \* the users row
    changes,      \* passwords the owner has set, newest last
    link,         \* password_resets, NULL if absent; at: changes when it was issued
    invite,       \* portal_invites, NULL if absent
    rowLock,      \* the transaction that holds the users row, NULL if none
    step, linkArg, \* next statement and argument of each request
    taking,       \* links that an open transaction has consumed
    uses          \* how often a link or an invitation has set a password

linkVars == <<hasAccount, isActive, changes, link, invite, rowLock, step, linkArg, taking, uses>>

LiveLinks == {l \in Links : link[l] # NULL /\ link[l].state = "LIVE"}

LinksTypeOK ==
    /\ hasAccount \in BOOLEAN /\ isActive \in BOOLEAN /\ changes \in Nat
    /\ link \in [Links -> LinkRow \cup {NULL}]
    /\ invite \in [Invites -> InviteRow \cup {NULL}]
    /\ rowLock \in LinkReqs \cup {NULL}
    /\ step \in [LinkReqs -> {"idle", "issue", "create", "self", "set", "consume", "commit", "claim",
                              "write", "kill", "mismatch", "claimInvite", "finalize"}]
    /\ linkArg \in [LinkReqs -> Links \cup Invites \cup {NULL}]
    /\ taking \in [LinkReqs -> SUBSET Links]
    /\ uses \in [Links \cup Invites -> Nat]

LinksInit ==
    /\ hasAccount \in BOOLEAN /\ isActive = hasAccount
    /\ changes = 0
    /\ link = [l \in Links |-> NULL]
    /\ invite = [i \in Invites |-> NULL]
    /\ rowLock = NULL
    /\ step = [r \in LinkReqs |-> "idle"]
    /\ linkArg = [r \in LinkReqs |-> NULL]
    /\ taking = [r \in LinkReqs |-> {}]
    /\ uses = [x \in Links \cup Invites |-> 0]

-----------------------------------------------------------------------------

Busy == {r \in LinkReqs : step[r] # "idle"}

\* An operation outside LinkTogether runs when nothing else does.
MayStart(r, op) ==
    /\ step[r] = "idle" /\ op \in LinkOps
    /\ op \in LinkTogether \/ Busy = {}
    /\ "self" \in LinkTogether \/ \A o \in Busy : step[o] # "self"
    /\ "deactivate" \in LinkTogether \/ \A o \in Busy : step[o] # "kill"

Go(r, label, x) ==
    /\ step' = [step EXCEPT ![r] = label]
    /\ linkArg' = [linkArg EXCEPT ![r] = x]

Stop(r) == Go(r, "idle", NULL)

\* Fault: a link is issued without waiting for the user's row.
NoRowLock == TRUE

\* SELECT 1 FROM users ... FOR UPDATE waits for whoever is writing the row.
RowFree == rowLock = NULL

\* updateMany of the unconsumed, unexpired links ls.
Consumed(ls) == [l \in Links |-> IF l \in ls THEN [link[l] EXCEPT !.state = "CONSUMED"] ELSE link[l]]

-----------------------------------------------------------------------------
(* Issuing.                                                                *)

\* forcePasswordReset, issueAdminPasswordReset: the account is looked at first ...
issueReset(r) ==
    /\ MayStart(r, "issue")
    /\ hasAccount /\ isActive
    /\ Go(r, "issue", NULL)
    /\ UNCHANGED <<hasAccount, isActive, changes, link, invite, rowLock, taking, uses>>

\* ... and one transaction locks the row,
IssueLock(r) ==
    /\ step[r] = "issue" /\ RowFree
    /\ rowLock' = r
    /\ Go(r, "create", NULL)
    /\ UNCHANGED <<hasAccount, isActive, changes, link, invite, taking, uses>>

NewLink(r, l, ls, byAdmin) ==
    /\ link[l] = NULL
    /\ link' = [Consumed(ls) EXCEPT ![l] = [state |-> "LIVE", at |-> changes, admin |-> byAdmin]]
    /\ Stop(r)

\* ... supersedes every live link and creates the new one.
IssueCreate(r, l) ==
    /\ step[r] = "create"
    /\ NewLink(r, l, LiveLinks, TRUE)
    /\ rowLock' = NULL
    /\ UNCHANGED <<hasAccount, isActive, changes, invite, taking, uses>>

\* requestPasswordReset enqueues a job for an active account.
requestPasswordReset(r) ==
    /\ MayStart(r, "self")
    /\ hasAccount /\ isActive
    /\ Go(r, "self", NULL)
    /\ UNCHANGED <<hasAccount, isActive, changes, link, invite, rowLock, taking, uses>>

\* PortalPasswordResetProcessor looks again and adds a link to those there are.
ResetProcessor(r, l) ==
    /\ step[r] = "self"
    /\ IF isActive THEN NewLink(r, l, {}, FALSE) ELSE Stop(r) /\ UNCHANGED link
    /\ UNCHANGED <<hasAccount, isActive, changes, invite, rowLock, taking, uses>>

\* sendInvite always makes a new row.
sendInvite(i) ==
    /\ "invite" \in LinkOps
    /\ invite[i] = NULL
    /\ invite' = [invite EXCEPT ![i] = [open |-> TRUE, wrong |-> 0]]
    /\ UNCHANGED <<hasAccount, isActive, changes, link, rowLock, step, linkArg, taking, uses>>

LinkExpires(l) ==
    /\ l \in LiveLinks
    /\ \A r \in LinkReqs : l \notin taking[r]
    /\ link' = [link EXCEPT ![l].state = "EXPIRED"]
    /\ UNCHANGED <<hasAccount, isActive, changes, invite, rowLock, step, linkArg, taking, uses>>

-----------------------------------------------------------------------------
(* The owner sets a password: changePassword and forceChangePassword with  *)
(* the current one in order, or an invitation to an existing account.      *)

changePassword(r) ==
    /\ MayStart(r, "change")
    /\ hasAccount
    /\ Go(r, "set", NULL)
    /\ UNCHANGED <<hasAccount, isActive, changes, link, invite, rowLock, taking, uses>>

\* The transaction writes the password first, which takes the row, ...
SetPassword(r) ==
    /\ step[r] = "set" /\ rowLock = NULL
    /\ changes < MaxChanges
    /\ rowLock' = r
    /\ Go(r, "consume", linkArg[r])
    /\ UNCHANGED <<hasAccount, isActive, changes, link, invite, taking, uses>>

\* ... then consumes the links it can see (consumeResetLinks), ...
consumeResetLinks(r) ==
    /\ step[r] = "consume"
    /\ taking' = [taking EXCEPT ![r] = LiveLinks]
    /\ Go(r, "commit", linkArg[r])
    /\ UNCHANGED <<hasAccount, isActive, changes, link, invite, rowLock, uses>>

\* ... and commits both.  An invitation reactivates the account as well.
CommitPassword(r) ==
    LET i == linkArg[r] IN
    /\ step[r] = "commit"
    /\ changes' = changes + 1
    /\ link' = Consumed(taking[r])
    /\ taking' = [taking EXCEPT ![r] = {}]
    /\ rowLock' = NULL
    /\ IF i = NULL THEN UNCHANGED <<isActive, uses>>
       ELSE isActive' = TRUE /\ uses' = [uses EXCEPT ![i] = @ + 1]
    /\ Stop(r)
    /\ UNCHANGED <<hasAccount, invite>>

-----------------------------------------------------------------------------
(* Redeeming.                                                              *)

\* confirmPasswordReset finds the link unconsumed and unexpired, ...
confirmPasswordReset(r, l) ==
    /\ MayStart(r, "confirm")
    /\ l \in LiveLinks
    /\ Go(r, "claim", l)
    /\ UNCHANGED <<hasAccount, isActive, changes, link, invite, rowLock, taking, uses>>

\* Fault: the claim does not repeat consumed_at IS NULL.
ClaimAgain(r) ==
    /\ step[r] = "claim"
    /\ \A o \in LinkReqs : linkArg[r] \notin taking[o]
    /\ link' = [link EXCEPT ![linkArg[r]].state = "CONSUMED"]
    /\ Go(r, "write", linkArg[r])
    /\ UNCHANGED <<hasAccount, isActive, changes, invite, rowLock, taking, uses>>

\* ... claims it if nobody has, waiting for a transaction that is consuming it, ...
Claim(r) ==
    LET l == linkArg[r] IN
    /\ step[r] = "claim"
    /\ \A o \in LinkReqs : l \notin taking[o]
    /\ IF link[l].state = "CONSUMED" THEN Stop(r) /\ UNCHANGED link
       ELSE /\ link' = [link EXCEPT ![l].state = "CONSUMED"]
            /\ Go(r, "write", l)
    /\ UNCHANGED <<hasAccount, isActive, changes, invite, rowLock, taking, uses>>

\* ... and writes the password of an account that is still active.
WritePassword(r) ==
    /\ step[r] = "write" /\ rowLock = NULL
    /\ uses' = IF isActive THEN [uses EXCEPT ![linkArg[r]] = @ + 1] ELSE uses
    /\ Stop(r)
    /\ UNCHANGED <<hasAccount, isActive, changes, link, invite, rowLock, taking>>

\* consumeInvite finds the invitation open; the token given is right or wrong.
consumeInvite(r, i, right) ==
    /\ MayStart(r, "invite")
    /\ invite[i] # NULL /\ invite[i].open
    /\ Go(r, IF right THEN "claimInvite" ELSE "mismatch", i)
    /\ UNCHANGED <<hasAccount, isActive, changes, link, invite, rowLock, taking, uses>>

\* One UPDATE counts the wrong token and closes the invitation at the cap.
Mismatch(r) ==
    LET i == linkArg[r] IN
    /\ step[r] = "mismatch"
    /\ invite' = IF invite[i].open
                 THEN [invite EXCEPT ![i] = [open |-> @.wrong + 1 < InviteCap, wrong |-> @.wrong + 1]]
                 ELSE invite
    /\ Stop(r)
    /\ UNCHANGED <<hasAccount, isActive, changes, link, rowLock, taking, uses>>

ClaimInvite(r) ==
    LET i == linkArg[r] IN
    /\ step[r] = "claimInvite"
    /\ IF invite[i].open
       THEN invite' = [invite EXCEPT ![i].open = FALSE] /\ Go(r, "finalize", i)
       ELSE Stop(r) /\ UNCHANGED invite
    /\ UNCHANGED <<hasAccount, isActive, changes, link, rowLock, taking, uses>>

\* finalizeInviteConsumption: an existing account gets the password like one its
\* owner sets, otherwise the account is created.  Two accounts of one applicant
\* created at once are left out: hasAccount is looked at and set in one step.
finalizeInviteConsumption(r) ==
    /\ step[r] = "finalize"
    /\ IF hasAccount
       THEN /\ Go(r, "set", linkArg[r])
            /\ UNCHANGED <<hasAccount, isActive, uses>>
       ELSE /\ hasAccount' = TRUE /\ isActive' = TRUE
            /\ uses' = [uses EXCEPT ![linkArg[r]] = @ + 1]
            /\ Stop(r)
    /\ UNCHANGED <<changes, link, invite, rowLock, taking>>

-----------------------------------------------------------------------------
(* Administration and failure.                                             *)

\* deactivate commits the flag ...
deactivate(r) ==
    /\ MayStart(r, "deactivate")
    /\ hasAccount /\ rowLock = NULL
    /\ isActive' = FALSE
    /\ Go(r, "kill", NULL)
    /\ UNCHANGED <<hasAccount, changes, link, invite, rowLock, taking, uses>>

\* ... and consumes the outstanding links afterwards, in both tables.
KillLinks(r) ==
    /\ step[r] = "kill"
    /\ \A o \in LinkReqs : taking[o] = {}
    /\ link' = Consumed(LiveLinks)
    /\ Stop(r)
    /\ UNCHANGED <<hasAccount, isActive, changes, invite, rowLock, taking, uses>>

reactivate(r) ==
    /\ MayStart(r, "reactivate")
    /\ hasAccount /\ rowLock = NULL
    /\ isActive' = TRUE
    /\ UNCHANGED <<hasAccount, changes, link, invite, rowLock, step, linkArg, taking, uses>>

\* A request fails or its process stops: an open transaction is undone, what was
\* committed before stays.
LinkFail(r) ==
    /\ step[r] # "idle"
    /\ rowLock' = IF rowLock = r THEN NULL ELSE rowLock
    /\ taking' = [taking EXCEPT ![r] = {}]
    /\ Stop(r)
    /\ UNCHANGED <<hasAccount, isActive, changes, link, invite, uses>>

LinksNext ==
    \/ \E r \in LinkReqs :
          \/ issueReset(r) \/ IssueLock(r) \/ requestPasswordReset(r)
          \/ changePassword(r) \/ SetPassword(r) \/ consumeResetLinks(r) \/ CommitPassword(r)
          \/ Claim(r) \/ WritePassword(r)
          \/ Mismatch(r) \/ ClaimInvite(r) \/ finalizeInviteConsumption(r)
          \/ deactivate(r) \/ KillLinks(r) \/ reactivate(r) \/ LinkFail(r)
          \/ \E l \in Links : IssueCreate(r, l) \/ ResetProcessor(r, l) \/ confirmPasswordReset(r, l)
          \/ \E i \in Invites, right \in BOOLEAN : consumeInvite(r, i, right)
    \/ \E i \in Invites : sendInvite(i)
    \/ \E l \in Links : LinkExpires(l)

LinksSpec == LinksInit /\ [][LinksNext]_linkVars

-----------------------------------------------------------------------------

\* A live link never predates the password its owner has set since: whoever
\* redeems it cannot put an older decision over a newer one.  And of the links
\* handed out by an administrator at most one is live (consumeResetLinks and the
\* row lock of forcePasswordReset and issueAdminPasswordReset).
LinksAreCurrent ==
    /\ \A l \in LiveLinks : link[l].at = changes
    /\ Cardinality({l \in LiveLinks : link[l].admin}) <= 1

\* A link or an invitation sets a password at most once, however many requests
\* redeem it at the same time, and not while it is still open to others; an
\* invitation takes InviteCap wrong tokens and no more.
RedeemedOnce ==
    /\ \A x \in Links \cup Invites : uses[x] <= 1
    /\ \A l \in Links : uses[l] > 0 => link[l].state = "CONSUMED"
    /\ \A i \in Invites : invite[i] # NULL =>
          /\ uses[i] > 0 => ~invite[i].open
          /\ invite[i].wrong <= InviteCap /\ (invite[i].wrong = InviteCap => ~invite[i].open)
=============================================================================
