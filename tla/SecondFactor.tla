----------------------------- MODULE SecondFactor -----------------------------
(***************************************************************************)
(* The two steps of a sign-in to one account, staff or portal: the         *)
(* password with its lockout, then a code from the authenticator or a      *)
(* recovery code with a lockout of its own.  A handler reads the user row, *)
(* checks what it was given against that copy and writes afterwards; only  *)
(* the reservation of a code is one conditional UPDATE.                    *)
(***************************************************************************)
EXTENDS Naturals, FiniteSets, Null

CONSTANTS FactorReqs,
          RecoveryCodes,      \* those of one enrolment
          MaxFailedLogins,    \* MAX_FAILED_ATTEMPTS
          MaxFailedTotp,      \* MAX_FAILED_TOTP_ATTEMPTS
          FactorTogether      \* operations that may overlap one another

ASSUME FactorAssumption == {MaxFailedLogins, MaxFailedTotp} \subseteq Nat \ {0}

VARIABLES
    logins,   \* failedLoginAttempts and lockedUntil: [failed, lock]
    totp,     \* [secret, on, codes, failed, lock]; secret: there is one
    at, seen, \* next step and copy of the row of each request
    given,    \* the code each request carries
    tried     \* codes looked at since the count last began anew

factorVars == <<logins, totp, at, seen, given, tried>>

\* A timestamp in the future locks; one in the past is OVER.
Lock == {"NONE", "LOCKED", "OVER"}
Logins == [failed : Nat, lock : Lock]
Totp == [secret : BOOLEAN, on : BOOLEAN, codes : SUBSET RecoveryCodes, failed : Nat, lock : Lock]

NoFailures == [failed |-> 0, lock |-> "NONE"]
\* TOTP_CLEARED
Cleared == [secret |-> FALSE, on |-> FALSE, codes |-> {}, failed |-> 0, lock |-> "NONE"]
\* TOTP_ATTEMPTS_CLEARED
AttemptsCleared(t) == [t EXCEPT !.failed = 0, !.lock = "NONE"]

FactorTypeOK ==
    /\ logins \in Logins /\ totp \in Totp
    /\ at \in [FactorReqs -> {"idle", "failed", "succeeded", "reserve", "check", "confirm"}]
    /\ seen \in [FactorReqs -> Logins \cup Totp \cup {NULL}]
    /\ \A r \in FactorReqs : /\ at[r] = "failed" => seen[r] \in Logins
                             /\ at[r] \in {"reserve", "check", "confirm"} => seen[r] \in Totp
    /\ given \in [FactorReqs -> {"right", "wrong", NULL} \cup RecoveryCodes]

FactorInit ==
    /\ logins = NoFailures /\ totp = Cleared
    /\ at = [r \in FactorReqs |-> "idle"]
    /\ seen = [r \in FactorReqs |-> NULL]
    /\ given = [r \in FactorReqs |-> NULL]
    /\ tried = 0

-----------------------------------------------------------------------------

Enter(r, op, label, row, code) ==
    /\ at[r] = "idle"
    /\ op \in FactorTogether \/ \A o \in FactorReqs : at[o] = "idle"
    /\ at' = [at EXCEPT ![r] = label]
    /\ seen' = [seen EXCEPT ![r] = row]
    /\ given' = [given EXCEPT ![r] = code]

Leave(r) ==
    /\ at' = [at EXCEPT ![r] = "idle"]
    /\ seen' = [seen EXCEPT ![r] = NULL]
    /\ given' = [given EXCEPT ![r] = NULL]

\* login reads the row, refuses a locked account and verifies the password.
loginPassword(r, right) ==
    /\ logins.lock # "LOCKED"
    /\ Enter(r, "login", IF right THEN "succeeded" ELSE "failed", logins, NULL)
    /\ UNCHANGED <<logins, totp, tried>>

\* recordFailedAttempt writes the count it read plus one.  Counts from the limit
\* on are not told apart.
recordFailedAttempt(r) ==
    LET n == IF seen[r].failed = MaxFailedLogins THEN MaxFailedLogins ELSE seen[r].failed + 1 IN
    /\ at[r] = "failed"
    /\ logins' = [failed |-> n, lock |-> IF n >= MaxFailedLogins THEN "LOCKED" ELSE "NONE"]
    /\ Leave(r)
    /\ UNCHANGED <<totp, tried>>

\* A right password clears the count; with two-factor on, a pending token follows.
LoginSucceeded(r) ==
    /\ at[r] = "succeeded"
    /\ logins' = NoFailures
    /\ Leave(r)
    /\ UNCHANGED <<totp, tried>>

\* A lock runs out.  The password's count goes on from where it was.
LoginLockEnds ==
    /\ logins.lock = "LOCKED"
    /\ logins' = [logins EXCEPT !.lock = "OVER"]
    /\ UNCHANGED <<totp, at, seen, given, tried>>

\* confirmPasswordReset clears the count and the lock with its new password.
passwordReset ==
    /\ logins' = NoFailures
    /\ UNCHANGED <<totp, at, seen, given, tried>>

-----------------------------------------------------------------------------
(* The code.                                                               *)

\* verifyTotp with a pending token: the row is read ...
verifyTotp(r, code) ==
    /\ totp.on /\ totp.secret
    /\ Enter(r, "verify", "reserve", totp, code)
    /\ UNCHANGED <<logins, totp, tried>>

Reserved(n) == [totp EXCEPT !.failed = n, !.lock = IF n >= MaxFailedTotp THEN "LOCKED" ELSE "NONE"]

\* Fault: the count is computed from the row that was read earlier.
reserveTotpAttemptLate(r) ==
    LET n == IF seen[r].lock = "NONE" THEN seen[r].failed + 1 ELSE 1 IN
    /\ at[r] = "reserve"
    /\ IF seen[r].lock = "LOCKED" THEN Leave(r) /\ UNCHANGED <<totp, tried>>
       ELSE /\ totp' = Reserved(n)
            /\ tried' = tried + 1
            /\ at' = [at EXCEPT ![r] = "check"]
            /\ UNCHANGED <<seen, given>>
    /\ UNCHANGED logins

\* ... an attempt is reserved, or refused while locked, ...
reserveTotpAttempt(r) ==
    LET n == IF totp.lock = "NONE" THEN totp.failed + 1 ELSE 1 IN
    /\ at[r] = "reserve"
    /\ IF totp.lock = "LOCKED" THEN Leave(r) /\ UNCHANGED <<totp, tried>>
       ELSE /\ totp' = Reserved(n)
            /\ tried' = tried + 1
            /\ at' = [at EXCEPT ![r] = "check"]
            /\ UNCHANGED <<seen, given>>
    /\ UNCHANGED logins

\* ... and the code is checked against the row that was read; a code of the
\* authenticator is right for that secret.  Success clears the count, and a
\* recovery code is taken from the list that was read.
CheckCode(r) ==
    LET c == given[r]
        recovered == c \in seen[r].codes
    IN  /\ at[r] = "check"
        /\ IF c = "right" \/ recovered
           THEN /\ totp' = IF recovered THEN [AttemptsCleared(totp) EXCEPT !.codes = seen[r].codes \ {c}]
                           ELSE AttemptsCleared(totp)
                /\ tried' = 0
           ELSE UNCHANGED <<totp, tried>>
        /\ Leave(r)
        /\ UNCHANGED logins

\* A code's lock runs out, and the next reservation starts at one.
TotpLockEnds ==
    /\ totp.lock = "LOCKED"
    /\ totp' = [totp EXCEPT !.lock = "OVER"]
    /\ tried' = 0
    /\ UNCHANGED <<logins, at, seen, given>>

-----------------------------------------------------------------------------
(* Enrolment.                                                              *)

\* setupTotp stores a new secret and switches two-factor off until it is confirmed.
setupTotp ==
    /\ "setup" \in FactorTogether \/ \A o \in FactorReqs : at[o] = "idle"
    /\ totp' = [totp EXCEPT !.secret = TRUE, !.on = FALSE]
    /\ UNCHANGED <<logins, at, seen, given, tried>>

\* confirmTotp checks a code against the secret it reads ...
confirmTotp(r) ==
    /\ totp.secret
    /\ Enter(r, "setup", "confirm", totp, "right")
    /\ UNCHANGED <<logins, totp, tried>>

\* ... and switches two-factor on with new recovery codes.
ConfirmCommit(r) ==
    /\ at[r] = "confirm"
    /\ totp' = [totp EXCEPT !.on = TRUE, !.codes = RecoveryCodes]
    /\ Leave(r)
    /\ UNCHANGED <<logins, tried>>

\* disableTotp, resetTotp and adminResetTotp clear everything.
disableTotp ==
    /\ "setup" \in FactorTogether \/ \A o \in FactorReqs : at[o] = "idle"
    /\ totp' = Cleared
    /\ tried' = 0
    /\ UNCHANGED <<logins, at, seen, given>>

\* A request fails or its process stops after what it has written.
FactorFail(r) ==
    /\ at[r] # "idle"
    /\ Leave(r)
    /\ UNCHANGED <<logins, totp, tried>>

FactorNext ==
    \/ LoginLockEnds \/ passwordReset \/ TotpLockEnds \/ setupTotp \/ disableTotp
    \/ \E r \in FactorReqs :
          \/ \E right \in BOOLEAN : loginPassword(r, right)
          \/ recordFailedAttempt(r) \/ LoginSucceeded(r)
          \/ \E c \in {"right", "wrong"} \cup RecoveryCodes : verifyTotp(r, c)
          \/ reserveTotpAttempt(r) \/ CheckCode(r)
          \/ confirmTotp(r) \/ ConfirmCommit(r) \/ FactorFail(r)

FactorSpec == FactorInit /\ [][FactorNext]_factorVars

-----------------------------------------------------------------------------

\* At most MaxFailedTotp codes are looked at before a right one, a reset or a
\* pause, however many requests arrive at once (reserveTotpAttempt).
CodesAreRationed == tried <= MaxFailedTotp
=============================================================================
