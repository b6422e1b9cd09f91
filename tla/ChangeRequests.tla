---------------------------- MODULE ChangeRequests ----------------------------
(***************************************************************************)
(* Changes of contact details that a customer asks for in the portal and   *)
(* staff approve or reject later, next to edits by staff and a merge of    *)
(* the applicant.  A request keeps the values the customer saw, and an     *)
(* approval compares them with the row before it writes.  Reads take no    *)
(* lock and every write is by id, so the statements of a review are apart; *)
(* its two updates become visible together when it commits.                *)
(***************************************************************************)
EXTENDS Null

CONSTANTS ChangeIds,
          ReviewTxs,
          Mailboxes,       \* e-mail addresses, in lower case
          PhoneLists,      \* what alternatePhones may be
          ReviewsTogether  \* operations that may overlap others of this set

VARIABLES
    contact,          \* applicants.email and alternate_phones, of one applicant
    emailNormalized,  \* applicants.email_normalized
    tombstone,        \* applicants.merged_into_id is set
    change,           \* applicant_change_requests: [status, changes], NULL if free; the
                      \* changes of a reviewed row are not read again and not kept
    review            \* open transactions, NULL where none

changeVars == <<contact, emailNormalized, tombstone, change, review>>

\* An address as typed.
Emails == [box : Mailboxes, cased : BOOLEAN]

normalizeEmail(e) == [e EXCEPT !.cased = FALSE]

\* The part of the applicant's row a customer may ask to change: some of the
\* fields, with a value for each (submitChangeRequestSchema).
Edits ==
    [{"email"} -> Emails] \cup [{"alternatePhones"} -> PhoneLists]
    \cup {[email |-> e, alternatePhones |-> p] : e \in Emails, p \in PhoneLists}

ChangeInit ==
    /\ contact \in [email : Emails, alternatePhones : PhoneLists]
    /\ emailNormalized = normalizeEmail(contact.email)
    /\ tombstone = FALSE
    /\ change = [c \in ChangeIds |-> NULL]
    /\ review = [t \in ReviewTxs |-> NULL]

Merged(to) == [f \in DOMAIN contact |-> IF f \in DOMAIN to THEN to[f] ELSE contact[f]]

\* submit: the current values are kept beside the wanted ones; a tombstone is not
\* refused.
submit(c, to) ==
    /\ change[c] = NULL
    /\ change' = [change EXCEPT ![c] =
          [status |-> "PENDING", changes |-> [f \in DOMAIN to |-> [from |-> contact[f], to |-> to[f]]]]]
    /\ UNCHANGED <<contact, emailNormalized, tombstone, review>>

Open(t, r) ==
    /\ review[t] = NULL
    /\ \A o \in ReviewTxs : review[o] # NULL => {r.op, review[o].op} \subseteq ReviewsTogether
    /\ review' = [review EXCEPT ![t] = r]
    /\ UNCHANGED <<contact, emailNormalized, tombstone, change>>

Close(t) == review' = [review EXCEPT ![t] = NULL]

\* ApplicantService.update: the tombstone is refused before the transaction, and
\* the search key follows the e-mail.
edit(t, to) == ~tombstone /\ Open(t, [op |-> "edit", to |-> to])

EditCommit(t) ==
    /\ review[t] # NULL /\ review[t].op = "edit"
    /\ contact' = Merged(review[t].to)
    /\ emailNormalized' = IF "email" \in DOMAIN review[t].to THEN normalizeEmail(review[t].to.email)
                          ELSE emailNormalized
    /\ Close(t)
    /\ UNCHANGED <<tombstone, change>>

\* ApplicantService.merge of this applicant into another.
mergeAway ==
    /\ ~tombstone
    /\ \A t \in ReviewTxs : review[t] # NULL => {"merge", review[t].op} \subseteq ReviewsTogether
    /\ tombstone' = TRUE
    /\ UNCHANGED <<contact, emailNormalized, change, review>>

Pending(c) == change[c] # NULL /\ change[c].status = "PENDING"

Reviewed(status) == [status |-> status, changes |-> << >>]

approve(t, c) ==
    /\ Pending(c)
    /\ Open(t, [op |-> "approve", id |-> c, changes |-> change[c].changes, compared |-> FALSE])

\* Fault: only the e-mail is compared.
UndriftedEmail(changes) == "email" \in DOMAIN changes => contact.email = changes.email.from

\* Every field still has the value the customer saw.
Undrifted(changes) == \A f \in DOMAIN changes : contact[f] = changes[f].from

\* The applicant's row is read and compared; a drift ends the review with 409.
Compare(t) ==
    /\ review[t] # NULL /\ review[t].op = "approve" /\ ~review[t].compared
    /\ IF Undrifted(review[t].changes) THEN review' = [review EXCEPT ![t].compared = TRUE] ELSE Close(t)
    /\ UNCHANGED <<contact, emailNormalized, tombstone, change>>

\* The two updates by id; the search key of the e-mail is not among the columns.
ApproveCommit(t) ==
    LET r == review[t] IN
    /\ r # NULL /\ r.op = "approve" /\ r.compared
    /\ contact' = Merged([f \in DOMAIN r.changes |-> r.changes[f].to])
    /\ change' = [change EXCEPT ![r.id] = Reviewed("APPROVED")]
    /\ Close(t)
    /\ UNCHANGED <<emailNormalized, tombstone>>

reject(t, c) == Pending(c) /\ Open(t, [op |-> "reject", id |-> c])

RejectCommit(t) ==
    /\ review[t] # NULL /\ review[t].op = "reject"
    /\ change' = [change EXCEPT ![review[t].id] = Reviewed("REJECTED")]
    /\ Close(t)
    /\ UNCHANGED <<contact, emailNormalized, tombstone>>

\* A statement fails and the transaction rolls back.
ReviewFails(t) ==
    /\ review[t] # NULL
    /\ Close(t)
    /\ UNCHANGED <<contact, emailNormalized, tombstone, change>>

ChangeNext ==
    \/ mergeAway
    \/ \E c \in ChangeIds, to \in Edits : submit(c, to)
    \/ \E t \in ReviewTxs :
        \/ \E to \in Edits : edit(t, to)
        \/ \E c \in ChangeIds : approve(t, c) \/ reject(t, c)
        \/ EditCommit(t) \/ Compare(t) \/ ApproveCommit(t) \/ RejectCommit(t) \/ ReviewFails(t)

ChangeSpec == ChangeInit /\ [][ChangeNext]_changeVars

-----------------------------------------------------------------------------

AsSeen(c) == \A f \in DOMAIN change[c].changes : contact[f] = change[c].changes[f].from
Approved(c) == change[c] # NULL /\ change[c].status = "APPROVED"

\* An approval never overwrites a value the customer had not seen: if a field was
\* edited after the request was submitted, the request is not approved (approve,
\* "TOCTOU-safe").
ApprovalsOverwriteNothing ==
    [][\A c \in ChangeIds : ~Approved(c) /\ Approved(c)' => AsSeen(c)]_changeVars

\* One at a time, reviews keep three promises at once, however many requests for
\* one applicant cross with edits: nothing unseen is overwritten, a request is
\* decided once, and an approved one is applied in whole.
ReviewedOnceOnWhatWasSeen ==
    [][\A c \in ChangeIds : change[c] # NULL /\ change'[c] # change[c] =>
          /\ change[c].status = "PENDING"
          /\ Approved(c)' =>
                /\ AsSeen(c)
                /\ \A f \in DOMAIN change[c].changes : contact'[f] = change[c].changes[f].to
      ]_changeVars

\* Not kept by the code (README.md, Known divergences): the key that findDuplicates
\* searches follows the e-mail.
EmailIsFound == emailNormalized = normalizeEmail(contact.email)
=============================================================================
