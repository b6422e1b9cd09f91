------------------------------ MODULE Applicants ------------------------------
(***************************************************************************)
(* Applicants, the duplicates among them, merging, and the ways a lead     *)
(* finds or makes its applicant.  A merged applicant stays as a tombstone  *)
(* that points to the survivor.  Most handlers look for duplicates or      *)
(* tombstones before their transaction, so reading and writing are two     *)
(* steps.                                                                  *)
(***************************************************************************)
EXTENDS Null

CONSTANTS People,      \* ids of applicants
          Inquiries, AppTxs,
          Numbers,     \* telephone numbers, as dialled within the country
          Foreign,     \* those of them that are not Indian mobile numbers
          AppTogether \* operations that may overlap others of this set

\* A number as typed: with a country or trunk prefix or without.
Typed == [prefix : {"", "+91", "0"}, number : Numbers]

ApplicantRow == [phone : Typed, mergedInto : People \cup {NULL}]

ASSUME AppAssumption == NULL \notin People /\ NULL \notin ApplicantRow

VARIABLES
    person,     \* applicants: [phone (normalised), mergedInto], NULL if free
    inquiryOf,  \* inquiries.applicant_id
    distinct,   \* applicant_distinct_pairs
    autoLink,   \* company_configs.presales_phone_dedup_auto_link
    appReq

appVars == <<person, inquiryOf, distinct, autoLink, appReq>>

AppInit ==
    /\ person = [a \in People |-> NULL]
    /\ inquiryOf = [i \in Inquiries |-> NULL]
    /\ distinct = {}
    /\ autoLink \in BOOLEAN
    /\ appReq = [t \in AppTxs |-> NULL]

-----------------------------------------------------------------------------
(* Phones.                                                                 *)

\* Fault: numbers are compared as typed.
normalizePhoneAsTyped(raw) == raw

\* normalizePhone: an Indian mobile number loses its prefix, any other input is
\* kept as it is.
normalizePhone(raw) == IF raw.number \in Foreign THEN raw ELSE [raw EXCEPT !.prefix = ""]

Live == {a \in People : person[a] # NULL /\ person[a].mergedInto = NULL}

\* findDuplicates: live applicants with the same normalised phone.
findDuplicates(phone) == {a \in Live : person[a].phone = phone}

\* findDuplicatesForApplicant: without itself and the pairs confirmed distinct.
findDuplicatesForApplicant(a) ==
    {b \in findDuplicates(person[a].phone) \ {a} : {a, b} \notin distinct}

-----------------------------------------------------------------------------
(* One operation at a time, except for those of AppTogether.               *)

Ask(t, r) ==
    /\ appReq[t] = NULL
    /\ \A o \in AppTxs : appReq[o] # NULL => {r.op, appReq[o].op} \subseteq AppTogether
    /\ appReq' = [appReq EXCEPT ![t] = r]
    /\ UNCHANGED <<person, inquiryOf, distinct, autoLink>>

Answer(t) == appReq' = [appReq EXCEPT ![t] = NULL]

\* ApplicantService.create and InquiryService.create with a new applicant: the
\* duplicates are reported, the applicant is made in any case.
createApplicant(t, raw) == Ask(t, [op |-> "create", phone |-> normalizePhone(raw)])

ApplicantCommit(t) ==
    /\ appReq[t] # NULL /\ appReq[t].op = "create"
    /\ \E a \in People :
          /\ person[a] = NULL
          /\ person' = [person EXCEPT ![a] = [phone |-> appReq[t].phone, mergedInto |-> NULL]]
          /\ \/ UNCHANGED inquiryOf
             \/ \E i \in Inquiries : /\ inquiryOf[i] = NULL
                                     /\ inquiryOf' = [inquiryOf EXCEPT ![i] = a]
    /\ Answer(t)
    /\ UNCHANGED <<distinct, autoLink>>

\* findFirst, then the refusal of a tombstone.
StandingApplicant(a) == person[a] # NULL /\ person[a].mergedInto = NULL

\* InquiryService.create for an existing applicant.
createInquiry(t, a) == StandingApplicant(a) /\ Ask(t, [op |-> "inquiry", a |-> a])

ApplicantInquiryCommit(t) ==
    /\ appReq[t] # NULL /\ appReq[t].op = "inquiry"
    /\ \E i \in Inquiries : /\ inquiryOf[i] = NULL
                            /\ inquiryOf' = [inquiryOf EXCEPT ![i] = appReq[t].a]
    /\ Answer(t)
    /\ UNCHANGED <<person, distinct, autoLink>>

\* InquiryService.createFromLead: the first duplicate found, if linking is on.
leadIntake(t, raw) ==
    LET phone == normalizePhone(raw)
    IN  \E a \in IF findDuplicates(phone) = {} THEN {NULL} ELSE findDuplicates(phone) :
            Ask(t, [op |-> "lead", phone |-> phone, a |-> IF autoLink THEN a ELSE NULL])

\* Take on lead i for applicant a, or for a new one when a is NULL.
PlaceLead(i, a, phone) ==
    /\ inquiryOf[i] = NULL
    /\ IF a # NULL
       THEN inquiryOf' = [inquiryOf EXCEPT ![i] = a] /\ UNCHANGED person
       ELSE \E b \in People :
              /\ person[b] = NULL
              /\ person' = [person EXCEPT ![b] = [phone |-> phone, mergedInto |-> NULL]]
              /\ inquiryOf' = [inquiryOf EXCEPT ![i] = b]

PlaceCommit(t) ==
    /\ appReq[t] # NULL /\ appReq[t].op = "lead"
    /\ \E i \in Inquiries : PlaceLead(i, appReq[t].a, appReq[t].phone)
    /\ Answer(t)
    /\ UNCHANGED <<distinct, autoLink>>

\* A row of importInquiries, which looks inside its own transaction.
importRow(raw) ==
    LET phone == normalizePhone(raw)
    IN  /\ \A t \in AppTxs : appReq[t] = NULL
        /\ \E i \in Inquiries :
             \E a \in IF findDuplicates(phone) = {} THEN {NULL} ELSE findDuplicates(phone) :
                PlaceLead(i, IF autoLink THEN a ELSE NULL, phone)
        /\ UNCHANGED <<distinct, autoLink, appReq>>

\* ApplicantService.update of the phone.
updateApplicant(t, a, raw) ==
    /\ StandingApplicant(a)
    /\ Ask(t, [op |-> "update", a |-> a, phone |-> normalizePhone(raw)])

PhoneCommit(t) ==
    /\ appReq[t] # NULL /\ appReq[t].op = "update"
    /\ person' = [person EXCEPT ![appReq[t].a].phone = appReq[t].phone]
    /\ Answer(t)
    /\ UNCHANGED <<inquiryOf, distinct, autoLink>>

Mergeable(s, m) == s # m /\ StandingApplicant(s) /\ StandingApplicant(m)

merge(t, s, m) == Mergeable(s, m) /\ Ask(t, [op |-> "merge", survivor |-> s, merged |-> m])

\* Fault: the leads stay with the merged applicant.
LeadsLeftBehind(s, m) == inquiryOf

\* inquiry.updateMany: the leads follow; communication rows stay where they are.
LeadsMoved(s, m) == [i \in Inquiries |-> IF inquiryOf[i] = m THEN s ELSE inquiryOf[i]]

MergeCommit(t) ==
    LET s == appReq[t].survivor
        m == appReq[t].merged
    IN  /\ appReq[t] # NULL /\ appReq[t].op = "merge"
        /\ inquiryOf' = LeadsMoved(s, m)
        /\ person' = [person EXCEPT ![m].mergedInto = s]
        /\ Answer(t)
        /\ UNCHANGED <<distinct, autoLink>>

\* confirmDistinct: an upsert of the ordered pair, so an unordered one here.
confirmDistinct(a, b) ==
    /\ a # b /\ person[a] # NULL /\ person[b] # NULL
    /\ distinct' = distinct \cup {{a, b}}
    /\ UNCHANGED <<person, inquiryOf, autoLink, appReq>>

AppRefuse(t) ==
    /\ appReq[t] # NULL
    /\ Answer(t)
    /\ UNCHANGED <<person, inquiryOf, distinct, autoLink>>

AppNext ==
    \/ \E t \in AppTxs :
        \/ \E raw \in Typed : \/ createApplicant(t, raw)
                              \/ leadIntake(t, raw)
                              \/ \E a \in People : updateApplicant(t, a, raw)
        \/ \E a \in People : createInquiry(t, a)
        \/ \E a, b \in People : merge(t, a, b)
        \/ ApplicantCommit(t) \/ ApplicantInquiryCommit(t) \/ PlaceCommit(t)
        \/ PhoneCommit(t) \/ MergeCommit(t) \/ AppRefuse(t)
    \/ \E raw \in Typed : importRow(raw)
    \/ \E a, b \in People : confirmDistinct(a, b)

AppSpec == AppInit /\ [][AppNext]_appVars

-----------------------------------------------------------------------------
(* Properties.                                                             *)

Tombstones == {a \in People : person[a] # NULL /\ person[a].mergedInto # NULL}

\* Merging loses nobody: every lead belongs to an applicant that is not a
\* tombstone, and the pointers out of any set of tombstones lead on to an applicant
\* outside it.  So from every tombstone, however merges are chained, they lead to a
\* live applicant, and never round in a circle (merge).
LeadsFollowMerges ==
    /\ \A i \in Inquiries : inquiryOf[i] # NULL => inquiryOf[i] \in Live
    /\ \A S \in SUBSET Tombstones : S # {} =>
          \E a \in S : person[a].mergedInto \in (Live \cup Tombstones) \ S

\* Two phones that ring in one place, as far as the company can tell.
SameLine(p, q) == p = q \/ (p.number = q.number /\ p.number \notin Foreign)

\* With linking on, a lead that no human takes in never adds a second live
\* applicant for a number, however the number is typed (createFromLead, import).
MachineIntakeLinks ==
    [][\A a \in People :
          /\ autoLink /\ person[a] = NULL /\ person'[a] # NULL
          /\ \A t \in AppTxs : appReq[t] # NULL => appReq[t].op # "create"
          => \A b \in Live : ~SameLine(person[b].phone, person'[a].phone)
      ]_appVars
=============================================================================
