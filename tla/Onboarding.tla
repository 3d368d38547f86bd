----------------------------- MODULE Onboarding -----------------------------
(***************************************************************************)
(* How a merchant becomes active (routers/merchants.py, credentials.py,    *)
(* admin.py): credentials are saved, tested against Daraja and replaced,   *)
(* a KES 1 verification payment is made, and the owner (sandbox) or a      *)
(* platform administrator (production) activates the merchant.  The        *)
(* owner's requests read the merchant without a lock and commit later; an  *)
(* administrator's decision holds the merchant row from its read on.       *)
(***************************************************************************)
EXTENDS Null

CONSTANTS
    Credentials,    \* lynxpay_daraja_credentials rows
    Verifications,  \* verification payments
    Owners          \* requests of the organization in progress

ASSUME OnboardingAssumption == None \notin Credentials

VARIABLES
    merchant,       \* the merchant row
    credential,     \* the credential rows
    verification,   \* the verification payments
    owner,          \* the transaction of each request
    replaced        \* credentials saved across a request that read another one

onboardingVars == <<merchant, credential, verification, owner, replaced>>

\* "approved": the last decision of an administrator was an approval.
MerchantStates ==
    {"pending_setup", "credentials_added", "verified", "pending_approval", "active",
     "inactive", "rejected", "suspended"}
Environments == {"sandbox", "production"}
Merchants ==
    [environment : Environments, status : MerchantStates, approved : BOOLEAN]

\* "later": the payments created since last_tested_at.
CredentialRows ==
    [status : {"absent", "active", "disabled"}, tested : BOOLEAN, later : SUBSET Verifications]
\* "open" is every status but success; "with" the credential it was submitted with.
VerificationRows ==
    [status : {"absent", "open", "success"}, with : Credentials \cup {None}]

OwnerOps == {"save", "test", "disable", "pay", "activate", "submit"}
\* "same": the status read is the one the request will set, and the ORM writes
\* only what differs from what it read.
OwnerRows ==
    [op : OwnerOps \cup {"idle"}, credential : Credentials \cup {None}, same : BOOLEAN]
NoOwner == [op |-> "idle", credential |-> None, same |-> FALSE]

OnboardingTypeOK ==
    /\ merchant \in Merchants
    /\ credential \in [Credentials -> CredentialRows]
    /\ verification \in [Verifications -> VerificationRows]
    /\ owner \in [Owners -> OwnerRows]
    /\ replaced \subseteq Credentials

\* create_merchant
OnboardingInit ==
    /\ merchant \in [environment : Environments, status : {"pending_setup"}, approved : {FALSE}]
    /\ credential = [c \in Credentials |-> [status |-> "absent", tested |-> FALSE, later |-> {}]]
    /\ verification = [p \in Verifications |-> [status |-> "absent", with |-> None]]
    /\ owner = [o \in Owners |-> NoOwner]
    /\ replaced = {}

Production == merchant.environment = "production"
ActiveCredentials == {c \in Credentials : credential[c].status = "active"}

\* The last test of c was followed by a verification payment that succeeded.
Evidence(c) ==
    /\ credential[c].tested
    /\ \E p \in credential[c].later : verification[p].status = "success"

Close(o) == owner' = [owner EXCEPT ![o] = NoOwner]

Target == [save |-> "credentials_added", test |-> "verified", disable |-> "pending_setup"]
Wrote(o) == IF owner[o].same THEN merchant.status ELSE Target[owner[o].op]

(***************************************************************************)
(* A request reads the merchant and its active credential, and checks.     *)
(***************************************************************************)
MayBegin(op, c) ==
    /\ op # "save" => c # None
    /\ op \in {"pay", "activate", "submit"} => merchant.status = "verified"
    /\ op \in {"activate", "submit"} => Evidence(c)
    /\ op = "activate" => ~Production
    /\ op = "submit" => Production

BeginOwner(o, op) ==
    \E c \in ActiveCredentials \cup {None} :
        /\ owner[o].op = "idle"
        /\ c = None => ActiveCredentials = {}
        /\ MayBegin(op, c)
        /\ owner' = [owner EXCEPT ![o] =
                [op |-> op, credential |-> c,
                 same |-> op \in DOMAIN Target /\ merchant.status = Target[op]]]
        /\ UNCHANGED <<merchant, credential, verification, replaced>>

SavedKeepingStatus(o) == merchant.status    \* mutant: a new credential keeps the status
Saved(o) == Wrote(o)

\* _write_credential; the unique index allows one active credential.
CommitSave(o, c) ==
    LET old == owner[o].credential
        reading == {q \in Owners : owner[q].op \in {"pay", "activate"}}
    IN  /\ owner[o].op = "save"
        /\ credential[c].status = "absent"
        /\ ActiveCredentials \subseteq {old}
        /\ credential' = [k \in Credentials |->
              IF k = c THEN [credential[c] EXCEPT !.status = "active"]
              ELSE IF k = old THEN [credential[k] EXCEPT !.status = "disabled"]
              ELSE credential[k]]
        /\ merchant' = [merchant EXCEPT !.status = Saved(o)]
        /\ replaced' = IF reading # {} \/ Wrote(o) # "credentials_added"
                      THEN replaced \cup {c} ELSE replaced
        /\ Close(o)
        /\ UNCHANGED verification

\* test_daraja_credential: the answer came after an await.
CommitTest(o) ==
    /\ owner[o].op = "test"
    /\ credential' = [credential EXCEPT
          ![owner[o].credential].tested = TRUE, ![owner[o].credential].later = {}]
    /\ merchant' = [merchant EXCEPT !.status = Wrote(o)]
    /\ Close(o)
    /\ UNCHANGED <<verification, replaced>>

CommitDisable(o) ==
    /\ owner[o].op = "disable"
    /\ credential' = [credential EXCEPT ![owner[o].credential].status = "disabled"]
    /\ merchant' = [merchant EXCEPT !.status = Wrote(o)]
    /\ Close(o)
    /\ UNCHANGED <<verification, replaced>>

\* create_stk_push with purpose merchant_verification
CommitVerification(o, p) ==
    /\ owner[o].op = "pay"
    /\ verification[p].status = "absent"
    /\ verification' = [verification EXCEPT ![p] = [status |-> "open", with |-> owner[o].credential]]
    /\ credential' = [c \in Credentials |->
          IF credential[c].tested
          THEN [credential[c] EXCEPT !.later = @ \cup {p}] ELSE credential[c]]
    /\ Close(o)
    /\ UNCHANGED <<merchant, replaced>>

PaymentSucceeds(p) ==
    /\ verification[p].status = "open"
    /\ verification' = [verification EXCEPT ![p].status = "success"]
    /\ UNCHANGED <<merchant, credential, owner, replaced>>

\* update_merchant to active, and submit_merchant_for_approval
CommitStatus(o) ==
    /\ owner[o].op \in {"activate", "submit"}
    /\ merchant' = [merchant EXCEPT
          !.status = IF owner[o].op = "activate" THEN "active" ELSE "pending_approval"]
    /\ Close(o)
    /\ UNCHANGED <<credential, verification, replaced>>

\* update_merchant to a status that needs no evidence
Withhold(status) ==
    /\ status \in {"inactive", "pending_setup"}
    /\ merchant' = [merchant EXCEPT !.status = status]
    /\ UNCHANGED <<credential, verification, owner, replaced>>

\* Daraja refuses the credential, a unique index refuses the row, or a crash.
Fail(o) ==
    /\ owner[o].op # "idle"
    /\ Close(o)
    /\ UNCHANGED <<merchant, credential, verification, replaced>>

(***************************************************************************)
(* The platform administrator.                                             *)
(***************************************************************************)
AwaitsApproval == Production /\ merchant.status = "pending_approval"

Decide(status) ==
    /\ merchant' = [merchant EXCEPT !.status = status, !.approved = (status = "active")]
    /\ UNCHANGED <<credential, verification, owner, replaced>>

Approve ==
    /\ AwaitsApproval
    /\ \E c \in ActiveCredentials : Evidence(c)
    /\ Decide("active")
Reject == AwaitsApproval /\ Decide("rejected")
Suspend == merchant.status # "suspended" /\ Decide("suspended")

OwnerStep(o) ==
    \/ \E op \in OwnerOps : BeginOwner(o, op)
    \/ \E c \in Credentials : CommitSave(o, c)
    \/ \E p \in Verifications : CommitVerification(o, p)
    \/ CommitTest(o) \/ CommitDisable(o) \/ CommitStatus(o) \/ Fail(o)

OnboardingNext ==
    \/ \E o \in Owners : OwnerStep(o)
    \/ \E p \in Verifications : PaymentSucceeds(p)
    \/ \E status \in MerchantStates : Withhold(status)
    \/ Approve \/ Reject \/ Suspend

OnboardingSpec == OnboardingInit /\ [][OnboardingNext]_onboardingVars

-----------------------------------------------------------------------------
\* An active merchant's credential has taken a KES 1 payment that succeeded,
\* although tests, replacements and activations overlap; the exceptions are the
\* credentials in "replaced", which were saved while an activation or a payment
\* that had read the old one was under way, or whose save skipped the status
\* because another request had moved it.  A production merchant is active only
\* while the administrators' last decision about it is an approval.
ActiveIsEarned ==
    merchant.status = "active" =>
        /\ \A c \in ActiveCredentials \ replaced :
              \E p \in Verifications : verification[p].status = "success" /\ verification[p].with = c
        /\ Production => merchant.approved

=============================================================================
