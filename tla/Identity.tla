------------------------------ MODULE Identity ------------------------------
(***************************************************************************)
(* The identity part of TrustCore (src/src/kyn/service.py), on top of      *)
(* Assurance: enrolment behind the operator release, consent, key          *)
(* recovery, and privacy requests.  With it the specification covers every *)
(* signed handler of the HTTP API that changes the core, except            *)
(* presentations, which record an event only.                              *)
(*                                                                         *)
(* A subject of Subjects exists once it is enrolled, and keyOf says which  *)
(* key is bound to it.  The HTTP handler looks the key up before the       *)
(* transaction, so a deletion may overtake a request it authorized: see    *)
(* Authorized.                                                             *)
(*                                                                         *)
(* Data.  Tables are sequences, so an id is a position and rows keep the   *)
(* order in which they were made.  Of the purposes of a consent only       *)
(* kyn_claim_processing matters here.  A recovery request with a secret    *)
(* that does not match its commitment is refused; a request below is one   *)
(* whose secret matches.                                                   *)
(***************************************************************************)
EXTENDS Assurance

CONSTANTS
    Releases,         \* the [version, notice] of releases operators register
    OrdinaryVersion,  \* "2.0.0", the release that opens ordinary enrolment
    MaxReleases, MaxConsents, MaxCommitments, MaxCases, MaxPrivacy \* bounds

VARIABLES
    enrolled,       \* _subjects
    releases,       \* _operator_releases
    consents,       \* _consents
    commitments,    \* _recovery_commitments
    cases,          \* _recovery_cases
    privacy         \* _privacy_requests

identityVars == <<enrolled, releases, consents, commitments, cases, privacy>>
coreVars == <<allVars, identityVars>>

AllPrivacyKinds == PrivacyRequestKind \cup {"export"}

OperatorRelease == [version : {r.version : r \in Releases},
                    notice : {r.notice : r \in Releases}, suspended : BOOLEAN]
ConsentRecord == [subject : Subjects, notice : {r.notice : r \in Releases},
                  forClaims : BOOLEAN, withdrawn : BOOLEAN,
                  overtaken : BOOLEAN]  \* recorded for ConsentEndsWithBinding
RecoveryCommitment == [subject : Subjects, consumed : BOOLEAN]
RecoveryCase == [subject : Subjects, commitment : Nat, key : Keys,
                 state : {"pending", "approved", "rejected"}]
PrivacyRequest == [subject : Subjects, kind : AllPrivacyKinds,
                   state : {"pending", "completed", "rejected"}]

-----------------------------------------------------------------------------
(* Lookups. *)

ActiveReleases == {i \in DOMAIN releases : ~releases[i].suspended}

(* current_operator_release: the one active release, else nothing. *)
ReleaseActive == Cardinality(ActiveReleases) = 1
CurrentRelease == releases[CHOOSE i \in ActiveReleases : TRUE]

LiveConsents(s) == {i \in DOMAIN consents : consents[i].subject = s /\ ~consents[i].withdrawn}

(* _has_active_consent for kyn_claim_processing *)
HasActiveConsent(s) == \E i \in LiveConsents(s) : consents[i].forClaims

OpenCommitments(s) ==
    {i \in DOMAIN commitments : commitments[i].subject = s /\ ~commitments[i].consumed}

PendingCases(s) ==
    {i \in DOMAIN cases : cases[i].subject = s /\ cases[i].state = "pending"}

(* Mutant: nobody looks whether the key is enrolled. *)
KeyUnchecked(k) == k \in Keys

KeyIsFree(k) == \A s \in enrolled : keyOf[s] # k

(* A request of s whose proof was verified may commit now.  The proof is   *)
(* verified with the key in the state that load_core read earlier; the     *)
(* transition only requires that the subject exists.  From its enrolment   *)
(* until its first deletion a subject has a key, so a request authorized   *)
(* in that time may be the next to commit at any time after.               *)
Authorized(s) == s \in enrolled

(* _consents after the live consents of s are withdrawn *)
Withdrawn(s) ==
    [i \in DOMAIN consents |->
        IF i \in LiveConsents(s) THEN [consents[i] EXCEPT !.withdrawn = TRUE]
        ELSE consents[i]]

-----------------------------------------------------------------------------
(* Enrolment and release. *)

IdentityInit ==
    /\ NoAssuranceYet /\ keyOf = [s \in Subjects |-> None]
    /\ enrolled = {} /\ releases = <<>> /\ consents = <<>>
    /\ commitments = <<>> /\ cases = <<>> /\ privacy = <<>>

(* The rows of Assurance other than the key bindings. *)
assuranceTables == <<claims, requests, invitations, introductions, attestations,
                     audits, challenges, credentials>>

(* The record that create_subject adds. *)
AddSubject(s, k) ==
    /\ s \notin enrolled
    /\ KeyIsFree(k)
    /\ enrolled' = enrolled \cup {s}
    /\ keyOf' = [keyOf EXCEPT ![s] = k]

(* create_subject: ordinary enrolment, under release 2.0.0 *)
CreateSubject(s, k) ==
    /\ ReleaseActive /\ CurrentRelease.version = OrdinaryVersion
    /\ AddSubject(s, k)
    /\ UNCHANGED <<authorityVars, assuranceTables, releases, consents,
                   commitments, cases, privacy>>

(* Mutant: the superseded release stays active. *)
AddReleaseBeside(rel) ==
    /\ Len(releases) < MaxReleases
    /\ ReleaseActive => CurrentRelease.version # rel.version
    /\ releases' = Append(releases,
           [version |-> rel.version, notice |-> rel.notice, suspended |-> FALSE])

(* The record that register_operator_release adds, suspending the release  *)
(* it supersedes.                                                          *)
AddRelease(rel) ==
    /\ Len(releases) < MaxReleases
    /\ ReleaseActive => CurrentRelease.version # rel.version
    /\ releases' = Append(
           [i \in DOMAIN releases |->
               IF ReleaseActive /\ i \in ActiveReleases
               THEN [releases[i] EXCEPT !.suspended = TRUE] ELSE releases[i]],
           [version |-> rel.version, notice |-> rel.notice, suspended |-> FALSE])

(* register_operator_release *)
RegisterOperatorRelease(a, rel) ==
    /\ SignedUse(a, "manage_release", None, None)
    /\ AddRelease(rel)
    /\ UNCHANGED <<assuranceVars, enrolled, consents, commitments, cases, privacy>>

(* activate_bootstrap: the first subject, the root grant and the first     *)
(* release, in one command.                                                *)
ActivateBootstrap(s, k, e, rel) ==
    /\ AddSubject(s, k)
    /\ BootstrapAuthority(s, e)
    /\ AddRelease(rel)
    /\ UNCHANGED <<assuranceTables, consents, commitments, cases, privacy>>

-----------------------------------------------------------------------------
(* Consent and the claim request it permits. *)

(* accept_consent.  A deletion that committed after the key was looked up  *)
(* has overtaken the request.                                              *)
AcceptConsent(s, forClaims) ==
    /\ Len(consents) < MaxConsents
    /\ Authorized(s) /\ ReleaseActive
    /\ consents' = Append(Withdrawn(s),
           [subject |-> s, notice |-> CurrentRelease.notice,
            forClaims |-> forClaims, withdrawn |-> FALSE,
            overtaken |-> ~CanSign(s)])
    /\ UNCHANGED <<allVars, enrolled, releases, commitments, cases, privacy>>

(* request_claim *)
RequestConsentedClaim(s, d) ==
    /\ Authorized(s) /\ ReleaseActive /\ HasActiveConsent(s)
    /\ RequestClaim(s, d)
    /\ UNCHANGED identityVars

-----------------------------------------------------------------------------
(* Recovery. *)

(* register_recovery_commitment *)
RegisterRecoveryCommitment(s) ==
    /\ Len(commitments) < MaxCommitments
    /\ Authorized(s) /\ ReleaseActive
    /\ OpenCommitments(s) = {}
    /\ commitments' = Append(commitments, [subject |-> s, consumed |-> FALSE])
    /\ UNCHANGED <<allVars, enrolled, releases, consents, cases, privacy>>

(* Mutant: a second request may be opened while one is pending. *)
RequestRecoveryAgain(s, k) ==
    /\ Len(cases) < MaxCases
    /\ ReleaseActive
    /\ s \in enrolled /\ keyOf[s] # None
    /\ KeyIsFree(k)
    /\ \E c \in OpenCommitments(s) :
          /\ OpenCommitments(s) = {c}
          /\ cases' = Append(cases, [subject |-> s, commitment |-> c, key |-> k,
                                     state |-> "pending"])
    /\ UNCHANGED <<allVars, enrolled, releases, consents, commitments, privacy>>

(* Mutant: the case records its own id as that of the commitment. *)
RequestRecoveryMisfiled(s, k) ==
    /\ Len(cases) < MaxCases
    /\ ReleaseActive
    /\ s \in enrolled /\ keyOf[s] # None
    /\ KeyIsFree(k)
    /\ PendingCases(s) = {}
    /\ Cardinality(OpenCommitments(s)) = 1
    /\ cases' = Append(cases, [subject |-> s, commitment |-> Len(cases) + 1, key |-> k,
                               state |-> "pending"])
    /\ UNCHANGED <<allVars, enrolled, releases, consents, commitments, privacy>>

(* request_recovery, signed with the replacement key k *)
RequestRecovery(s, k) ==
    /\ Len(cases) < MaxCases
    /\ ReleaseActive
    /\ s \in enrolled /\ keyOf[s] # None
    /\ KeyIsFree(k)
    /\ PendingCases(s) = {}
    /\ \E c \in OpenCommitments(s) :
          /\ OpenCommitments(s) = {c}
          /\ cases' = Append(cases, [subject |-> s, commitment |-> c, key |-> k,
                                     state |-> "pending"])
    /\ UNCHANGED <<allVars, enrolled, releases, consents, commitments, privacy>>

(* Mutant: the commitment is not consumed. *)
DecideRecoveryReusable(a, i, approve) ==
    /\ SignedUse(a, "decide_recovery", None, None)
    /\ cases[i].state = "pending"
    /\ cases' = [cases EXCEPT ![i].state = IF approve THEN "approved" ELSE "rejected"]
    /\ keyOf' = IF approve THEN [keyOf EXCEPT ![cases[i].subject] = cases[i].key]
                ELSE keyOf
    /\ UNCHANGED <<assuranceTables, enrolled, releases, consents, commitments, privacy>>

(* decide_recovery *)
DecideRecovery(a, i, approve) ==
    /\ SignedUse(a, "decide_recovery", None, None)
    /\ cases[i].state = "pending"
    /\ cases' = [cases EXCEPT ![i].state = IF approve THEN "approved" ELSE "rejected"]
    /\ keyOf' = IF approve THEN [keyOf EXCEPT ![cases[i].subject] = cases[i].key]
                ELSE keyOf
    /\ commitments' = IF approve
                      THEN [commitments EXCEPT ![cases[i].commitment].consumed = TRUE]
                      ELSE commitments
    /\ UNCHANGED <<assuranceTables, enrolled, releases, consents, privacy>>

-----------------------------------------------------------------------------
(* Privacy requests. *)

(* open_privacy_request *)
OpenPrivacyRequest(s, kind) ==
    /\ Len(privacy) < MaxPrivacy
    /\ Authorized(s)
    /\ \A i \in DOMAIN privacy :
          privacy[i].subject = s /\ privacy[i].kind = kind => privacy[i].state # "pending"
    /\ privacy' = Append(privacy, [subject |-> s, kind |-> kind, state |-> "pending"])
    /\ UNCHANGED <<allVars, enrolled, releases, consents, commitments, cases>>

(* Mutant: only a withdrawal withdraws the consents. *)
ProcessPrivacyKeepingConsent(a, i, approve) ==
    LET s == privacy[i].subject
        kind == privacy[i].kind
    IN  /\ privacy[i].state = "pending"
        /\ privacy' = [privacy EXCEPT ![i].state =
                          IF approve THEN "completed" ELSE "rejected"]
        /\ \/ /\ approve /\ kind \in PrivacyRequestKind
              /\ InvalidateSubjectState(a, s, kind)
              /\ consents' = IF kind = "consent_withdrawal" THEN Withdrawn(s) ELSE consents
           \/ /\ ~approve \/ kind = "export"
              /\ SignedUse(a, "process_privacy", None, None)
              /\ UNCHANGED <<assuranceVars, consents>>
        /\ UNCHANGED <<enrolled, releases, commitments, cases>>

(* process_privacy_request *)
ProcessPrivacyRequest(a, i, approve) ==
    LET s == privacy[i].subject
        kind == privacy[i].kind
    IN  /\ privacy[i].state = "pending"
        /\ privacy' = [privacy EXCEPT ![i].state =
                          IF approve THEN "completed" ELSE "rejected"]
        /\ \/ /\ approve /\ kind \in PrivacyRequestKind
              /\ InvalidateSubjectState(a, s, kind)
              /\ consents' = IF kind = "correction" THEN consents ELSE Withdrawn(s)
           \/ /\ ~approve \/ kind = "export"
              /\ SignedUse(a, "process_privacy", None, None)
              /\ UNCHANGED <<assuranceVars, consents>>
        /\ UNCHANGED <<enrolled, releases, commitments, cases>>

-----------------------------------------------------------------------------

(* _require_subject for the subjects that the other handlers name. *)
NamedSubjectsEnrolled ==
    /\ \A i \in Ids : grants[i].holder \in enrolled
    /\ \A inv \in invitations : inv.verifier \in enrolled
    /\ \A x \in introductions : {x.introducer, x.verifier} \subseteq enrolled

IdentityNext ==
    \/ AssuranceSteps /\ UNCHANGED identityVars /\ NamedSubjectsEnrolled'
    \/ \E s \in Subjects, k \in Keys : CreateSubject(s, k)
    \/ \E s \in Subjects, k \in Keys, e \in 1..MaxTime + 1, rel \in Releases :
          ActivateBootstrap(s, k, e, rel)
    \/ \E a \in Ids, rel \in Releases : RegisterOperatorRelease(a, rel)
    \/ \E s \in enrolled, f \in BOOLEAN : AcceptConsent(s, f)
    \/ \E s \in enrolled, d \in claims : RequestConsentedClaim(s, d)
    \/ \E s \in enrolled : RegisterRecoveryCommitment(s)
    \/ \E s \in enrolled, k \in Keys : RequestRecovery(s, k)
    \/ \E a \in Ids, i \in DOMAIN cases, b \in BOOLEAN : DecideRecovery(a, i, b)
    \/ \E s \in enrolled, kind \in AllPrivacyKinds : OpenPrivacyRequest(s, kind)
    \/ \E a \in Ids, i \in DOMAIN privacy, b \in BOOLEAN : ProcessPrivacyRequest(a, i, b)

IdentitySpec == IdentityInit /\ [][IdentityNext]_coreVars

-----------------------------------------------------------------------------
(* Properties. *)

(* Type invariant: the tables hold the records of models.py and refer to   *)
(* rows that exist.                                                        *)
IdentityTypeOK ==
    /\ AssuranceTypeOK
    /\ enrolled \subseteq Subjects
    /\ releases \in Seq(OperatorRelease) /\ consents \in Seq(ConsentRecord)
    /\ commitments \in Seq(RecoveryCommitment) /\ cases \in Seq(RecoveryCase)
    /\ \A i \in DOMAIN cases : cases[i].commitment \in DOMAIN commitments
    /\ privacy \in Seq(PrivacyRequest)

(* From the bootstrap on exactly one release is active, through every      *)
(* replacement: with none or two of them current_operator_release fails    *)
(* for good, and enrolment, consent and claims with it.                    *)
ReleaseNeverLost == releases # <<>> => ReleaseActive

(* A recovery commitment is good for one approved recovery, of the subject *)
(* who made it: it is consumed exactly when a case under it was approved,  *)
(* and no second case under it, pending before or opened after a           *)
(* rejection, is approved too.                                             *)
CommitmentsSingleUse ==
    \A c \in DOMAIN commitments :
        LET approved == {i \in DOMAIN cases :
                            cases[i].commitment = c /\ cases[i].state = "approved"}
        IN  /\ Cardinality(approved) = (IF commitments[c].consumed THEN 1 ELSE 0)
            /\ \A i \in approved : cases[i].subject = commitments[c].subject

(* A pending recovery case always rests on a commitment that is still      *)
(* open, and a subject has at most one of each, so that a decision never   *)
(* approves on spent evidence.                                             *)
PendingRecoveryIsBacked ==
    \A s \in Subjects :
        /\ Cardinality(OpenCommitments(s)) <= 1
        /\ Cardinality(PendingCases(s)) <= 1
        /\ \A i \in PendingCases(s) : cases[i].commitment \in OpenCommitments(s)

(* A key that is bound to two subjects got to one of them by an approved   *)
(* recovery: the replacement key is compared with the enrolled ones when   *)
(* the recovery is requested and not again when it is approved.  Enrolment *)
(* and activation never share a key, whatever recoveries and deletions     *)
(* came before.                                                            *)
SharedKeyIsRecovered ==
    \A s, t \in enrolled : s # t /\ keyOf[s] # None /\ keyOf[s] = keyOf[t] =>
        \E i \in DOMAIN cases : /\ cases[i].state = "approved"
                                /\ cases[i].subject \in {s, t}
                                /\ cases[i].key = keyOf[s]

(* A deletion ends the consents that were given before it, in every order  *)
(* of consents, withdrawals, recoveries and deletions: a live consent of a *)
(* subject without key binding is one whose request the deletion overtook  *)
(* between the key lookup and the transaction.  Nothing else gives consent *)
(* to claims for him, and he has at most one live consent.                 *)
ConsentEndsWithBinding ==
    \A s \in Subjects :
        /\ Cardinality(LiveConsents(s)) <= 1
        /\ keyOf[s] = None => \A i \in LiveConsents(s) : consents[i].overtaken

-----------------------------------------------------------------------------
(* What the documentation says and the code does not do. *)

Deleted(s) ==
    \E i \in DOMAIN privacy : /\ privacy[i].subject = s
                              /\ privacy[i].kind = "deletion"
                              /\ privacy[i].state = "completed"

(* "Deletion removes the participant-key binding": a deleted subject has   *)
(* no key again.  A recovery that was pending at the deletion binds one.   *)
DeletedStaysUnbound == \A s \in Subjects : Deleted(s) => keyOf[s] = None
=============================================================================
