------------------------------ MODULE Assurance ------------------------------
(***************************************************************************)
(* The assurance part of TrustCore (src/src/kyn/service.py) on top of the  *)
(* authority grants: claim definitions and requests, invitations and       *)
(* introductions, attestations, audits, challenges and appeals, and the    *)
(* credentials that _recalculate derives from them.                        *)
(*                                                                         *)
(* This is the live policy (main.py): authority is enforced and the HTTP   *)
(* API never sends an independence path of its own, so a peer attestation  *)
(* needs an introduction and only the bases peer_attested and              *)
(* bootstrap_vouched can be issued.  Consent and release, which gate       *)
(* request_claim as well, belong to Identity.  An action of Authority that *)
(* a handler here performs is a conjunct of it.                            *)
(*                                                                         *)
(* Data.  Requests, attestations and challenges are sequences, so an id is *)
(* a position.  An attestation has at most one audit ever, so audits maps  *)
(* attestations to outcomes.  A credential exists once per request.  The   *)
(* independence path of a peer attestation is a keyed hash of the request  *)
(* and the introducer: the introducer stands for it.  How subjects get and *)
(* replace keys belongs to Identity, which adds enrolment, release,        *)
(* consent and recovery to these actions.                                  *)
(*                                                                         *)
(* Keys.  The API verifies a proof with the key in the committed state it  *)
(* reads before the transaction, and the transition does not look at the   *)
(* key again: a deletion may commit in between.  An action is the          *)
(* transition, so one on a subject's own signature has no guard on the     *)
(* key.  One on a grant has: the deletion has revoked the grant, which the *)
(* transition validates, and a grant made later was not there to be named  *)
(* when the key was looked up.                                             *)
(***************************************************************************)
EXTENDS Authority, Sequences

CONSTANTS
    Definitions,       \* claim definitions that callers register
    Expiries,          \* expiry dates that callers send
    PrivacyCases,      \* the <<subject, kind>> of privacy requests approved
    CredentialTtl,     \* policy.credential_ttl
    Keys,              \* participant keys
    InitialKey,        \* the key each subject enrolled with
    MaxRequests, MaxInvitations, MaxIntroductions,  \* bounds on the tables
    MaxAttestations, MaxChallenges

VerificationBasis == {"peer_attested", "bootstrap_vouched", "audit_corroborated"}

(* The kinds of request whose approval invalidates trust state. *)
PrivacyRequestKind == {"correction", "deletion", "consent_withdrawal"}

(* ClaimDefinition, its thresholds already defaulted from the policy; key  *)
(* stands for (claim_type, definition_version, policy_version).            *)
ClaimDefinition ==
    [key : Nat, claimType : ClaimTypes, methodClass : MethodClasses,
     allowed : SUBSET VerificationBasis, required : SUBSET VerificationBasis,
     minAttestations : Nat, minPaths : Nat, minAudits : Nat]

ASSUME DefinitionsAssumption ==
    /\ Definitions \subseteq ClaimDefinition
    /\ \A d \in Definitions :
          /\ d.allowed # {}
          /\ d.required \subseteq d.allowed \cup {"audit_corroborated"}
ASSUME TablesAssumption ==
    /\ Expiries \subseteq Nat /\ CredentialTtl \in Nat
    /\ None \notin Keys /\ InitialKey \in [Subjects -> Keys]
    /\ \A s, t \in Subjects : InitialKey[s] = InitialKey[t] => s = t
    /\ PrivacyCases \subseteq Subjects \X PrivacyRequestKind
    /\ {MaxRequests, MaxInvitations, MaxIntroductions,
        MaxAttestations, MaxChallenges} \subseteq Nat
ASSUME DecisionsAssumption ==
    None \notin {"sustained", "dismissed", "affirmed", "reversed"}

VARIABLES
    claims,         \* _claims
    requests,       \* _requests
    invitations,    \* _invitations
    introductions,  \* _introductions
    attestations,   \* _attestations
    audits,         \* _audits, by attestation
    challenges,     \* _challenges
    credentials,    \* _credentials, by request
    keyOf           \* participant_key of each subject, None once deleted

assuranceVars == <<claims, requests, invitations, introductions, attestations,
                   audits, challenges, credentials, keyOf>>
allVars == <<authorityVars, assuranceVars>>

Path == Subjects \cup {"bootstrap_designation"}

Request == [subject : Subjects, definition : Definitions]
Invitation == [request : Nat, verifier : Subjects, expires : Nat]
Introduction ==
    [request : Nat, introducer : Subjects, verifier : Subjects, expires : Nat]
Attestation ==
    [request : Nat, grant : Nat, verifier : Subjects, path : Path,
     method : MethodClasses, expires : Nat, basis : VerificationBasis,
     state : {"active", "invalidated"}]
Challenge ==
    [attestation : Nat, decision : {None, "sustained", "dismissed"},
     appeal : {None, "affirmed", "reversed"},
     state : {"open", "responded", "decided", "appealed", "closed"}]
Credential ==
    [state : {"provisional", "active", "revoked"}, deps : SUBSET Nat,
     bases : SUBSET VerificationBasis, expires : Nat]

-----------------------------------------------------------------------------
(* Recalculation. *)

(* _active_attestations *)
ActiveAttestations(r) ==
    {i \in DOMAIN attestations :
        /\ attestations[i].request = r
        /\ attestations[i].state = "active"
        /\ attestations[i].expires > now
        /\ GrantIsActive(attestations[i].grant)}

PassedAudits == {i \in DOMAIN audits : audits[i] = "passed"}

Bases(table, active, passed) ==
    {table[i].basis : i \in active}
    \cup (IF active \cap passed # {} THEN {"audit_corroborated"} ELSE {})

(* The thresholds of the claim definition, over the active attestations. *)
Qualifies(r, table, active, passed) ==
    LET d == requests[r].definition
    IN  /\ Cardinality(active) >= d.minAttestations
        /\ Cardinality({table[i].path : i \in active}) >= d.minPaths
        /\ Cardinality(active \cap passed) >= d.minAudits
        /\ d.required \subseteq Bases(table, active, passed)

HasCredential(r) == r \in DOMAIN credentials

(* Mutant: a revoked credential is recalculated like a new one. *)
RecalculatedAfresh(r, table, active, passed) ==
    [state |-> IF Qualifies(r, table, active, passed) THEN "active"
               ELSE IF \/ HasCredential(r) /\ credentials[r].state = "active"
                       \/ active = {}
                    THEN "revoked"
                    ELSE "provisional",
     deps |-> active,
     bases |-> Bases(table, active, passed),
     expires |-> IF HasCredential(r) THEN credentials[r].expires
                 ELSE now + CredentialTtl]

(* What _recalculate stores for request r, given the attestation table,    *)
(* the active attestations of r and the passed audits of the new state.    *)
Recalculated(r, table, active, passed) ==
    [state |-> IF Qualifies(r, table, active, passed) THEN "active"
               ELSE IF \/ HasCredential(r) /\ credentials[r].state \in {"active", "revoked"}
                       \/ active = {}
                    THEN "revoked"
                    ELSE "provisional",
     deps |-> active,
     bases |-> Bases(table, active, passed),
     expires |-> IF HasCredential(r) THEN credentials[r].expires
                 ELSE now + CredentialTtl]

(* _recalculate for every request in R, after attestations', audits' and   *)
(* grants' are set.  A request without credential gets one only if an      *)
(* attestation is active.                                                  *)
Recalculate(R) ==
    credentials' =
        [r \in DOMAIN credentials \cup {r \in R : ActiveAttestations(r)' # {}} |->
            IF r \in R
            THEN Recalculated(r, attestations', ActiveAttestations(r)', PassedAudits')
            ELSE credentials[r]]

(* The given attestations become invalidated. *)
Invalidated(S) ==
    [i \in DOMAIN attestations |->
        IF i \in S THEN [attestations[i] EXCEPT !.state = "invalidated"]
        ELSE attestations[i]]

-----------------------------------------------------------------------------
(* Claims, invitations and introductions. *)

NoAssuranceYet ==
    /\ AuthorityInit
    /\ claims = {} /\ requests = <<>> /\ invitations = {} /\ introductions = {}
    /\ attestations = <<>> /\ audits = <<>> /\ challenges = <<>>
    /\ credentials = <<>>

AssuranceInit == NoAssuranceYet /\ keyOf = InitialKey

(* participant_key_for_subject returns a key: the subject can sign. *)
CanSign(s) == keyOf[s] # None

(* Mutant: the grant is validated and not metered. *)
SignedUseUnmetered(a, capability, claimType, methodClass) ==
    /\ CanSign(grants[a].holder)
    /\ ValidateScoped(a, capability, claimType, methodClass)
    /\ UNCHANGED authorityVars

(* Mutant: the grant is metered and not validated. *)
SignedUseUnchecked(a, capability, claimType, methodClass) ==
    /\ CanSign(grants[a].holder)
    /\ grants' = Consumed(a)
    /\ UNCHANGED <<agr, now>>

(* _consume_authority in a request signed with the grant holder's key. *)
SignedUse(a, capability, claimType, methodClass) ==
    /\ CanSign(grants[a].holder)
    /\ UseAuthority(a, capability, claimType, methodClass)

(* register_claim *)
RegisterClaim(a, d) ==
    /\ SignedUse(a, "manage_claims", d.claimType, None)
    /\ \A c \in claims : c.key # d.key
    /\ claims' = claims \cup {d}
    /\ UNCHANGED <<requests, invitations, introductions, attestations, audits,
                   challenges, credentials, keyOf>>

(* request_claim, signed with the subject's key *)
RequestClaim(s, d) ==
    /\ Len(requests) < MaxRequests
    /\ d \in claims
    /\ requests' = Append(requests, [subject |-> s, definition |-> d])
    /\ UNCHANGED <<authorityVars, claims, invitations, introductions, attestations,
                   audits, challenges, credentials, keyOf>>

(* invite_attestor, signed with the key of the claim's subject.  This also *)
(* allows an invitation for a request that itself committed after the      *)
(* deletion, which the lookup would refuse.                                *)
InviteAttestor(r, v, e) ==
    /\ Cardinality(invitations) < MaxInvitations
    /\ requests[r].subject # v
    /\ e > now
    /\ invitations' = invitations \cup {[request |-> r, verifier |-> v, expires |-> e]}
    /\ UNCHANGED <<authorityVars, claims, requests, introductions, attestations,
                   audits, challenges, credentials, keyOf>>

(* introduce_attestor *)
IntroduceAttestor(a, r, x, v, e) ==
    /\ Cardinality(introductions) < MaxIntroductions
    /\ SignedUse(a, "introduce_attestor", None, None)
    /\ requests[r].subject \notin {x, v}
    /\ x # v
    /\ e > now
    /\ introductions' = introductions \cup
          {[request |-> r, introducer |-> x, verifier |-> v, expires |-> e]}
    /\ UNCHANGED <<claims, requests, invitations, attestations, audits,
                   challenges, credentials, keyOf>>

-----------------------------------------------------------------------------
(* Attestations. *)

AddAttestation(t) ==
    /\ Len(attestations) < MaxAttestations
    /\ attestations' = Append(attestations, t)
    /\ UNCHANGED <<claims, requests, invitations, introductions, audits,
                   challenges, keyOf>>
    /\ Recalculate({t.request})

(* Mutant: the introduction may be another verifier's. *)
IssueOnAnyIntroduction(inv, g, x, m, e) ==
    LET r == inv.request
        d == requests[r].definition
        v == grants[g].holder
    IN  /\ "peer_attested" \in d.allowed
        /\ SignedUse(g, "attest_claim", d.claimType, m)
        /\ inv.expires > now /\ inv.verifier = v
        /\ x.request = r /\ x.expires > now
        /\ e > now /\ e <= grants[g].expires
        /\ \A i \in ActiveAttestations(r) : attestations[i].verifier # v
        /\ AddAttestation([request |-> r, grant |-> g, verifier |-> v,
                           path |-> x.introducer, method |-> m, expires |-> e,
                           basis |-> "peer_attested", state |-> "active"])

(* issue_attestation with a peer basis, by invitation inv, under grant g   *)
(* and introduction x, with method m, signed with the verifier's key.      *)
IssueAttestation(inv, g, x, m, e) ==
    LET r == inv.request
        d == requests[r].definition
        v == grants[g].holder
    IN  /\ "peer_attested" \in d.allowed
        /\ SignedUse(g, "attest_claim", d.claimType, m)
        /\ inv.expires > now /\ inv.verifier = v
        /\ x.request = r /\ x.verifier = v /\ x.expires > now
        /\ e > now /\ e <= grants[g].expires
        /\ \A i \in ActiveAttestations(r) : attestations[i].verifier # v
        /\ grants[g].usageCap # None =>
              Cardinality({i \in DOMAIN attestations :
                              /\ attestations[i].grant = g
                              /\ attestations[i].state = "active"
                              /\ attestations[i].expires > now}) < grants[g].usageCap
        /\ AddAttestation([request |-> r, grant |-> g, verifier |-> v,
                           path |-> x.introducer, method |-> m, expires |-> e,
                           basis |-> "peer_attested", state |-> "active"])

(* issue_bootstrap_attestation: the root vouches for its own claim. *)
IssueBootstrapAttestation(r, g, e) ==
    LET d == requests[r].definition
    IN  /\ SignedUse(g, "attest_claim", d.claimType, d.methodClass)
        /\ grants[g].basis = "bootstrap_designation"
        /\ requests[r].subject = grants[g].holder
        /\ "bootstrap_vouched" \in d.allowed
        /\ e > now /\ e <= grants[g].expires
        /\ ActiveAttestations(r) = {}
        /\ AddAttestation([request |-> r, grant |-> g, verifier |-> grants[g].holder,
                           path |-> "bootstrap_designation",
                           method |-> d.methodClass, expires |-> e,
                           basis |-> "bootstrap_vouched", state |-> "active"])

-----------------------------------------------------------------------------
(* Audits, challenges and appeals. *)

(* select_audit *)
SelectAudit(a, i) ==
    /\ SignedUse(a, "select_audit", None, None)
    /\ attestations[i].state = "active"
    /\ i \notin DOMAIN audits
    /\ audits' = [j \in DOMAIN audits \cup {i} |->
                    IF j = i THEN "pending" ELSE audits[j]]
    /\ UNCHANGED <<claims, requests, invitations, introductions, attestations,
                   challenges, credentials, keyOf>>

(* Mutant: the credential is not recalculated. *)
DecideAuditOnly(a, i, passed) ==
    /\ SignedUse(a, "decide_audit", None, None)
    /\ audits[i] = "pending"
    /\ audits' = [audits EXCEPT ![i] = IF passed THEN "passed" ELSE "failed"]
    /\ attestations' = Invalidated(IF passed THEN {} ELSE {i})
    /\ UNCHANGED <<claims, requests, invitations, introductions, challenges,
                   credentials, keyOf>>

(* decide_audit *)
DecideAudit(a, i, passed) ==
    /\ SignedUse(a, "decide_audit", None, None)
    /\ audits[i] = "pending"
    /\ audits' = [audits EXCEPT ![i] = IF passed THEN "passed" ELSE "failed"]
    /\ attestations' = Invalidated(IF passed THEN {} ELSE {i})
    /\ UNCHANGED <<claims, requests, invitations, introductions, challenges, keyOf>>
    /\ Recalculate({attestations[i].request})

(* Mutant: the challenge refers to the attestation after the one meant. *)
OpenChallengeToNext(s, i) ==
    /\ Len(challenges) < MaxChallenges
    /\ CanSign(s)
    /\ attestations[i].state = "active"
    /\ challenges' = Append(challenges,
          [attestation |-> i + 1, decision |-> None, appeal |-> None, state |-> "open"])
    /\ UNCHANGED <<authorityVars, claims, requests, invitations, introductions,
                   attestations, audits, credentials, keyOf>>

(* open_challenge, signed with the challenger's key; who it is does not    *)
(* matter, and the attestor of an active attestation always has one        *)
OpenChallenge(s, i) ==
    /\ Len(challenges) < MaxChallenges
    /\ CanSign(s)
    /\ attestations[i].state = "active"
    /\ challenges' = Append(challenges,
          [attestation |-> i, decision |-> None, appeal |-> None, state |-> "open"])
    /\ UNCHANGED <<authorityVars, claims, requests, invitations, introductions,
                   attestations, audits, credentials, keyOf>>

(* respond_to_challenge, signed by the attestor, who had a key when the    *)
(* challenge was opened                                                    *)
RespondToChallenge(c) ==
    /\ challenges[c].state = "open"
    /\ challenges' = [challenges EXCEPT ![c].state = "responded"]
    /\ UNCHANGED <<authorityVars, claims, requests, invitations, introductions,
                   attestations, audits, credentials, keyOf>>

(* decide_challenge *)
DecideChallenge(a, c, decision) ==
    LET i == challenges[c].attestation
    IN  /\ SignedUse(a, "decide_challenge", None, None)
        /\ challenges[c].state \in {"open", "responded"}
        /\ challenges' = [challenges EXCEPT ![c].state = "decided",
                                            ![c].decision = decision]
        /\ attestations' = Invalidated(IF decision = "sustained" THEN {i} ELSE {})
        /\ UNCHANGED <<claims, requests, invitations, introductions, audits, keyOf>>
        /\ Recalculate({attestations[i].request})

(* appeal_challenge, signed by the attestor *)
AppealChallenge(c) ==
    /\ challenges[c].state = "decided"
    /\ challenges' = [challenges EXCEPT ![c].state = "appealed"]
    /\ UNCHANGED <<authorityVars, claims, requests, invitations, introductions,
                   attestations, audits, credentials, keyOf>>

(* Mutant: deciding the appeal restores the attestation either way. *)
DecideAppealRestoring(a, c, decision) ==
    LET i == challenges[c].attestation
    IN  /\ SignedUse(a, "decide_appeal", None, None)
        /\ challenges[c].state = "appealed"
        /\ challenges' = [challenges EXCEPT ![c].state = "closed",
                                            ![c].appeal = decision]
        /\ attestations' = [attestations EXCEPT ![i].state = "active"]
        /\ UNCHANGED <<claims, requests, invitations, introductions, audits, keyOf>>
        /\ Recalculate({attestations[i].request})

(* decide_appeal *)
DecideAppeal(a, c, decision) ==
    LET i == challenges[c].attestation
        restored == /\ decision = "reversed"
                    /\ challenges[c].decision = "sustained"
                    /\ GrantIsActive(attestations[i].grant)
                    /\ attestations[i].expires > now
    IN  /\ SignedUse(a, "decide_appeal", None, None)
        /\ challenges[c].state = "appealed"
        /\ challenges' = [challenges EXCEPT ![c].state = "closed",
                                            ![c].appeal = decision]
        /\ attestations' = IF restored
                           THEN [attestations EXCEPT ![i].state = "active"]
                           ELSE attestations
        /\ UNCHANGED <<claims, requests, invitations, introductions, audits, keyOf>>
        /\ Recalculate({attestations[i].request})

-----------------------------------------------------------------------------
(* Handlers of the other components that reach into the assurance state.   *)

(* revoke_authority with the attestations and credentials under the grants *)
(* it revokes.                                                             *)
RevokeAuthorityAndDependents(a, t) ==
    LET lost == {i \in DOMAIN attestations :
                    attestations[i].grant \in Subtree(t)
                    /\ attestations[i].state = "active"}
    IN  /\ CanSign(grants[a].holder)
        /\ RevokeAuthority(a, t)
        /\ attestations' = Invalidated(lost)
        /\ UNCHANGED <<claims, requests, invitations, introductions, audits,
                       challenges, keyOf>>
        /\ Recalculate({attestations[i].request : i \in lost})

(* Mutant: the subject's attestations of others are left alone. *)
LostAsClaimant(s, own) ==
    {i \in DOMAIN attestations : attestations[i].request \in own}

(* The attestations that _invalidate_subject_state invalidates: the ones   *)
(* on a request of s and the ones of s as verifier.  The loop adds the     *)
(* request of each of the latter to the set of affected requests that it   *)
(* tests, so later attestations on that request go too.                    *)
LostWith(s, own) ==
    {i \in DOMAIN attestations :
        \/ attestations[i].request \in own
        \/ \E j \in 1..i : /\ attestations[j].request = attestations[i].request
                           /\ attestations[j].verifier = s}

(* process_privacy_request, approved, of a kind that invalidates           *)
(* (correction, deletion, consent_withdrawal): _invalidate_subject_state   *)
(* and, for a deletion, the tombstone.                                     *)
InvalidateSubjectState(a, s, kind) ==
    LET own == {r \in DOMAIN requests : requests[r].subject = s}
        lost == LostWith(s, own)
    IN  /\ CanSign(grants[a].holder)
        /\ InvalidateHolder(a, s)
        /\ attestations' = Invalidated(lost)
        /\ keyOf' = IF kind = "deletion" THEN [keyOf EXCEPT ![s] = None] ELSE keyOf
        /\ UNCHANGED <<claims, requests, invitations, introductions, audits, challenges>>
        /\ Recalculate(own \cup {attestations[i].request : i \in lost})

(* promote_authority with the audits it requires of the subject's conduct. *)
PromoteAuditedConduct(a, s, sources, p) ==
    /\ \E i \in PassedAudits : /\ attestations[i].verifier = s
                               /\ attestations[i].state = "active"
    /\ CanSign(grants[a].holder)
    /\ PromoteAuthority(a, s, sources, p)
    /\ UNCHANGED assuranceVars

(* grant_authority, signed with the issuer's key *)
SignedGrant(a, o) ==
    /\ CanSign(grants[a].holder)
    /\ GrantAuthority(a, o, "delegated")
    /\ UNCHANGED assuranceVars

(* credential_status on a core that is kept: it stores what it             *)
(* recalculates.  The HTTP handler does the same on a copy.                *)
CredentialStatus(r) ==
    /\ HasCredential(r)
    /\ UNCHANGED <<authorityVars, claims, requests, invitations, introductions,
                   attestations, audits, challenges, keyOf>>
    /\ Recalculate({r})

(* The handlers that Identity adds nothing to. *)
AssuranceSteps ==
    \/ \E a \in Ids, d \in Definitions : RegisterClaim(a, d)
    \/ \E r \in DOMAIN requests, v \in Subjects, e \in Expiries : InviteAttestor(r, v, e)
    \/ \E a \in Ids, r \in DOMAIN requests, x, v \in Subjects, e \in Expiries :
          IntroduceAttestor(a, r, x, v, e)
    \/ \E inv \in invitations, g \in Ids, x \in introductions,
          m \in MethodClasses, e \in Expiries : IssueAttestation(inv, g, x, m, e)
    \/ \E r \in DOMAIN requests, g \in Ids, e \in Expiries :
          IssueBootstrapAttestation(r, g, e)
    \/ \E a \in Ids, i \in DOMAIN attestations : SelectAudit(a, i)
    \/ \E a \in Ids, i \in DOMAIN audits, p \in BOOLEAN : DecideAudit(a, i, p)
    \/ \E s \in Subjects, i \in DOMAIN attestations : OpenChallenge(s, i)
    \/ \E c \in DOMAIN challenges : RespondToChallenge(c)
    \/ \E a \in Ids, c \in DOMAIN challenges, d \in {"sustained", "dismissed"} :
          DecideChallenge(a, c, d)
    \/ \E c \in DOMAIN challenges : AppealChallenge(c)
    \/ \E a \in Ids, c \in DOMAIN challenges, d \in {"affirmed", "reversed"} :
          DecideAppeal(a, c, d)
    \/ \E a, t \in Ids : RevokeAuthorityAndDependents(a, t)
    \/ \E a \in Ids, s \in Subjects, src \in SUBSET Ids, p \in Promotions :
          PromoteAuditedConduct(a, s, src, p)
    \/ \E r \in DOMAIN requests : CredentialStatus(r)
    \/ \E a \in Ids, o \in Offers : SignedGrant(a, o)
    \/ Tick /\ UNCHANGED assuranceVars

AssuranceNext ==
    \/ AssuranceSteps
    \/ \E s \in Subjects, e \in 1..MaxTime + 1 :
          BootstrapAuthority(s, e) /\ UNCHANGED assuranceVars
    \/ \E s \in Subjects, d \in claims : RequestClaim(s, d)
    \/ \E a \in Ids, pc \in PrivacyCases : InvalidateSubjectState(a, pc[1], pc[2])

AssuranceSpec == AssuranceInit /\ [][AssuranceNext]_allVars

-----------------------------------------------------------------------------
(* Properties. *)

(* Type invariant: the tables hold the records of models.py and refer to   *)
(* rows that exist.                                                        *)
AssuranceTypeOK ==
    /\ AuthorityTypeOK
    /\ claims \subseteq Definitions
    /\ requests \in Seq(Request) /\ Len(requests) <= MaxRequests
    /\ invitations \subseteq Invitation /\ introductions \subseteq Introduction
    /\ attestations \in Seq(Attestation)
    /\ \A i \in DOMAIN attestations : /\ attestations[i].request \in DOMAIN requests
                                      /\ attestations[i].grant \in Ids
    /\ DOMAIN audits \subseteq DOMAIN attestations
    /\ \A i \in DOMAIN audits : audits[i] \in {"pending", "passed", "failed"}
    /\ challenges \in Seq(Challenge)
    /\ \A c \in DOMAIN challenges : challenges[c].attestation \in DOMAIN attestations
    /\ DOMAIN credentials \subseteq DOMAIN requests
    /\ \A r \in DOMAIN credentials : credentials[r] \in Credential
    /\ keyOf \in [Subjects -> Keys \cup {None}]

LapsedByTime(i) ==
    attestations[i].expires <= now \/ grants[attestations[i].grant].expires <= now

(* Every change that a handler makes to an attestation, an audit or a      *)
(* grant has reached the credential: its recorded dependencies are the     *)
(* active attestations but for what the clock alone has lapsed, and while  *)
(* nothing has lapsed the stored credential is what _recalculate returns.  *)
CredentialsFollowEvidence ==
    \A r \in DOMAIN credentials :
        LET active == ActiveAttestations(r)
            deps == credentials[r].deps
        IN  /\ active \subseteq deps
            /\ \A i \in deps \ active : LapsedByTime(i)
            /\ deps = active =>
                  credentials[r] = Recalculated(r, attestations, active, PassedAudits)

(* Each attestation under a capped grant was paid for by one use of it, so *)
(* the grant's cap bounds what its holder ever attests, invalidated and    *)
(* restored attestations included.                                         *)
AttestationsMetered ==
    \A g \in Ids : grants[g].usageCap # None =>
        Cardinality({i \in DOMAIN attestations : attestations[i].grant = g})
            <= grants[g].used

(* No claim is corroborated by its own subject, as verifier or as          *)
(* introducer, nor by a verifier who introduced himself; only the root's   *)
(* bootstrap voucher is a self-attestation and it says so in its basis.    *)
NoSelfCorroboration ==
    \A i \in DOMAIN attestations :
        LET t == attestations[i]
            s == requests[t.request].subject
        IN  IF t.basis = "bootstrap_vouched"
            THEN t.verifier = s /\ grants[t.grant].issuer = None
            ELSE s \notin {t.verifier, t.path} /\ t.verifier # t.path

AppealReversed(i) ==
    \E c \in DOMAIN challenges : /\ challenges[c].attestation = i
                                 /\ challenges[c].appeal = "reversed"
Objected(i) ==
    \/ i \in DOMAIN audits /\ audits[i] = "failed"
    \/ \E c \in DOMAIN challenges : /\ challenges[c].attestation = i
                                    /\ challenges[c].decision = "sustained"

(* After a failed audit or a sustained challenge an attestation counts     *)
(* again only if some challenge to it was reversed on appeal; no other     *)
(* handler, in any order, restores it.                                     *)
OnlyAppealRestores ==
    \A i \in DOMAIN attestations :
        Objected(i) /\ ~AppealReversed(i) => attestations[i].state = "invalidated"

(* Once the deletion of a verifier is processed none of his attestations   *)
(* counts, and no appeal brings one back: his grants went with him.        *)
DeletedCannotCorroborate ==
    \A i \in DOMAIN attestations :
        ~CanSign(attestations[i].verifier) => attestations[i].state = "invalidated"

(* A credential is never dropped, its expiry never moves, and once active  *)
(* or revoked it never falls back to provisional.                          *)
CredentialNeverSoftens ==
    [][\A r \in DOMAIN credentials :
          /\ r \in DOMAIN credentials'
          /\ credentials'[r].expires = credentials[r].expires
          /\ credentials[r].state # "provisional" =>
                credentials'[r].state # "provisional"]_allVars

-----------------------------------------------------------------------------
(* What the documentation says and the code does not do; each is checked   *)
(* by a run of its own, which finds the behaviour.                         *)

(* "enforce self, duplicate-verifier, ... denials" and the refusal "the    *)
(* same verifier cannot corroborate a request twice": the active           *)
(* attestations of a request come from different verifiers.  A verifier    *)
(* who attests again after a sustained challenge counts twice once that    *)
(* challenge is reversed.                                                  *)
OneVoicePerVerifier ==
    \A r \in DOMAIN requests : \A i, j \in ActiveAttestations(r) :
        attestations[i].verifier = attestations[j].verifier => i = j

(* present_credential: what it requires and the state it certifies. *)
Presentable(r) ==
    /\ HasCredential(r)
    /\ CanSign(requests[r].subject)
    /\ credentials[r].state \in {"provisional", "active"}
    /\ credentials[r].expires > now

(* "Recalculate credentials after ... dependency expiration": what a       *)
(* presentation certifies is what the status of the credential says at     *)
(* that moment.  present_credential does not recalculate.                  *)
PresentationIsCurrent ==
    \A r \in DOMAIN credentials : Presentable(r) =>
        credentials[r].state =
            Recalculated(r, attestations, ActiveAttestations(r), PassedAudits).state
=============================================================================
