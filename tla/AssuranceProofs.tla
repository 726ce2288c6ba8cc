--------------------------- MODULE AssuranceProofs ---------------------------
(***************************************************************************)
(* Proofs about Assurance, for any subjects, definitions, offers and       *)
(* bounds.                                                                 *)
(*                                                                         *)
(* Every handler of Assurance performs one action of Authority or none, so *)
(* Assurance implements Authority and inherits its invariant.  On top of   *)
(* it AssuranceInv says where invitations, introductions and attestations  *)
(* come from, which grant an attestation was made under, and how the       *)
(* stored credentials relate to the evidence.                              *)
(***************************************************************************)
EXTENDS Assurance, AuthorityProofs, SequenceTheorems, FiniteSetTheorems

(* Only the root grant is made by bootstrap_authority. *)
RootBasis ==
    \A i \in Ids : grants[i].basis = "bootstrap_designation" => grants[i].issuer = None

(* What invite_attestor and introduce_attestor checked stays true. *)
ReferredInv ==
    /\ \A inv \in invitations :
          /\ inv.request \in DOMAIN requests
          /\ requests[inv.request].subject # inv.verifier
    /\ \A x \in introductions :
          /\ x.request \in DOMAIN requests
          /\ requests[x.request].subject \notin {x.introducer, x.verifier}
          /\ x.introducer # x.verifier

(* An attestation was made under a grant of its verifier, and a verifier   *)
(* whose key was removed lost that grant for good.                         *)
VerifierInv ==
    \A i \in DOMAIN attestations :
        /\ grants[attestations[i].grant].holder = attestations[i].verifier
        /\ ~CanSign(attestations[i].verifier) =>
              /\ attestations[i].state = "invalidated"
              /\ grants[attestations[i].grant].revoked # "no"

(* An appeal is decided once. *)
ChallengesInv ==
    \A c \in DOMAIN challenges : challenges[c].appeal # None => challenges[c].state = "closed"

(* A credential depends on attestations of its own request. *)
DepsInv ==
    \A r \in DOMAIN credentials : \A i \in credentials[r].deps :
        i \in DOMAIN attestations /\ attestations[i].request = r

EvidenceInv ==
    /\ RootBasis /\ ReferredInv /\ NoSelfCorroboration
    /\ VerifierInv /\ AttestationsMetered
    /\ ChallengesInv /\ OnlyAppealRestores
    /\ DepsInv /\ CredentialsFollowEvidence

AssuranceInv == AuthorityInv /\ AssuranceTypeOK /\ EvidenceInv

-----------------------------------------------------------------------------
(* Tables. *)

(* A table has finitely many rows. *)
LEMMA FinitelyManyRows ==
    ASSUME NEW T, NEW q \in Seq(T), NEW A \in SUBSET DOMAIN q
    PROVE  IsFiniteSet(A) /\ Cardinality(A) \in Nat
<1>1. DOMAIN q = 1..Len(q) /\ Len(q) \in Nat
  BY LenProperties
<1>2. IsFiniteSet(1..Len(q))
  BY <1>1, FS_Interval
<1>3. IsFiniteSet(A)
  BY <1>1, <1>2, FS_Subset
<1>. QED
  BY <1>3, FS_CardinalityType

(* A row has the type of its table, and its id is a number. *)
LEMMA RowType ==
    ASSUME NEW T, NEW q \in Seq(T), NEW i \in DOMAIN q
    PROVE  q[i] \in T /\ i \in Nat
BY LenProperties, ElementOfSeq

(* A new row goes to the end of its table. *)
LEMMA AppendRow ==
    ASSUME NEW T, NEW q \in Seq(T), NEW e \in T
    PROVE  /\ Append(q, e) \in Seq(T) /\ Len(q) + 1 \in Nat
           /\ DOMAIN Append(q, e) = DOMAIN q \cup {Len(q) + 1}
           /\ Len(q) + 1 \notin DOMAIN q
           /\ Append(q, e)[Len(q) + 1] = e
           /\ \A i \in DOMAIN q : Append(q, e)[i] = q[i]
<1>1. /\ Append(q, e) \in Seq(T) /\ Len(Append(q, e)) = Len(q) + 1
      /\ \A i \in 1..Len(q) : Append(q, e)[i] = q[i]
      /\ Append(q, e)[Len(q) + 1] = e
  BY AppendProperties
<1>2. /\ DOMAIN q = 1..Len(q) /\ Len(q) \in Nat
      /\ DOMAIN Append(q, e) = 1..Len(Append(q, e))
  BY <1>1, LenProperties
<1>. QED
  BY <1>1, <1>2

-----------------------------------------------------------------------------
(* Every handler is an action of Authority, or leaves the grants alone. *)

(* A request's definition is one of the registered ones. *)
LEMMA RequestType ==
    ASSUME AssuranceTypeOK, NEW r \in DOMAIN requests
    PROVE  /\ requests[r] \in Request /\ requests[r].subject \in Subjects
           /\ requests[r].definition \in Definitions
           /\ requests[r].definition.claimType \in ClaimTypes
           /\ requests[r].definition.methodClass \in MethodClasses
           /\ r \in Nat
<1>1. requests \in Seq(Request) /\ r \in 1..Len(requests) /\ Len(requests) \in Nat
  BY LenProperties DEF AssuranceTypeOK
<1>2. requests[r] \in Request
  BY <1>1, ElementOfSeq
<1>3. requests[r].definition \in ClaimDefinition
  BY <1>2, DefinitionsAssumption DEF Request
<1>. QED
  BY <1>1, <1>2, <1>3 DEF Request, ClaimDefinition

(* An attestation row. *)
LEMMA AttestationType ==
    ASSUME AssuranceTypeOK, NEW i \in DOMAIN attestations
    PROVE  /\ attestations[i] \in Attestation /\ i \in Nat
           /\ attestations[i].request \in DOMAIN requests
           /\ attestations[i].grant \in Ids
<1>1. attestations \in Seq(Attestation) /\ i \in 1..Len(attestations)
      /\ Len(attestations) \in Nat
  BY LenProperties DEF AssuranceTypeOK
<1>2. attestations[i] \in Attestation
  BY <1>1, ElementOfSeq
<1>. QED
  BY <1>1, <1>2 DEF AssuranceTypeOK

(* A signed use of a capability, with the scope that its handler names. *)
LEMMA SignedUseIsAuthority ==
    ASSUME NEW a \in Ids, NEW c, NEW ct, NEW m, SignedUse(a, c, ct, m),
           \/ c = "attest_claim" /\ ct \in ClaimTypes /\ m \in MethodClasses
           \/ c = "manage_claims" /\ ct \in ClaimTypes /\ m = None
           \/ c \in UnscopedUses /\ ct = None /\ m = None
    PROVE  AuthorityNext
BY DEF SignedUse, AuthorityNext, OtherNext

(* The handlers that Identity shares. *)
LEMMA StepsAreAuthority ==
    ASSUME AssuranceTypeOK, ReferredInv, AssuranceSteps
    PROVE  [AuthorityNext]_authorityVars
<1>. USE DEF UnscopedUses
<1>1. ASSUME NEW a \in Ids, NEW d \in Definitions, RegisterClaim(a, d)
      PROVE  AuthorityNext
  BY <1>1, SignedUseIsAuthority, DefinitionsAssumption DEF RegisterClaim, ClaimDefinition
<1>2. ASSUME NEW a \in Ids,
             \/ \E r \in DOMAIN requests, x, v \in Subjects, e \in Expiries :
                   IntroduceAttestor(a, r, x, v, e)
             \/ \E i \in DOMAIN attestations : SelectAudit(a, i)
             \/ \E i \in DOMAIN audits, p \in BOOLEAN : DecideAudit(a, i, p)
             \/ \E c \in DOMAIN challenges : \E d : DecideChallenge(a, c, d)
             \/ \E c \in DOMAIN challenges : \E d : DecideAppeal(a, c, d)
      PROVE  AuthorityNext
  BY <1>2, SignedUseIsAuthority
  DEF IntroduceAttestor, SelectAudit, DecideAudit, DecideChallenge, DecideAppeal
<1>3. ASSUME NEW inv \in invitations, NEW g \in Ids, NEW x \in introductions,
             NEW m \in MethodClasses, NEW e \in Expiries, IssueAttestation(inv, g, x, m, e)
      PROVE  AuthorityNext
  BY <1>3, SignedUseIsAuthority, RequestType DEF IssueAttestation, ReferredInv
<1>4. ASSUME NEW r \in DOMAIN requests, NEW g \in Ids, NEW e \in Expiries,
             IssueBootstrapAttestation(r, g, e)
      PROVE  AuthorityNext
  BY <1>4, SignedUseIsAuthority, RequestType DEF IssueBootstrapAttestation
<1>5. ASSUME NEW a \in Ids, NEW t \in Ids, RevokeAuthorityAndDependents(a, t)
      PROVE  AuthorityNext
  BY <1>5 DEF RevokeAuthorityAndDependents, AuthorityNext
<1>6. ASSUME NEW a \in Ids, NEW s \in Subjects, NEW src \in SUBSET Ids,
             NEW p \in Promotions, PromoteAuditedConduct(a, s, src, p)
      PROVE  AuthorityNext
  BY <1>6 DEF PromoteAuditedConduct, AuthorityNext, OtherNext
<1>7. ASSUME NEW a \in Ids, NEW o \in Offers, SignedGrant(a, o)
      PROVE  AuthorityNext
  BY <1>7 DEF SignedGrant, AuthorityNext, OtherNext
<1>8. CASE Tick
  BY <1>8 DEF AuthorityNext, OtherNext
<1>9. ASSUME \/ \E r \in DOMAIN requests, v \in Subjects, e \in Expiries :
                   InviteAttestor(r, v, e)
             \/ \E s \in Subjects, i \in DOMAIN attestations : OpenChallenge(s, i)
             \/ \E c \in DOMAIN challenges : RespondToChallenge(c)
             \/ \E c \in DOMAIN challenges : AppealChallenge(c)
             \/ \E r \in DOMAIN requests : CredentialStatus(r)
      PROVE  UNCHANGED authorityVars
  BY <1>9 DEF InviteAttestor, OpenChallenge, RespondToChallenge, AppealChallenge,
              CredentialStatus
<1>. QED
  BY <1>1, <1>2, <1>3, <1>4, <1>5, <1>6, <1>7, <1>8, <1>9 DEF AssuranceSteps

(* And those that Identity adds conditions to. *)
LEMMA NextIsAuthority ==
    ASSUME AssuranceTypeOK, ReferredInv, [AssuranceNext]_allVars
    PROVE  [AuthorityNext]_authorityVars
<1>1. ASSUME NEW s \in Subjects, NEW e \in 1..MaxTime + 1, BootstrapAuthority(s, e)
      PROVE  AuthorityNext
  BY <1>1 DEF AuthorityNext, OtherNext
<1>2. ASSUME NEW s \in Subjects, NEW d \in claims, RequestClaim(s, d)
      PROVE  UNCHANGED authorityVars
  BY <1>2 DEF RequestClaim
<1>3. ASSUME NEW a \in Ids, NEW pc \in PrivacyCases, InvalidateSubjectState(a, pc[1], pc[2])
      PROVE  AuthorityNext
  <2>1. pc[1] \in Subjects
    BY TablesAssumption
  <2>. QED
    BY <1>3, <2>1 DEF InvalidateSubjectState, AuthorityNext, OtherNext
<1>4. CASE UNCHANGED allVars
  BY <1>4 DEF allVars
<1>. QED
  BY <1>1, <1>2, <1>3, <1>4, StepsAreAuthority DEF AssuranceNext

-----------------------------------------------------------------------------
(* What all handlers but the two that issue attestations leave alone. *)

SameAttestation(t, u) ==
    /\ u.request = t.request /\ u.grant = t.grant /\ u.verifier = t.verifier
    /\ u.path = t.path /\ u.method = t.method /\ u.expires = t.expires
    /\ u.basis = t.basis

(* The requests that there are stay. *)
RequestsStay ==
    \A r \in DOMAIN requests : r \in DOMAIN requests' /\ requests'[r] = requests[r]

(* Attestations change their state only. *)
AttestationsStay ==
    /\ attestations' \in Seq(Attestation)
    /\ DOMAIN attestations' = DOMAIN attestations
    /\ \A i \in DOMAIN attestations : SameAttestation(attestations[i], attestations'[i])

(* Tables that do not change stay. *)
LEMMA UnchangedStay ==
    ASSUME AssuranceTypeOK
    PROVE  /\ requests' = requests => RequestsStay
           /\ attestations' = attestations => AttestationsStay
BY DEF RequestsStay, AttestationsStay, SameAttestation, AssuranceTypeOK

(* Invalidating attestations changes the state of those. *)
LEMMA InvalidatedStay ==
    ASSUME AssuranceTypeOK, NEW S, attestations' = Invalidated(S)
    PROVE  /\ AttestationsStay
           /\ \A i \in DOMAIN attestations :
                 attestations'[i].state = IF i \in S THEN "invalidated"
                                          ELSE attestations[i].state
<1>. DEFINE n == Len(attestations)
            t(i) == [attestations[i] EXCEPT !.state = "invalidated"]
<1>1. attestations \in Seq(Attestation) /\ DOMAIN attestations = 1..n /\ n \in Nat
  BY LenProperties DEF AssuranceTypeOK
<1>2. \A i \in 1..n : attestations[i] \in Attestation
  BY <1>1, ElementOfSeq
<1>3. \A i \in 1..n : /\ t(i) \in Attestation /\ t(i).state = "invalidated"
                     /\ SameAttestation(attestations[i], t(i))
  BY <1>2 DEF Attestation, SameAttestation
<1>4. \A i \in 1..n : SameAttestation(attestations[i], attestations[i])
  BY DEF SameAttestation
<1>5. attestations' = [i \in 1..n |-> IF i \in S THEN t(i) ELSE attestations[i]]
  BY <1>1 DEF Invalidated
<1>. HIDE DEF t
<1>6. attestations' \in [1..n -> Attestation]
  BY <1>2, <1>3, <1>5
<1>7. attestations' \in Seq(Attestation)
  BY <1>1, <1>6
<1>. QED
  BY <1>1, <1>3, <1>4, <1>5, <1>6, <1>7 DEF AttestationsStay

(* Restoring one attestation changes its state. *)
LEMMA RestoredStay ==
    ASSUME AssuranceTypeOK, NEW k \in DOMAIN attestations,
           attestations' = [attestations EXCEPT ![k].state = "active"]
    PROVE  /\ AttestationsStay
           /\ \A i \in DOMAIN attestations :
                 attestations'[i].state = IF i = k THEN "active" ELSE attestations[i].state
<1>. DEFINE n == Len(attestations)
            t == [attestations[k] EXCEPT !.state = "active"]
<1>1. attestations \in Seq(Attestation) /\ DOMAIN attestations = 1..n /\ n \in Nat
  BY LenProperties DEF AssuranceTypeOK
<1>2. \A i \in 1..n : attestations[i] \in Attestation
  BY <1>1, ElementOfSeq
<1>3. t \in Attestation /\ t.state = "active" /\ SameAttestation(attestations[k], t)
  BY <1>1, <1>2 DEF Attestation, SameAttestation
<1>4. \A i \in 1..n : SameAttestation(attestations[i], attestations[i])
  BY DEF SameAttestation
<1>5. attestations' = [attestations EXCEPT ![k] = t]
  BY <1>1
<1>. HIDE DEF t
<1>6. attestations' \in Seq(Attestation) /\ DOMAIN attestations' = 1..n
      /\ attestations'[k] = t
      /\ \A i \in 1..n : i # k => attestations'[i] = attestations[i]
  BY <1>1, <1>3, <1>5, ExceptSeq
<1>. QED
  BY <1>1, <1>3, <1>4, <1>6 DEF AttestationsStay

(* A step of the grant table keeps its invariant and the terms of grants. *)
LEMMA GrantsStay ==
    ASSUME AuthorityInv, RootBasis, [AuthorityNext]_authorityVars
    PROVE  AuthorityInv' /\ TermsFixed /\ RootBasis'
<1>1. AuthorityInv' /\ TermsFixed
  BY NextKeepsInv, NextFixesTerms
<1>2. ASSUME NEW i \in Ids', i \notin Ids, grants'[i].basis = "bootstrap_designation"
      PROVE  grants'[i].issuer = None
  <2>1. CASE \E s \in Subjects, e \in 1..MaxTime + 1 : BootstrapAuthority(s, e)
    <3>1. agr = 0 /\ agr' = 1 /\ i = 1
      BY <1>2, <2>1 DEF BootstrapAuthority, Ids
    <3>. QED
      BY <2>1, <3>1 DEF BootstrapAuthority, WithGrant
  <2>2. ASSUME NEW a \in Ids, NEW o, NEW basis \in {"delegated", "audited_promotion"},
               GrantAuthority(a, o, basis)
        PROVE  FALSE
    <3>1. agr \in Nat /\ agr' = agr + 1 /\ i = agr + 1
      BY <1>2, <2>2 DEF GrantAuthority, Ids, AuthorityInv, AuthorityTypeOK
    <3>2. grants'[i] = DelegatedGrant(a, o, basis)
      BY <2>2, <3>1 DEF GrantAuthority, WithGrant
    <3>. QED
      BY <1>2, <2>2, <3>2 DEF DelegatedGrant
  <2>3. CASE agr' = agr
    BY <1>2, <2>3 DEF Ids
  <2>. QED
    BY <2>1, <2>2, <2>3 DEF AuthorityNext, OtherNext, authorityVars, PromoteAuthority,
       RevokeAuthority, UseAuthority, InvalidateHolder, Tick
<1>3. ASSUME NEW i \in Ids, grants'[i].basis = "bootstrap_designation"
      PROVE  grants'[i].issuer = None
  BY <1>1, <1>3 DEF TermsFixed, SameTerms, RootBasis
<1>. QED
  BY <1>1, <1>2, <1>3 DEF RootBasis

(* No self-corroboration and the metering of attestations outlive changes  *)
(* of state.                                                               *)
LEMMA RowsKeepCorroboration ==
    ASSUME AssuranceInv, TermsFixed, AuthorityTypeOK', RequestsStay, AttestationsStay
    PROVE  /\ NoSelfCorroboration' /\ AttestationsMetered'
           /\ \A i \in DOMAIN attestations' : /\ attestations'[i].request \in DOMAIN requests'
                                              /\ attestations'[i].grant \in Ids'
           /\ \A i \in DOMAIN attestations' :
                 grants'[attestations'[i].grant].holder = attestations'[i].verifier
<1>. USE DEF AssuranceInv, EvidenceInv
<1>1. \A i \in DOMAIN attestations :
         /\ SameAttestation(attestations[i], attestations'[i])
         /\ attestations[i].request \in DOMAIN requests
         /\ attestations[i].grant \in Ids
         /\ requests'[attestations[i].request] = requests[attestations[i].request]
         /\ attestations[i].request \in DOMAIN requests'
         /\ attestations[i].grant \in Ids'
         /\ SameTerms(grants[attestations[i].grant], grants'[attestations[i].grant])
  BY AttestationType DEF AttestationsStay, RequestsStay, TermsFixed
<1>2. NoSelfCorroboration'
  BY <1>1 DEF NoSelfCorroboration, SameAttestation, SameTerms, AttestationsStay
<1>3. AttestationsMetered'
  <2>. DEFINE A(g) == {i \in DOMAIN attestations : attestations[i].grant = g}
             B(g) == {i \in DOMAIN attestations' : attestations'[i].grant = g}
  <2>. SUFFICES ASSUME NEW g \in Ids', grants'[g].usageCap # None
                PROVE  Cardinality(B(g)) <= grants'[g].used
    BY DEF AttestationsMetered
  <2>1. B(g) = A(g)
    BY <1>1 DEF AttestationsStay, SameAttestation
  <2>2. grants'[g].used \in Nat
    BY DEF AuthorityTypeOK, Grant
  <2>3. CASE g \in Ids
    <3>1. /\ grants[g].usageCap # None /\ grants'[g].used >= grants[g].used
          /\ grants[g].used \in Nat
      BY <2>3 DEF TermsFixed, SameTerms, AuthorityTypeOK, Grant, AuthorityInv
    <3>2. Cardinality(A(g)) <= grants[g].used
      BY <2>3, <3>1 DEF AttestationsMetered
    <3>3. Cardinality(A(g)) \in Nat
      <4>1. A(g) \in SUBSET DOMAIN attestations
        OBVIOUS
      <4>. QED
        BY <4>1, FinitelyManyRows DEF AssuranceTypeOK
    <3>. HIDE DEF A, B
    <3>. QED
      BY <2>1, <2>2, <3>1, <3>2, <3>3
  <2>4. CASE g \notin Ids
    <3>1. A(g) = {}
      BY <1>1, <2>4
    <3>2. Cardinality(A(g)) = 0
      BY <3>1, FS_EmptySet
    <3>. HIDE DEF A, B
    <3>. QED
      BY <2>1, <2>2, <3>2
  <2>. QED
    BY <2>3, <2>4
<1>4. \A i \in DOMAIN attestations :
         grants'[attestations[i].grant].holder = attestations[i].verifier
  BY <1>1 DEF VerifierInv, SameTerms
<1>. QED
  BY <1>1, <1>2, <1>3, <1>4 DEF AttestationsStay, SameAttestation

-----------------------------------------------------------------------------
(* Credentials. *)

(* Attestation i is live but for its own expiry. *)
Counts(i) == attestations[i].state = "active" /\ GrantIsActive(attestations[i].grant)

(* The credentials that _recalculate leaves behind for the requests in R;  *)
(* with R empty, what a handler that does not call it leaves.              *)
CredentialsStep(R) ==
    /\ DOMAIN credentials' = DOMAIN credentials \cup {r \in R : ActiveAttestations(r)' # {}}
    /\ \A r \in DOMAIN credentials' :
          credentials'[r] =
             IF r \in R
             THEN Recalculated(r, attestations', ActiveAttestations(r)', PassedAudits')
             ELSE credentials[r]

(* A step at a fixed time that touches only the evidence of the requests   *)
(* in R, and recalculates those.                                           *)
LocalStep(R) ==
    /\ now' = now /\ RequestsStay
    /\ attestations' \in Seq(Attestation)
    /\ \A i \in DOMAIN attestations' : attestations'[i].request \in DOMAIN requests'
    /\ \A i \in DOMAIN attestations :
          i \in DOMAIN attestations' /\ SameAttestation(attestations[i], attestations'[i])
    /\ \A i \in DOMAIN attestations' :
          i \notin DOMAIN attestations => attestations'[i].request \in R
    /\ \A i \in DOMAIN attestations : attestations[i].request \notin R =>
          (Counts(i)' <=> Counts(i)) /\ (i \in PassedAudits' <=> i \in PassedAudits)
    /\ CredentialsStep(R)

(* What a step may not do to a credential. *)
NoneSoftened ==
    \A r \in DOMAIN credentials :
        /\ r \in DOMAIN credentials'
        /\ credentials'[r].expires = credentials[r].expires
        /\ credentials[r].state # "provisional" => credentials'[r].state # "provisional"

(* What CredentialsFollowEvidence says of one credential. *)
Follows(r) ==
    LET active == ActiveAttestations(r)
        deps == credentials[r].deps
    IN  /\ active \subseteq deps
        /\ \A i \in deps \ active : LapsedByTime(i)
        /\ deps = active =>
              credentials[r] = Recalculated(r, attestations, active, PassedAudits)

(* The credential of a request out of R. *)
LEMMA UntouchedCredential ==
    ASSUME AssuranceInv, TermsFixed, NEW R, LocalStep(R),
           NEW r \in DOMAIN credentials, r \notin R
    PROVE  /\ r \in DOMAIN credentials' /\ credentials'[r] = credentials[r]
           /\ Follows(r)'
<1>. USE DEF AssuranceInv, EvidenceInv
<1>1. /\ r \in DOMAIN credentials' /\ credentials'[r] = credentials[r]
      /\ r \in DOMAIN requests /\ requests'[r] = requests[r] /\ now' = now
  BY DEF LocalStep, CredentialsStep, RequestsStay, AssuranceTypeOK
<1>2. \A i \in DOMAIN attestations :
         /\ i \in DOMAIN attestations' /\ SameAttestation(attestations[i], attestations'[i])
         /\ attestations[i].request = r =>
               (Counts(i)' <=> Counts(i)) /\ (i \in PassedAudits' <=> i \in PassedAudits)
         /\ attestations[i].grant \in Ids
         /\ SameTerms(grants[attestations[i].grant], grants'[attestations[i].grant])
  BY AttestationType DEF LocalStep, TermsFixed
<1>3. ActiveAttestations(r)' = ActiveAttestations(r)
  <2>1. \A i \in ActiveAttestations(r)' : i \in DOMAIN attestations
    BY DEF ActiveAttestations, LocalStep
  <2>2. \A i \in DOMAIN attestations :
           i \in ActiveAttestations(r)' <=> i \in ActiveAttestations(r)
    BY <1>1, <1>2 DEF ActiveAttestations, Counts, SameAttestation
  <2>. QED
    BY <2>1, <2>2 DEF ActiveAttestations
<1>. DEFINE active == ActiveAttestations(r)
<1>4. \A i \in active : /\ i \in DOMAIN attestations
                        /\ attestations'[i].path = attestations[i].path
                        /\ attestations'[i].basis = attestations[i].basis
                        /\ i \in PassedAudits' <=> i \in PassedAudits
  BY <1>2 DEF ActiveAttestations, SameAttestation
<1>5. Follows(r)
  BY DEF CredentialsFollowEvidence, Follows
<1>6. \A i \in credentials[r].deps : LapsedByTime(i) => LapsedByTime(i)'
  BY <1>1, <1>2 DEF LapsedByTime, SameAttestation, SameTerms, DepsInv
<1>. HIDE DEF active
<1>7. Bases(attestations', active, PassedAudits') = Bases(attestations, active, PassedAudits)
  BY <1>4 DEF Bases
<1>8. /\ {attestations'[i].path : i \in active} = {attestations[i].path : i \in active}
      /\ active \cap PassedAudits' = active \cap PassedAudits
  BY <1>4
<1>. QED
  BY <1>1, <1>3, <1>5, <1>6, <1>7, <1>8 DEF Follows, active, Recalculated, Qualifies, HasCredential

(* The credential of a request in R is what _recalculate returns, and      *)
(* recalculating it again changes nothing.                                 *)
LEMMA RecalculatedCredential ==
    ASSUME AssuranceInv, NEW R, R \subseteq DOMAIN requests, LocalStep(R),
           NEW r \in R, r \in DOMAIN credentials'
    PROVE  /\ credentials'[r] \in Credential
           /\ credentials'[r].deps = ActiveAttestations(r)'
           /\ Follows(r)'
           /\ r \in DOMAIN credentials =>
                 /\ credentials'[r].expires = credentials[r].expires
                 /\ credentials[r].state # "provisional" =>
                       credentials'[r].state # "provisional"
<1>. USE DEF AssuranceInv, EvidenceInv
<1>. DEFINE active == ActiveAttestations(r)'
            table == attestations'
            passed == PassedAudits'
<1>1. /\ r \in DOMAIN requests' /\ requests'[r] = requests[r] /\ now' = now
      /\ credentials'[r] = Recalculated(r, table, active, passed)
  BY DEF LocalStep, CredentialsStep, RequestsStay
<1>2. active \subseteq DOMAIN table
  BY DEF ActiveAttestations
<1>3. DOMAIN table \subseteq Nat /\ \A i \in DOMAIN table : table[i] \in Attestation
  <2>1. table \in Seq(Attestation)
    BY DEF LocalStep
  <2>. QED
    BY <2>1, LenProperties, ElementOfSeq
<1>4. r \in DOMAIN credentials => credentials[r] \in Credential
  BY DEF AssuranceTypeOK
<1>5. now \in Nat /\ CredentialTtl \in Nat
  BY TablesAssumption, BoundsAssumption DEF AssuranceTypeOK, AuthorityTypeOK
<1>6. Qualifies(r, attestations, ActiveAttestations(r), PassedAudits)'
        <=> Qualifies(r, table, active, passed)
  BY <1>1 DEF Qualifies
<1>. DEFINE old == HasCredential(r) /\ credentials[r].state \in {"active", "revoked"}
<1>7. Bases(table, active, passed) \subseteq VerificationBasis
  BY <1>2, <1>3 DEF Bases, Attestation, VerificationBasis
<1>. HIDE DEF active, table, passed
<1>8. /\ credentials'[r].state = IF Qualifies(r, table, active, passed) THEN "active"
                                 ELSE IF old \/ active = {} THEN "revoked" ELSE "provisional"
      /\ credentials'[r].deps = active
      /\ credentials'[r].bases = Bases(table, active, passed)
      /\ credentials'[r].expires = IF HasCredential(r) THEN credentials[r].expires
                                   ELSE now + CredentialTtl
  BY <1>1 DEF Recalculated
<1>9. credentials'[r] \in Credential
  <2>1. credentials'[r].expires \in Nat
    BY <1>4, <1>5, <1>8 DEF Credential, HasCredential
  <2>. QED
    BY <1>1, <1>2, <1>3, <1>7, <1>8, <2>1 DEF Recalculated, Credential
<1>10. Recalculated(r, attestations, ActiveAttestations(r), PassedAudits)'
          = [state |-> IF Qualifies(r, table, active, passed) THEN "active"
                       ELSE IF \/ credentials'[r].state \in {"active", "revoked"}
                               \/ active = {}
                            THEN "revoked" ELSE "provisional",
             deps |-> active, bases |-> Bases(table, active, passed),
             expires |-> credentials'[r].expires]
  BY <1>6 DEF Recalculated, HasCredential, table, active, passed
<1>11. Recalculated(r, attestations, ActiveAttestations(r), PassedAudits)'
          = Recalculated(r, table, active, passed)
  BY <1>1, <1>8, <1>10 DEF Recalculated
<1>12. Follows(r)'
  BY <1>1, <1>8, <1>11 DEF Follows, table, active, passed
<1>. QED
  BY <1>4, <1>8, <1>9, <1>12 DEF HasCredential, Credential, active

(* The part of the type invariant about credentials. *)
CredentialsTypeOK ==
    /\ DOMAIN credentials \subseteq DOMAIN requests
    /\ \A r \in DOMAIN credentials : credentials[r] \in Credential

(* A local step keeps the credentials in step with the evidence. *)
LEMMA LocalStepKeepsCredentials ==
    ASSUME AssuranceInv, TermsFixed, NEW R, R \subseteq DOMAIN requests, LocalStep(R)
    PROVE  /\ CredentialsTypeOK' /\ DepsInv' /\ CredentialsFollowEvidence'
           /\ NoneSoftened
<1>. USE DEF AssuranceInv, EvidenceInv
<1>1. \A r \in DOMAIN credentials' : r \in R \/ r \in DOMAIN credentials
  BY DEF LocalStep, CredentialsStep
<1>2. \A r \in DOMAIN credentials : r \in DOMAIN credentials'
  BY DEF LocalStep, CredentialsStep
<1>3. CredentialsTypeOK'
  <2>1. \A r \in DOMAIN credentials' : r \in DOMAIN requests'
    BY <1>1 DEF LocalStep, RequestsStay, AssuranceTypeOK
  <2>2. \A r \in DOMAIN credentials' : credentials'[r] \in Credential
    BY <1>1, RecalculatedCredential, UntouchedCredential DEF AssuranceTypeOK
  <2>. QED
    BY <2>1, <2>2 DEF CredentialsTypeOK
<1>4. ASSUME NEW r \in DOMAIN credentials', NEW i \in credentials'[r].deps
      PROVE  i \in DOMAIN attestations' /\ attestations'[i].request = r
  <2>1. CASE r \in R
    BY <1>4, <2>1, RecalculatedCredential DEF ActiveAttestations
  <2>2. CASE r \notin R
    <3>1. i \in DOMAIN attestations /\ attestations[i].request = r
      BY <1>1, <1>4, <2>2, UntouchedCredential DEF DepsInv
    <3>. QED
      BY <3>1 DEF LocalStep, SameAttestation
  <2>. QED
    BY <2>1, <2>2
<1>5. \A r \in DOMAIN credentials' : Follows(r)'
  BY <1>1, RecalculatedCredential, UntouchedCredential
<1>6. NoneSoftened
  BY <1>2, RecalculatedCredential, UntouchedCredential DEF NoneSoftened
<1>. QED
  BY <1>3, <1>4, <1>5, <1>6 DEF DepsInv, CredentialsFollowEvidence, Follows

(* Time passes: what lapses stays among the recorded dependencies. *)
LEMMA TickKeepsCredentials ==
    ASSUME AssuranceInv, Tick, UNCHANGED assuranceVars
    PROVE  /\ CredentialsTypeOK' /\ DepsInv' /\ CredentialsFollowEvidence'
           /\ NoneSoftened
<1>. USE DEF AssuranceInv, EvidenceInv
<1>1. /\ now \in Int /\ now' = now + 1 /\ agr' = agr /\ grants' = grants
      /\ requests' = requests /\ attestations' = attestations /\ audits' = audits
      /\ credentials' = credentials
  BY DEF Tick, assuranceVars, AssuranceTypeOK, AuthorityTypeOK
<1>2. CredentialsTypeOK' /\ DepsInv' /\ NoneSoftened
  BY <1>1 DEF CredentialsTypeOK, DepsInv, NoneSoftened, AssuranceTypeOK
<1>3. \A i \in DOMAIN attestations : /\ attestations[i].expires \in Nat
                                     /\ attestations[i].grant \in Ids
                                     /\ grants[attestations[i].grant].expires \in Nat
  BY AttestationType DEF Attestation, AssuranceTypeOK, AuthorityTypeOK, Grant
<1>4. ASSUME NEW r \in DOMAIN credentials
      PROVE  Follows(r)'
  <2>1. Follows(r)
    BY DEF CredentialsFollowEvidence, Follows
  <2>2. ActiveAttestations(r)' \subseteq ActiveAttestations(r)
    BY <1>1, <1>3 DEF ActiveAttestations, GrantIsActive, Ids
  <2>3. \A i \in DOMAIN attestations : LapsedByTime(i) => LapsedByTime(i)'
    BY <1>1, <1>3 DEF LapsedByTime
  <2>4. \A i \in ActiveAttestations(r) \ ActiveAttestations(r)' : LapsedByTime(i)'
    BY <1>1, <1>3 DEF ActiveAttestations, GrantIsActive, LapsedByTime, Ids
  <2>5. \A i \in credentials[r].deps : i \in DOMAIN attestations
    BY DEF DepsInv
  <2>6. /\ ActiveAttestations(r)' \subseteq credentials'[r].deps
        /\ \A i \in credentials'[r].deps \ ActiveAttestations(r)' : LapsedByTime(i)'
    BY <1>1, <2>1, <2>2, <2>3, <2>4, <2>5 DEF Follows
  <2>7. ASSUME credentials'[r].deps = ActiveAttestations(r)'
        PROVE  credentials'[r]
                 = Recalculated(r, attestations, ActiveAttestations(r), PassedAudits)'
    <3>1. ActiveAttestations(r)' = ActiveAttestations(r)
      BY <1>1, <2>1, <2>2, <2>7 DEF Follows
    <3>2. credentials[r] = Recalculated(r, attestations, ActiveAttestations(r), PassedAudits)
      BY <1>1, <2>1, <2>7, <3>1 DEF Follows
    <3>3. PassedAudits' = PassedAudits
      BY <1>1 DEF PassedAudits
    <3>. QED
      BY <1>1, <3>1, <3>2, <3>3 DEF Recalculated, Qualifies, HasCredential, Bases
  <2>. QED
    BY <2>6, <2>7 DEF Follows
<1>. QED
  BY <1>1, <1>2, <1>4 DEF CredentialsFollowEvidence, Follows

-----------------------------------------------------------------------------
(* The shapes of step. *)

(* The parts of the type invariant about the other tables. *)
ReferralsOK ==
    /\ claims \subseteq Definitions
    /\ requests \in Seq(Request) /\ Len(requests) <= MaxRequests
    /\ invitations \subseteq Invitation /\ introductions \subseteq Introduction
    /\ ReferredInv

DisputesOK ==
    /\ DOMAIN audits \subseteq DOMAIN attestations
    /\ \A i \in DOMAIN audits : audits[i] \in {"pending", "passed", "failed"}
    /\ challenges \in Seq(Challenge)
    /\ \A c \in DOMAIN challenges : challenges[c].attestation \in DOMAIN attestations
    /\ ChallengesInv /\ OnlyAppealRestores

VerifiersOK == keyOf \in [Subjects -> Keys \cup {None}] /\ VerifierInv

CredentialsOK == CredentialsTypeOK /\ DepsInv /\ CredentialsFollowEvidence

(* The invariant in these parts. *)
LEMMA InvParts ==
    ASSUME AssuranceInv
    PROVE  ReferralsOK /\ DisputesOK /\ VerifiersOK /\ CredentialsOK
BY DEF AssuranceInv, EvidenceInv, AssuranceTypeOK, ReferralsOK, DisputesOK, VerifiersOK,
       CredentialsOK, CredentialsTypeOK

(* A step that adds no attestation keeps the invariant if it keeps the     *)
(* parts that depend on keys, disputes and credentials.                    *)
LEMMA StepKeepsInv ==
    ASSUME AssuranceInv, [AuthorityNext]_authorityVars, RequestsStay, AttestationsStay,
           ReferralsOK', DisputesOK', VerifiersOK', CredentialsOK'
    PROVE  AssuranceInv'
<1>1. AuthorityInv' /\ TermsFixed /\ RootBasis'
  BY GrantsStay DEF AssuranceInv, EvidenceInv
<1>2. /\ NoSelfCorroboration' /\ AttestationsMetered'
      /\ \A i \in DOMAIN attestations' : /\ attestations'[i].request \in DOMAIN requests'
                                         /\ attestations'[i].grant \in Ids'
  BY <1>1, RowsKeepCorroboration DEF AuthorityInv
<1>3. attestations' \in Seq(Attestation)
  BY DEF AttestationsStay
<1>4. AssuranceTypeOK'
  BY <1>1, <1>2, <1>3 DEF AssuranceTypeOK, AuthorityInv, ReferralsOK, DisputesOK, VerifiersOK,
     CredentialsOK, CredentialsTypeOK
<1>. QED
  BY <1>1, <1>2, <1>4 DEF AssuranceInv, EvidenceInv, ReferralsOK, DisputesOK, VerifiersOK,
     CredentialsOK

(* Referrals that do not change stay right. *)
LEMMA ReferralsStay ==
    ASSUME AssuranceInv, UNCHANGED <<claims, requests, invitations, introductions>>
    PROVE  ReferralsOK' /\ RequestsStay
BY InvParts DEF ReferralsOK, ReferredInv, RequestsStay

(* Disputes that do not change stay right, if nothing is restored. *)
LEMMA DisputesStay ==
    ASSUME AssuranceInv, AttestationsStay, UNCHANGED <<audits, challenges>>,
           \A i \in DOMAIN attestations : attestations[i].state = "invalidated" =>
               attestations'[i].state = "invalidated"
    PROVE  DisputesOK'
<1>1. DisputesOK
  BY InvParts
<1>2. OnlyAppealRestores'
  BY <1>1 DEF DisputesOK, OnlyAppealRestores, Objected, AppealReversed, AttestationsStay
<1>. QED
  BY <1>1, <1>2 DEF DisputesOK, ChallengesInv, AttestationsStay

(* Keys that do not change, and no restoration under a revoked grant. *)
LEMMA VerifiersStay ==
    ASSUME AssuranceInv, TermsFixed, AttestationsStay, UNCHANGED keyOf,
           \A i \in DOMAIN attestations :
              /\ attestations[i].state = "invalidated"
              /\ grants[attestations[i].grant].revoked # "no"
              => attestations'[i].state = "invalidated"
    PROVE  VerifiersOK'
<1>1. VerifiersOK
  BY InvParts
<1>2. \A i \in DOMAIN attestations :
         /\ SameAttestation(attestations[i], attestations'[i])
         /\ attestations[i].grant \in Ids
         /\ SameTerms(grants[attestations[i].grant], grants'[attestations[i].grant])
         /\ grants[attestations[i].grant].revoked # "no" =>
               grants'[attestations[i].grant].revoked # "no"
  BY AttestationType DEF AttestationsStay, TermsFixed, AssuranceInv
<1>3. VerifierInv'
  BY <1>1, <1>2 DEF VerifiersOK, VerifierInv, CanSign, SameAttestation, SameTerms,
     AttestationsStay
<1>. QED
  BY <1>1, <1>3 DEF VerifiersOK

(* Both ways for a handler to leave the credentials. *)
LEMMA CredentialsSteps ==
    /\ \A R : Recalculate(R) => CredentialsStep(R)
    /\ credentials' = credentials => CredentialsStep({})
BY DEF Recalculate, CredentialsStep

(* The grants stay in force. *)
SameForce ==
    /\ now' = now
    /\ \A g \in Ids : GrantIsActive(g)' <=> GrantIsActive(g)

(* Metering a grant leaves all grants in force. *)
LEMMA SignedUseStep ==
    ASSUME AuthorityInv, NEW a \in Ids, NEW c, NEW ct, NEW m, SignedUse(a, c, ct, m)
    PROVE  /\ SameForce /\ Ids' = Ids
           /\ \A g \in Ids : SameTerms(grants[g], grants'[g])
           /\ grants' = Consumed(a) /\ GrantIsActive(a) /\ BelowCap(grants[a])
<1>1. /\ grants' = Consumed(a) /\ Ids' = Ids /\ now' = now
      /\ GrantIsActive(a) /\ BelowCap(grants[a])
  BY DEF SignedUse, UseAuthority, ValidateScoped, Ids
<1>2. \A g \in Ids : /\ SameTerms(grants[g], grants'[g])
                     /\ grants'[g].revoked = grants[g].revoked
  BY <1>1, ConsumedTable DEF AuthorityInv
<1>. QED
  BY <1>1, <1>2 DEF SameForce, GrantIsActive, SameTerms

(* A step that adds no attestation is local to R if what counts and what   *)
(* passed an audit changes within R only.                                  *)
LEMMA StayIsLocal ==
    ASSUME AssuranceInv, RequestsStay, AttestationsStay, now' = now,
           NEW R, CredentialsStep(R),
           \A i \in DOMAIN attestations : attestations[i].request \notin R =>
              (Counts(i)' <=> Counts(i)) /\ (i \in PassedAudits' <=> i \in PassedAudits)
    PROVE  LocalStep(R)
<1>1. \A i \in DOMAIN attestations : attestations[i].request \in DOMAIN requests
  BY AttestationType DEF AssuranceInv
<1>. QED
  BY <1>1 DEF LocalStep, AttestationsStay, RequestsStay, SameAttestation

(* Grants in force and the state of an attestation decide whether it counts. *)
LEMMA CountsStays ==
    ASSUME AssuranceInv, SameForce, AttestationsStay, NEW i \in DOMAIN attestations,
           attestations'[i].state = attestations[i].state
    PROVE  Counts(i)' <=> Counts(i)
<1>1. attestations'[i].grant = attestations[i].grant /\ attestations[i].grant \in Ids
  BY AttestationType DEF AttestationsStay, SameAttestation, AssuranceInv
<1>. QED
  BY <1>1 DEF Counts, SameForce

(* A handler that touches no evidence. *)
LEMMA QuietStepKeepsInv ==
    ASSUME AssuranceInv, [AuthorityNext]_authorityVars, SameForce, RequestsStay, ReferralsOK',
           UNCHANGED <<attestations, audits, challenges, credentials, keyOf>>
    PROVE  AssuranceInv' /\ NoneSoftened
<1>1. TermsFixed
  BY GrantsStay DEF AssuranceInv, EvidenceInv
<1>2. AttestationsStay
  BY UnchangedStay DEF AssuranceInv
<1>3. DisputesOK' /\ VerifiersOK'
  BY <1>1, <1>2, DisputesStay, VerifiersStay
<1>4. LocalStep({})
  <2>1. PassedAudits' = PassedAudits
    BY DEF PassedAudits
  <2>. QED
    BY <1>2, <2>1, CountsStays, CredentialsSteps, StayIsLocal DEF SameForce
<1>5. CredentialsOK' /\ NoneSoftened
  BY <1>1, <1>4, LocalStepKeepsCredentials DEF CredentialsOK
<1>. QED
  BY <1>2, <1>3, <1>5, StepKeepsInv

(* New grants leave the old ones in force. *)
LEMMA GrantStepForce ==
    ASSUME AuthorityInv, NEW a \in Ids, NEW o, NEW basis, GrantAuthority(a, o, basis)
    PROVE  SameForce
<1>1. /\ agr \in Nat /\ agr' = agr + 1 /\ now' = now /\ BelowCap(grants[a])
      /\ grants' = WithGrant(Consumed(a), DelegatedGrant(a, o, basis))
  BY DEF GrantAuthority, MayDelegate, ValidateAuthority, ValidateScoped,
         AuthorityInv, AuthorityTypeOK
<1>2. \A i \in Ids : i \in Ids' /\ grants'[i] = Consumed(a)[i]
  BY <1>1 DEF WithGrant, Ids
<1>3. \A i \in Ids : /\ SameTerms(grants[i], Consumed(a)[i])
                     /\ Consumed(a)[i].revoked = grants[i].revoked
  BY <1>1, ConsumedTable DEF AuthorityInv
<1>. QED
  BY <1>1, <1>2, <1>3 DEF SameForce, GrantIsActive, SameTerms

-----------------------------------------------------------------------------
(* The handlers, one by one. *)

(* register_claim *)
LEMMA RegisterKeepsInv ==
    ASSUME AssuranceInv, NEW a \in Ids, NEW d \in Definitions, RegisterClaim(a, d)
    PROVE  AssuranceInv' /\ NoneSoftened
<1>1. [AuthorityNext]_authorityVars
  BY StepsAreAuthority DEF AssuranceSteps, AssuranceInv, EvidenceInv
<1>2. SameForce
  BY SignedUseStep DEF RegisterClaim, AssuranceInv
<1>3. RequestsStay
  BY DEF RegisterClaim, RequestsStay
<1>4. ReferralsOK'
  BY InvParts DEF RegisterClaim, ReferralsOK, ReferredInv
<1>. QED
  BY <1>1, <1>2, <1>3, <1>4, QuietStepKeepsInv DEF RegisterClaim

(* invite_attestor *)
LEMMA InviteKeepsInv ==
    ASSUME AssuranceInv, NEW r \in DOMAIN requests, NEW v \in Subjects, NEW e \in Expiries,
           InviteAttestor(r, v, e)
    PROVE  AssuranceInv' /\ NoneSoftened
<1>1. SameForce
  BY DEF InviteAttestor, SameForce, GrantIsActive, authorityVars, Ids
<1>2. RequestsStay
  BY DEF InviteAttestor, RequestsStay
<1>3. [request |-> r, verifier |-> v, expires |-> e] \in Invitation
  BY RequestType, TablesAssumption DEF Invitation, AssuranceInv
<1>4. ReferralsOK'
  BY <1>3, InvParts DEF InviteAttestor, ReferralsOK, ReferredInv
<1>. QED
  BY <1>1, <1>2, <1>4, QuietStepKeepsInv DEF InviteAttestor

(* introduce_attestor *)
LEMMA IntroduceKeepsInv ==
    ASSUME AssuranceInv, NEW a \in Ids, NEW r \in DOMAIN requests, NEW x \in Subjects,
           NEW v \in Subjects, NEW e \in Expiries, IntroduceAttestor(a, r, x, v, e)
    PROVE  AssuranceInv' /\ NoneSoftened
<1>1. [AuthorityNext]_authorityVars
  BY StepsAreAuthority DEF AssuranceSteps, AssuranceInv, EvidenceInv
<1>2. SameForce
  BY SignedUseStep DEF IntroduceAttestor, AssuranceInv
<1>3. RequestsStay
  BY DEF IntroduceAttestor, RequestsStay
<1>4. [request |-> r, introducer |-> x, verifier |-> v, expires |-> e] \in Introduction
  BY RequestType, TablesAssumption DEF Introduction, AssuranceInv
<1>5. ReferralsOK'
  BY <1>4, InvParts DEF IntroduceAttestor, ReferralsOK, ReferredInv
<1>. QED
  BY <1>1, <1>2, <1>3, <1>5, QuietStepKeepsInv DEF IntroduceAttestor

(* request_claim *)
LEMMA RequestKeepsInv ==
    ASSUME AssuranceInv, NEW s \in Subjects, NEW d \in claims, RequestClaim(s, d)
    PROVE  AssuranceInv' /\ NoneSoftened
<1>. DEFINE q == [subject |-> s, definition |-> d]
<1>1. SameForce
  BY DEF RequestClaim, SameForce, GrantIsActive, authorityVars, Ids
<1>2. q \in Request /\ requests \in Seq(Request)
  BY InvParts DEF Request, ReferralsOK
<1>. HIDE DEF q
<1>3. /\ requests' \in Seq(Request) /\ Len(requests') = Len(requests) + 1
      /\ DOMAIN requests = 1..Len(requests) /\ DOMAIN requests' = 1..(Len(requests) + 1)
      /\ \A r \in 1..Len(requests) : requests'[r] = requests[r]
      /\ Len(requests) \in Nat
  BY <1>2, AppendProperties, LenProperties DEF RequestClaim, q
<1>4. RequestsStay
  BY <1>3 DEF RequestsStay
<1>5. Len(requests') <= MaxRequests
  BY <1>3, TablesAssumption DEF RequestClaim
<1>6. ReferralsOK'
  BY <1>3, <1>4, <1>5, InvParts DEF RequestClaim, ReferralsOK, ReferredInv, RequestsStay
<1>. QED
  BY <1>1, <1>4, <1>6, QuietStepKeepsInv DEF RequestClaim

(* bootstrap_authority, promote_authority, grant_authority *)
LEMMA GrantsKeepInv ==
    ASSUME AssuranceInv, UNCHANGED assuranceVars,
           \/ \E s \in Subjects, e \in 1..MaxTime + 1 : BootstrapAuthority(s, e)
           \/ \E a \in Ids, s \in Subjects, src \in SUBSET Ids, p \in Promotions :
                 PromoteAuthority(a, s, src, p)
           \/ \E a \in Ids, o \in Offers : GrantAuthority(a, o, "delegated")
    PROVE  AssuranceInv' /\ NoneSoftened
<1>1. AuthorityNext
  BY DEF AuthorityNext, OtherNext
<1>2. SameForce
  <2>1. ASSUME NEW s \in Subjects, NEW e \in 1..MaxTime + 1, BootstrapAuthority(s, e)
        PROVE  SameForce
    BY <2>1 DEF BootstrapAuthority, SameForce, Ids
  <2>2. ASSUME NEW a \in Ids, NEW s \in Subjects, NEW src \in SUBSET Ids, NEW p \in Promotions,
               PromoteAuthority(a, s, src, p)
        PROVE  SameForce
    BY <2>2, GrantStepForce DEF PromoteAuthority, AssuranceInv
  <2>3. ASSUME NEW a \in Ids, NEW o \in Offers, GrantAuthority(a, o, "delegated")
        PROVE  SameForce
    BY <2>3, GrantStepForce DEF AssuranceInv
  <2>. QED
    BY <2>1, <2>2, <2>3
<1>3. ReferralsOK' /\ RequestsStay
  BY ReferralsStay DEF assuranceVars
<1>. QED
  BY <1>1, <1>2, <1>3, QuietStepKeepsInv DEF assuranceVars

(* The clock. *)
LEMMA TickKeepsInv ==
    ASSUME AssuranceInv, Tick, UNCHANGED assuranceVars
    PROVE  AssuranceInv' /\ NoneSoftened
<1>1. AuthorityNext
  BY DEF AuthorityNext, OtherNext
<1>2. ReferralsOK' /\ RequestsStay /\ AttestationsStay
  BY ReferralsStay, UnchangedStay DEF assuranceVars, AssuranceInv
<1>3. TermsFixed
  BY <1>1, GrantsStay DEF AssuranceInv, EvidenceInv
<1>4. DisputesOK' /\ VerifiersOK'
  BY <1>2, <1>3, DisputesStay, VerifiersStay DEF assuranceVars
<1>. QED
  BY <1>1, <1>2, <1>4, TickKeepsCredentials, StepKeepsInv DEF CredentialsOK

(* A handler that changes the evidence of the requests in R only. *)
LEMMA EvidenceStepKeepsInv ==
    ASSUME AssuranceInv, [AuthorityNext]_authorityVars, now' = now,
           UNCHANGED <<claims, requests, invitations, introductions>>, AttestationsStay,
           NEW R, R \subseteq DOMAIN requests, CredentialsStep(R),
           \A i \in DOMAIN attestations : attestations[i].request \notin R =>
              (Counts(i)' <=> Counts(i)) /\ (i \in PassedAudits' <=> i \in PassedAudits),
           DisputesOK', VerifiersOK'
    PROVE  AssuranceInv' /\ NoneSoftened
<1>1. TermsFixed
  BY GrantsStay DEF AssuranceInv, EvidenceInv
<1>2. ReferralsOK' /\ RequestsStay
  BY ReferralsStay
<1>3. LocalStep(R)
  BY <1>2, StayIsLocal
<1>4. CredentialsOK' /\ NoneSoftened
  BY <1>1, <1>3, LocalStepKeepsCredentials DEF CredentialsOK
<1>. QED
  BY <1>2, <1>4, StepKeepsInv

(* credential_status *)
LEMMA StatusKeepsInv ==
    ASSUME AssuranceInv, NEW r \in DOMAIN requests, CredentialStatus(r)
    PROVE  AssuranceInv' /\ NoneSoftened
<1>1. /\ UNCHANGED <<authorityVars, now, claims, requests, invitations, introductions,
                     attestations, audits, challenges, keyOf>>
      /\ CredentialsStep({r})
  BY CredentialsSteps DEF CredentialStatus, authorityVars
<1>2. AttestationsStay
  BY <1>1, UnchangedStay DEF AssuranceInv
<1>3. TermsFixed /\ SameForce
  BY <1>1, GrantsStay DEF AssuranceInv, EvidenceInv, SameForce, GrantIsActive, authorityVars, Ids
<1>4. DisputesOK' /\ VerifiersOK'
  BY <1>1, <1>2, <1>3, DisputesStay, VerifiersStay
<1>5. PassedAudits' = PassedAudits
  BY <1>1 DEF PassedAudits
<1>. QED
  BY <1>1, <1>2, <1>3, <1>4, <1>5, CountsStays, EvidenceStepKeepsInv

(* select_audit *)
LEMMA SelectKeepsInv ==
    ASSUME AssuranceInv, NEW a \in Ids, NEW k \in DOMAIN attestations, SelectAudit(a, k)
    PROVE  AssuranceInv' /\ NoneSoftened
<1>1. [AuthorityNext]_authorityVars
  BY StepsAreAuthority DEF AssuranceSteps, AssuranceInv, EvidenceInv
<1>2. TermsFixed /\ SameForce
  BY <1>1, GrantsStay, SignedUseStep DEF AssuranceInv, EvidenceInv, SelectAudit
<1>3. AttestationsStay /\ CredentialsStep({})
  BY UnchangedStay, CredentialsSteps DEF SelectAudit, AssuranceInv
<1>4. /\ DOMAIN audits' = DOMAIN audits \cup {k} /\ k \notin DOMAIN audits
      /\ audits'[k] = "pending"
      /\ \A i \in DOMAIN audits : audits'[i] = audits[i]
  BY DEF SelectAudit
<1>5. PassedAudits' = PassedAudits
  BY <1>4 DEF PassedAudits
<1>6. DisputesOK'
  <2>1. DisputesOK
    BY InvParts
  <2>2. OnlyAppealRestores'
    BY <1>4, <2>1 DEF DisputesOK, OnlyAppealRestores, Objected, AppealReversed, SelectAudit
  <2>. QED
    BY <1>4, <2>1, <2>2 DEF DisputesOK, ChallengesInv, SelectAudit
<1>7. VerifiersOK'
  BY <1>2, <1>3, VerifiersStay DEF SelectAudit
<1>. QED
  BY <1>1, <1>2, <1>3, <1>5, <1>6, <1>7, CountsStays, EvidenceStepKeepsInv
  DEF SelectAudit, SameForce

(* decide_audit *)
LEMMA DecideAuditKeepsInv ==
    ASSUME AssuranceInv, NEW a \in Ids, NEW k \in DOMAIN audits, NEW p \in BOOLEAN,
           DecideAudit(a, k, p)
    PROVE  AssuranceInv' /\ NoneSoftened
<1>. DEFINE R == {attestations[k].request}
            lost == IF p THEN {} ELSE {k}
<1>1. [AuthorityNext]_authorityVars
  BY StepsAreAuthority DEF AssuranceSteps, AssuranceInv, EvidenceInv
<1>2. TermsFixed /\ SameForce
  BY <1>1, GrantsStay, SignedUseStep DEF AssuranceInv, EvidenceInv, DecideAudit
<1>3. k \in DOMAIN attestations /\ R \subseteq DOMAIN requests
  BY AttestationType, InvParts DEF DisputesOK, AssuranceInv
<1>4. CredentialsStep(R)
  BY CredentialsSteps DEF DecideAudit
<1>5. /\ AttestationsStay
      /\ \A i \in DOMAIN attestations :
            attestations'[i].state = IF i \in lost THEN "invalidated"
                                     ELSE attestations[i].state
  BY InvalidatedStay DEF DecideAudit, AssuranceInv
<1>6. /\ DOMAIN audits' = DOMAIN audits
      /\ audits'[k] = IF p THEN "passed" ELSE "failed"
      /\ \A i \in DOMAIN audits : i # k => audits'[i] = audits[i]
  BY DEF DecideAudit
<1>7. \A i \in DOMAIN attestations : attestations[i].request \notin R =>
         (Counts(i)' <=> Counts(i)) /\ (i \in PassedAudits' <=> i \in PassedAudits)
  <2>. SUFFICES ASSUME NEW i \in DOMAIN attestations, attestations[i].request \notin R
                PROVE  (Counts(i)' <=> Counts(i)) /\ (i \in PassedAudits' <=> i \in PassedAudits)
    OBVIOUS
  <2>1. i # k
    OBVIOUS
  <2>2. i \in PassedAudits' <=> i \in PassedAudits
    BY <1>6, <2>1 DEF PassedAudits
  <2>3. attestations'[i].state = attestations[i].state
    BY <1>5, <2>1
  <2>. QED
    BY <1>2, <1>5, <2>2, <2>3, CountsStays
<1>8. DisputesOK'
  <2>1. DisputesOK
    BY InvParts
  <2>2. \A i \in DOMAIN attestations : Objected(i)' => Objected(i) \/ i \in lost
    BY <1>6 DEF Objected, DecideAudit
  <2>3. OnlyAppealRestores'
    BY <1>5, <2>1, <2>2 DEF DisputesOK, OnlyAppealRestores, AppealReversed, DecideAudit,
       AttestationsStay
  <2>. QED
    BY <1>5, <1>6, <2>1, <2>3 DEF DisputesOK, ChallengesInv, DecideAudit, AttestationsStay
<1>9. VerifiersOK'
  BY <1>2, <1>5, VerifiersStay DEF DecideAudit
<1>. HIDE DEF R
<1>. QED
  BY <1>1, <1>2, <1>3, <1>4, <1>5, <1>7, <1>8, <1>9, EvidenceStepKeepsInv
  DEF DecideAudit, SameForce

(* One challenge changes. *)
LEMMA ChallengeChanges ==
    ASSUME AssuranceInv, NEW c \in DOMAIN challenges, NEW t,
           t.attestation = challenges[c].attestation,
           challenges[c] \in Challenge => t \in Challenge,
           challenges' = [challenges EXCEPT ![c] = t]
    PROVE  /\ challenges' \in Seq(Challenge) /\ DOMAIN challenges' = DOMAIN challenges
           /\ challenges'[c] = t
           /\ \A d \in DOMAIN challenges : d # c => challenges'[d] = challenges[d]
           /\ challenges[c] \in Challenge
           /\ \A d \in DOMAIN challenges : challenges'[d].attestation = challenges[d].attestation
<1>1. challenges \in Seq(Challenge)
  BY InvParts DEF DisputesOK
<1>2. DOMAIN challenges = 1..Len(challenges)
  BY <1>1, LenProperties
<1>3. challenges[c] \in Challenge
  BY <1>1, <1>2, ElementOfSeq
<1>4. challenges' \in Seq(Challenge)
  BY <1>1, <1>2, <1>3, ExceptSeq
<1>. QED
  BY <1>1, <1>2, <1>3, <1>4

(* open_challenge *)
LEMMA OpenKeepsInv ==
    ASSUME AssuranceInv, NEW s \in Subjects, NEW k \in DOMAIN attestations, OpenChallenge(s, k)
    PROVE  AssuranceInv' /\ NoneSoftened
<1>. DEFINE t == [attestation |-> k, decision |-> None, appeal |-> None, state |-> "open"]
<1>1. /\ UNCHANGED <<authorityVars, now, claims, requests, invitations, introductions,
                     attestations, audits, credentials, keyOf>>
      /\ challenges' = Append(challenges, t)
  BY DEF OpenChallenge, authorityVars
<1>2. AttestationsStay /\ CredentialsStep({})
  BY <1>1, UnchangedStay, CredentialsSteps DEF AssuranceInv
<1>3. TermsFixed /\ SameForce
  BY <1>1, GrantsStay DEF AssuranceInv, EvidenceInv, SameForce, GrantIsActive, authorityVars, Ids
<1>4. DisputesOK
  BY InvParts
<1>5. /\ challenges' \in Seq(Challenge)
      /\ DOMAIN challenges' = DOMAIN challenges \cup {Len(challenges) + 1}
      /\ Len(challenges) + 1 \notin DOMAIN challenges
      /\ \A c \in DOMAIN challenges : challenges'[c] = challenges[c]
      /\ challenges'[Len(challenges) + 1] = t
  <2>1. t \in Challenge
    BY AttestationType DEF Challenge, AssuranceInv
  <2>2. challenges \in Seq(Challenge)
    BY <1>4 DEF DisputesOK
  <2>. HIDE DEF t
  <2>. QED
    BY <1>1, <2>1, <2>2, AppendRow
<1>6. ChallengesInv' /\ \A c \in DOMAIN challenges' :
                            challenges'[c].attestation \in DOMAIN attestations'
  BY <1>1, <1>4, <1>5 DEF DisputesOK, ChallengesInv
<1>7. OnlyAppealRestores'
  <2>1. \A i : Objected(i)' => Objected(i)
    BY <1>1, <1>5, DecisionsAssumption DEF Objected
  <2>2. \A i : AppealReversed(i) => AppealReversed(i)'
    BY <1>1, <1>5 DEF AppealReversed
  <2>. QED
    BY <1>1, <1>4, <2>1, <2>2 DEF DisputesOK, OnlyAppealRestores
<1>8. DisputesOK'
  BY <1>1, <1>4, <1>5, <1>6, <1>7 DEF DisputesOK
<1>9. VerifiersOK'
  BY <1>1, <1>2, <1>3, VerifiersStay
<1>10. PassedAudits' = PassedAudits
  BY <1>1 DEF PassedAudits
<1>. QED
  BY <1>1, <1>2, <1>3, <1>8, <1>9, <1>10, CountsStays, EvidenceStepKeepsInv

(* respond_to_challenge, appeal_challenge *)
LEMMA AnswersKeepInv ==
    ASSUME AssuranceInv, NEW c \in DOMAIN challenges,
           RespondToChallenge(c) \/ AppealChallenge(c)
    PROVE  AssuranceInv' /\ NoneSoftened
<1>. DEFINE state == IF RespondToChallenge(c) THEN "responded" ELSE "appealed"
            t == [challenges[c] EXCEPT !.state = state]
<1>1. /\ UNCHANGED <<authorityVars, now, claims, requests, invitations, introductions,
                     attestations, audits, credentials, keyOf>>
      /\ challenges' = [challenges EXCEPT ![c] = t]
      /\ challenges[c].state # "closed"
  BY DEF RespondToChallenge, AppealChallenge, authorityVars
<1>2. AttestationsStay /\ CredentialsStep({})
  BY <1>1, UnchangedStay, CredentialsSteps DEF AssuranceInv
<1>3. TermsFixed /\ SameForce
  BY <1>1, GrantsStay DEF AssuranceInv, EvidenceInv, SameForce, GrantIsActive, authorityVars, Ids
<1>4. DisputesOK
  BY InvParts
<1>5. challenges[c] \in Challenge => /\ t \in Challenge
                                     /\ t.attestation = challenges[c].attestation
                                     /\ t.decision = challenges[c].decision
                                     /\ t.appeal = challenges[c].appeal
  BY DEF Challenge
<1>6. challenges[c] \in Challenge
  <2>1. challenges \in Seq(Challenge)
    BY <1>4 DEF DisputesOK
  <2>. QED
    BY <2>1, LenProperties, ElementOfSeq
<1>. HIDE DEF t
<1>7. /\ challenges' \in Seq(Challenge) /\ DOMAIN challenges' = DOMAIN challenges
      /\ challenges'[c] = t
      /\ \A d \in DOMAIN challenges : d # c => challenges'[d] = challenges[d]
      /\ \A d \in DOMAIN challenges : challenges'[d].attestation = challenges[d].attestation
  BY <1>1, <1>5, <1>6, ChallengeChanges
<1>8. ChallengesInv'
  BY <1>1, <1>4, <1>5, <1>6, <1>7 DEF DisputesOK, ChallengesInv
<1>9. OnlyAppealRestores'
  <2>1. \A d \in DOMAIN challenges : /\ challenges'[d].attestation = challenges[d].attestation
                                     /\ challenges'[d].decision = challenges[d].decision
                                     /\ challenges'[d].appeal = challenges[d].appeal
    BY <1>5, <1>6, <1>7
  <2>. QED
    BY <1>1, <1>4, <1>7, <2>1 DEF DisputesOK, OnlyAppealRestores, Objected, AppealReversed
<1>10. DisputesOK'
  BY <1>1, <1>4, <1>7, <1>8, <1>9 DEF DisputesOK
<1>11. VerifiersOK'
  BY <1>1, <1>2, <1>3, VerifiersStay
<1>12. PassedAudits' = PassedAudits
  BY <1>1 DEF PassedAudits
<1>. QED
  BY <1>1, <1>2, <1>3, <1>10, <1>11, <1>12, CountsStays, EvidenceStepKeepsInv

(* decide_challenge *)
LEMMA DecideChallengeKeepsInv ==
    ASSUME AssuranceInv, NEW a \in Ids, NEW c \in DOMAIN challenges,
           NEW decision \in {"sustained", "dismissed"}, DecideChallenge(a, c, decision)
    PROVE  AssuranceInv' /\ NoneSoftened
<1>. DEFINE k == challenges[c].attestation
            R == {attestations[k].request}
            lost == IF decision = "sustained" THEN {k} ELSE {}
            t == [challenges[c] EXCEPT !.state = "decided", !.decision = decision]
<1>1. [AuthorityNext]_authorityVars
  BY StepsAreAuthority DEF AssuranceSteps, AssuranceInv, EvidenceInv
<1>2. TermsFixed /\ SameForce
  BY <1>1, GrantsStay, SignedUseStep DEF AssuranceInv, EvidenceInv, DecideChallenge
<1>3. DisputesOK
  BY InvParts
<1>4. k \in DOMAIN attestations /\ R \subseteq DOMAIN requests
  BY <1>3, AttestationType DEF DisputesOK, AssuranceInv
<1>5. CredentialsStep(R)
  BY CredentialsSteps DEF DecideChallenge
<1>6. /\ AttestationsStay
      /\ \A i \in DOMAIN attestations :
            attestations'[i].state = IF i \in lost THEN "invalidated"
                                     ELSE attestations[i].state
  BY InvalidatedStay DEF DecideChallenge, AssuranceInv
<1>7. challenges[c] \in Challenge
  <2>1. challenges \in Seq(Challenge)
    BY <1>3 DEF DisputesOK
  <2>. QED
    BY <2>1, LenProperties, ElementOfSeq
<1>8. /\ t \in Challenge /\ t.attestation = challenges[c].attestation
      /\ t.decision = decision /\ t.appeal = challenges[c].appeal
  BY <1>7 DEF Challenge
<1>9. challenges' = [challenges EXCEPT ![c] = t]
  BY DEF DecideChallenge
<1>. HIDE DEF t
<1>10. /\ challenges' \in Seq(Challenge) /\ DOMAIN challenges' = DOMAIN challenges
       /\ challenges'[c] = t
       /\ \A d \in DOMAIN challenges : d # c => challenges'[d] = challenges[d]
       /\ \A d \in DOMAIN challenges : challenges'[d].attestation = challenges[d].attestation
  BY <1>8, <1>9, ChallengeChanges
<1>11. ChallengesInv'
  BY <1>3, <1>8, <1>10 DEF DisputesOK, ChallengesInv, DecideChallenge
<1>12. OnlyAppealRestores'
  <2>1. \A i \in DOMAIN attestations : Objected(i)' => Objected(i) \/ i \in lost
    BY <1>8, <1>10 DEF Objected, DecideChallenge
  <2>2. \A i : AppealReversed(i) => AppealReversed(i)'
    BY <1>8, <1>10 DEF AppealReversed
  <2>. QED
    BY <1>3, <1>6, <2>1, <2>2 DEF DisputesOK, OnlyAppealRestores, AttestationsStay
<1>13. DisputesOK'
  BY <1>3, <1>6, <1>10, <1>11, <1>12 DEF DisputesOK, DecideChallenge, AttestationsStay
<1>14. VerifiersOK'
  BY <1>2, <1>6, VerifiersStay DEF DecideChallenge
<1>15. \A i \in DOMAIN attestations : attestations[i].request \notin R =>
          (Counts(i)' <=> Counts(i)) /\ (i \in PassedAudits' <=> i \in PassedAudits)
  <2>1. PassedAudits' = PassedAudits
    BY DEF PassedAudits, DecideChallenge
  <2>2. \A i \in DOMAIN attestations : attestations[i].request \notin R =>
           attestations'[i].state = attestations[i].state
    BY <1>6
  <2>. QED
    BY <1>2, <1>6, <2>1, <2>2, CountsStays
<1>. HIDE DEF R
<1>. QED
  BY <1>1, <1>2, <1>4, <1>5, <1>6, <1>13, <1>14, <1>15, EvidenceStepKeepsInv
  DEF DecideChallenge, SameForce

(* decide_appeal: only a grant still in force brings an attestation back.  *)
LEMMA DecideAppealKeepsInv ==
    ASSUME AssuranceInv, NEW a \in Ids, NEW c \in DOMAIN challenges,
           NEW decision \in {"affirmed", "reversed"}, DecideAppeal(a, c, decision)
    PROVE  AssuranceInv' /\ NoneSoftened
<1>. DEFINE k == challenges[c].attestation
            R == {attestations[k].request}
            restored == /\ decision = "reversed"
                        /\ challenges[c].decision = "sustained"
                        /\ GrantIsActive(attestations[k].grant)
                        /\ attestations[k].expires > now
            t == [challenges[c] EXCEPT !.state = "closed", !.appeal = decision]
<1>1. [AuthorityNext]_authorityVars
  BY StepsAreAuthority DEF AssuranceSteps, AssuranceInv, EvidenceInv
<1>2. TermsFixed /\ SameForce
  BY <1>1, GrantsStay, SignedUseStep DEF AssuranceInv, EvidenceInv, DecideAppeal
<1>3. DisputesOK
  BY InvParts
<1>4. k \in DOMAIN attestations /\ R \subseteq DOMAIN requests
  BY <1>3, AttestationType DEF DisputesOK, AssuranceInv
<1>5. CredentialsStep(R)
  BY CredentialsSteps DEF DecideAppeal
<1>6. /\ AttestationsStay
      /\ \A i \in DOMAIN attestations :
            attestations'[i].state = IF restored /\ i = k THEN "active"
                                     ELSE attestations[i].state
  <2>1. CASE restored
    <3>1. attestations' = [attestations EXCEPT ![k].state = "active"]
      BY <2>1 DEF DecideAppeal
    <3>. QED
      BY <1>4, <2>1, <3>1, RestoredStay DEF AssuranceInv
  <2>2. CASE ~restored
    <3>1. attestations' = attestations
      BY <2>2 DEF DecideAppeal
    <3>. QED
      BY <2>2, <3>1, UnchangedStay DEF AssuranceInv
  <2>. QED
    BY <2>1, <2>2
<1>7. challenges[c] \in Challenge
  <2>1. challenges \in Seq(Challenge)
    BY <1>3 DEF DisputesOK
  <2>. QED
    BY <2>1, LenProperties, ElementOfSeq
<1>8. /\ t \in Challenge /\ t.attestation = challenges[c].attestation
      /\ t.decision = challenges[c].decision /\ t.appeal = decision
      /\ t.state = "closed"
  BY <1>7 DEF Challenge
<1>9. /\ challenges' = [challenges EXCEPT ![c] = t]
      /\ challenges[c].state = "appealed"
  BY DEF DecideAppeal
<1>. HIDE DEF t
<1>10. /\ challenges' \in Seq(Challenge) /\ DOMAIN challenges' = DOMAIN challenges
       /\ challenges'[c] = t
       /\ \A d \in DOMAIN challenges : d # c => challenges'[d] = challenges[d]
       /\ \A d \in DOMAIN challenges : challenges'[d].attestation = challenges[d].attestation
  BY <1>8, <1>9, ChallengeChanges
<1>11. ChallengesInv'
  BY <1>3, <1>8, <1>10 DEF DisputesOK, ChallengesInv
<1>12. OnlyAppealRestores'
  <2>1. \A i \in DOMAIN attestations : Objected(i)' => Objected(i)
    BY <1>8, <1>10 DEF Objected, DecideAppeal
  <2>2. challenges[c].appeal # "reversed"
    BY <1>3, <1>9, DecisionsAssumption DEF DisputesOK, ChallengesInv
  <2>3. \A i : AppealReversed(i) => AppealReversed(i)'
    BY <1>8, <1>10, <2>2 DEF AppealReversed
  <2>4. \A i : restored /\ i = k => AppealReversed(i)'
    BY <1>8, <1>10 DEF AppealReversed
  <2>5. ASSUME NEW i \in DOMAIN attestations, Objected(i)', ~AppealReversed(i)'
        PROVE  attestations'[i].state = "invalidated"
    <3>1. attestations[i].state = "invalidated"
      BY <1>3, <2>1, <2>3, <2>5 DEF DisputesOK, OnlyAppealRestores
    <3>2. ~(restored /\ i = k)
      BY <2>4, <2>5
    <3>. QED
      BY <1>6, <3>1, <3>2
  <2>. QED
    BY <1>6, <2>5 DEF OnlyAppealRestores, AttestationsStay
<1>13. DisputesOK'
  BY <1>3, <1>6, <1>10, <1>11, <1>12 DEF DisputesOK, DecideAppeal, AttestationsStay
<1>14. VerifiersOK'
  <2>1. \A i \in DOMAIN attestations :
              /\ attestations[i].state = "invalidated"
              /\ grants[attestations[i].grant].revoked # "no"
              => attestations'[i].state = "invalidated"
    BY <1>6 DEF GrantIsActive
  <2>. QED
    BY <1>2, <1>6, <2>1, VerifiersStay DEF DecideAppeal
<1>15. \A i \in DOMAIN attestations : attestations[i].request \notin R =>
          (Counts(i)' <=> Counts(i)) /\ (i \in PassedAudits' <=> i \in PassedAudits)
  <2>1. PassedAudits' = PassedAudits
    BY DEF PassedAudits, DecideAppeal
  <2>2. \A i \in DOMAIN attestations : attestations[i].request \notin R =>
           attestations'[i].state = attestations[i].state
    BY <1>6
  <2>. QED
    BY <1>2, <1>6, <2>1, <2>2, CountsStays
<1>. HIDE DEF R
<1>. QED
  BY <1>1, <1>2, <1>4, <1>5, <1>6, <1>13, <1>14, <1>15, EvidenceStepKeepsInv
  DEF DecideAppeal, SameForce

(* An attestation that a step leaves out of the lost ones, and whose grant *)
(* it leaves alone while the attestation is active, counts as before.      *)
LEMMA CountsUnlessLost ==
    ASSUME AssuranceInv, TermsFixed, Ids' = Ids, now' = now, AttestationsStay,
           NEW i \in DOMAIN attestations,
           attestations'[i].state = attestations[i].state,
           attestations[i].state = "active" =>
              (grants'[attestations[i].grant].revoked = "no"
                 <=> grants[attestations[i].grant].revoked = "no")
    PROVE  Counts(i)' <=> Counts(i)
<1>1. /\ attestations'[i].grant = attestations[i].grant /\ attestations[i].grant \in Ids
      /\ grants'[attestations[i].grant].expires = grants[attestations[i].grant].expires
  BY AttestationType DEF AttestationsStay, SameAttestation, AssuranceInv, TermsFixed, SameTerms
<1>. QED
  BY <1>1 DEF Counts, GrantIsActive

(* revoke_authority *)
LEMMA RevokeKeepsAssurance ==
    ASSUME AssuranceInv, NEW a \in Ids, NEW t \in Ids, RevokeAuthorityAndDependents(a, t)
    PROVE  AssuranceInv' /\ NoneSoftened
<1>. DEFINE S == Subtree(t)
            lost == {i \in DOMAIN attestations : attestations[i].grant \in S
                                                 /\ attestations[i].state = "active"}
            R == {attestations[i].request : i \in lost}
<1>1. [AuthorityNext]_authorityVars
  BY StepsAreAuthority DEF AssuranceSteps, AssuranceInv, EvidenceInv
<1>2. TermsFixed
  BY <1>1, GrantsStay DEF AssuranceInv, EvidenceInv
<1>3. R \subseteq DOMAIN requests
  BY AttestationType DEF AssuranceInv
<1>4. CredentialsStep(R) /\ attestations' = Invalidated(lost)
  BY CredentialsSteps DEF RevokeAuthorityAndDependents
<1>5. /\ BelowCap(grants[a]) /\ UNCHANGED <<agr, now>> /\ S \in SUBSET Ids
      /\ grants' = [i \in Ids |-> IF i \in S
                       THEN [Consumed(a)[i] EXCEPT !.revoked = "authority"]
                       ELSE Consumed(a)[i]]
  BY DEF RevokeAuthorityAndDependents, RevokeAuthority, MayRevoke, MarkRevoked,
         ValidateAuthority, ValidateScoped, Subtree
<1>. HIDE DEF S
<1>6. \A g \in Ids : g \notin S => grants'[g].revoked = grants[g].revoked
  BY <1>5, MarkStep DEF AssuranceInv
<1>. HIDE DEF lost
<1>7. /\ AttestationsStay
      /\ \A i \in DOMAIN attestations :
            attestations'[i].state = IF i \in lost THEN "invalidated"
                                     ELSE attestations[i].state
  BY <1>4, InvalidatedStay DEF AssuranceInv
<1>8. DisputesOK' /\ VerifiersOK'
  BY <1>2, <1>7, DisputesStay, VerifiersStay DEF RevokeAuthorityAndDependents
<1>9. \A i \in DOMAIN attestations : attestations[i].request \notin R =>
         (Counts(i)' <=> Counts(i)) /\ (i \in PassedAudits' <=> i \in PassedAudits)
  <2>. SUFFICES ASSUME NEW i \in DOMAIN attestations, attestations[i].request \notin R
                PROVE  (Counts(i)' <=> Counts(i)) /\ (i \in PassedAudits' <=> i \in PassedAudits)
    OBVIOUS
  <2>1. i \notin lost
    OBVIOUS
  <2>2. attestations[i].grant \in Ids
    BY AttestationType DEF AssuranceInv
  <2>3. attestations[i].state = "active" =>
           grants'[attestations[i].grant].revoked = grants[attestations[i].grant].revoked
    BY <1>6, <2>1, <2>2 DEF lost
  <2>4. Ids' = Ids /\ now' = now
    BY <1>5 DEF Ids
  <2>5. Counts(i)' <=> Counts(i)
    BY <1>2, <1>7, <2>1, <2>3, <2>4, CountsUnlessLost
  <2>. QED
    BY <2>5 DEF PassedAudits, RevokeAuthorityAndDependents
<1>. HIDE DEF R
<1>. QED
  BY <1>1, <1>3, <1>4, <1>5, <1>7, <1>8, <1>9, EvidenceStepKeepsInv
  DEF RevokeAuthorityAndDependents

(* process_privacy_request, approved: all that the subject attested goes,  *)
(* with the grants it was attested under.                                  *)
LEMMA InvalidateKeepsAssurance ==
    ASSUME AssuranceInv, NEW a \in Ids, NEW s \in Subjects, NEW kind,
           InvalidateSubjectState(a, s, kind)
    PROVE  AssuranceInv' /\ NoneSoftened
<1>. DEFINE own == {r \in DOMAIN requests : requests[r].subject = s}
            lost == LostWith(s, own)
            R == own \cup {attestations[i].request : i \in lost}
            G == {i \in Ids : grants[i].holder = s /\ grants[i].revoked = "no"}
<1>1. AuthorityNext
  BY DEF InvalidateSubjectState, AuthorityNext, OtherNext
<1>2. TermsFixed
  BY <1>1, GrantsStay DEF AssuranceInv, EvidenceInv
<1>3. R \subseteq DOMAIN requests
  BY AttestationType DEF AssuranceInv, LostWith
<1>4. CredentialsStep(R) /\ attestations' = Invalidated(lost)
  BY CredentialsSteps DEF InvalidateSubjectState
<1>5. \A i \in DOMAIN attestations : attestations[i].verifier = s => i \in lost
  <2>1. DOMAIN attestations = 1..Len(attestations) /\ Len(attestations) \in Nat
    BY LenProperties DEF AssuranceInv, AssuranceTypeOK
  <2>. QED
    BY <2>1 DEF LostWith
<1>6. \A i \in DOMAIN attestations : attestations[i].request \notin R => i \notin lost
  OBVIOUS
<1>7. /\ BelowCap(grants[a]) /\ UNCHANGED <<agr, now>> /\ G \in SUBSET Ids
      /\ grants' = [i \in Ids |-> IF i \in G
                       THEN [Consumed(a)[i] EXCEPT !.revoked = "privacy"]
                       ELSE Consumed(a)[i]]
  BY DEF InvalidateSubjectState, InvalidateHolder, ValidateAuthority, ValidateScoped
<1>8. \A g \in Ids : /\ grants[g].holder = s => grants'[g].revoked # "no"
                     /\ grants[g].holder # s => grants'[g].revoked = grants[g].revoked
  <2>. HIDE DEF G
  <2>1. \A g \in Ids : /\ g \in G => grants'[g].revoked = "privacy"
                       /\ g \notin G => grants'[g].revoked = grants[g].revoked
    BY <1>7, MarkStep DEF AssuranceInv
  <2>. QED
    BY <2>1 DEF G
<1>. HIDE DEF lost, own
<1>9. /\ AttestationsStay
      /\ \A i \in DOMAIN attestations :
            attestations'[i].state = IF i \in lost THEN "invalidated"
                                     ELSE attestations[i].state
  BY <1>4, InvalidatedStay DEF AssuranceInv
<1>10. DisputesOK'
  BY <1>9, DisputesStay DEF InvalidateSubjectState
<1>11. \A i \in DOMAIN attestations :
          /\ attestations[i].grant \in Ids
          /\ grants[attestations[i].grant].holder = attestations[i].verifier
          /\ SameAttestation(attestations[i], attestations'[i])
          /\ SameTerms(grants[attestations[i].grant], grants'[attestations[i].grant])
  BY <1>2, <1>9, AttestationType, InvParts
  DEF VerifiersOK, VerifierInv, AttestationsStay, AssuranceInv, TermsFixed
<1>12. VerifiersOK'
  <2>1. keyOf \in [Subjects -> Keys \cup {None}] /\ VerifierInv
    BY InvParts DEF VerifiersOK
  <2>2. /\ keyOf' \in [Subjects -> Keys \cup {None}]
        /\ \A v \in Subjects : keyOf'[v] = keyOf[v] \/ v = s
    BY <2>1 DEF InvalidateSubjectState
  <2>3. ASSUME NEW i \in DOMAIN attestations
        PROVE  /\ grants'[attestations'[i].grant].holder = attestations'[i].verifier
               /\ ~CanSign(attestations[i].verifier) \/ attestations[i].verifier = s =>
                     /\ attestations'[i].state = "invalidated"
                     /\ grants'[attestations'[i].grant].revoked # "no"
               /\ attestations[i].verifier \in Subjects
    <3>1. attestations[i].verifier \in Subjects
      BY AttestationType DEF Attestation, AssuranceInv
    <3>2. CASE attestations[i].verifier = s
      BY <1>5, <1>8, <1>9, <1>11, <3>1, <3>2 DEF SameAttestation, SameTerms
    <3>3. CASE attestations[i].verifier # s
      <4>1. ~CanSign(attestations[i].verifier) =>
               /\ attestations[i].state = "invalidated"
               /\ grants[attestations[i].grant].revoked # "no"
        BY <2>1 DEF VerifierInv
      <4>. QED
        BY <1>2, <1>9, <1>11, <3>1, <3>3, <4>1 DEF SameAttestation, SameTerms, TermsFixed
    <3>. QED
      BY <3>2, <3>3
  <2>4. VerifierInv'
    BY <1>9, <1>11, <2>2, <2>3 DEF VerifierInv, CanSign, AttestationsStay, SameAttestation
  <2>. QED
    BY <2>2, <2>4 DEF VerifiersOK
<1>13. \A i \in DOMAIN attestations : attestations[i].request \notin R =>
          (Counts(i)' <=> Counts(i)) /\ (i \in PassedAudits' <=> i \in PassedAudits)
  <2>. SUFFICES ASSUME NEW i \in DOMAIN attestations, attestations[i].request \notin R
                PROVE  (Counts(i)' <=> Counts(i)) /\ (i \in PassedAudits' <=> i \in PassedAudits)
    OBVIOUS
  <2>1. i \notin lost /\ attestations[i].verifier # s
    BY <1>5, <1>6
  <2>2. grants'[attestations[i].grant].revoked = grants[attestations[i].grant].revoked
    BY <1>8, <1>11, <2>1
  <2>3. Ids' = Ids /\ now' = now
    BY <1>7 DEF Ids
  <2>4. Counts(i)' <=> Counts(i)
    BY <1>2, <1>9, <2>1, <2>2, <2>3, CountsUnlessLost
  <2>. QED
    BY <2>4 DEF PassedAudits, InvalidateSubjectState
<1>. HIDE DEF R
<1>. QED
  BY <1>1, <1>3, <1>4, <1>7, <1>9, <1>10, <1>12, <1>13, EvidenceStepKeepsInv
  DEF InvalidateSubjectState

(* The condition of NoSelfCorroboration on one attestation. *)
Corroborates(t) ==
    IF t.basis = "bootstrap_vouched"
    THEN t.verifier = requests[t.request].subject /\ grants[t.grant].issuer = None
    ELSE requests[t.request].subject \notin {t.verifier, t.path} /\ t.verifier # t.path

(* A new attestation, paid for with a use of its verifier's grant. *)
LEMMA AddKeepsInv ==
    ASSUME AssuranceInv, [AuthorityNext]_authorityVars,
           NEW g \in Ids, NEW c, NEW ct, NEW m, SignedUse(g, c, ct, m),
           NEW t \in Attestation, t.grant = g, t.verifier = grants[g].holder,
           t.request \in DOMAIN requests, Corroborates(t), AddAttestation(t)
    PROVE  AssuranceInv' /\ NoneSoftened
<1>. DEFINE n == Len(attestations) + 1
            R == {t.request}
<1>1. AuthorityInv' /\ TermsFixed /\ RootBasis'
  BY GrantsStay DEF AssuranceInv, EvidenceInv
<1>2. SameForce /\ Ids' = Ids /\ grants' = Consumed(g)
      /\ \A h \in Ids : SameTerms(grants[h], grants'[h])
  BY SignedUseStep DEF AssuranceInv
<1>3. UNCHANGED <<claims, requests, invitations, introductions, audits, challenges, keyOf>>
  BY DEF AddAttestation
<1>4. /\ attestations' \in Seq(Attestation) /\ n \in Nat
      /\ DOMAIN attestations' = DOMAIN attestations \cup {n} /\ n \notin DOMAIN attestations
      /\ attestations'[n] = t
      /\ \A i \in DOMAIN attestations : attestations'[i] = attestations[i]
  <2>1. attestations \in Seq(Attestation)
    BY DEF AssuranceInv, AssuranceTypeOK
  <2>. QED
    BY <2>1, AppendRow DEF AddAttestation
<1>. HIDE DEF n
<1>5. \A i \in DOMAIN attestations :
         /\ attestations[i].request \in DOMAIN requests /\ attestations[i].grant \in Ids
         /\ SameAttestation(attestations[i], attestations'[i])
  BY <1>4, AttestationType DEF SameAttestation, AssuranceInv
<1>6. ReferralsOK' /\ RequestsStay
  BY <1>3, ReferralsStay
<1>7. LocalStep(R)
  <2>1. \A i \in DOMAIN attestations : Counts(i)' <=> Counts(i)
    BY <1>2, <1>4, <1>5 DEF Counts, SameForce
  <2>2. PassedAudits' = PassedAudits
    BY <1>3 DEF PassedAudits
  <2>3. CredentialsStep(R)
    BY CredentialsSteps DEF AddAttestation
  <2>4. \A i \in DOMAIN attestations' :
           /\ attestations'[i].request \in DOMAIN requests'
           /\ i \notin DOMAIN attestations => attestations'[i].request \in R
    BY <1>3, <1>4, <1>5
  <2>5. now' = now
    BY <1>2 DEF SameForce
  <2>. QED
    BY <1>4, <1>5, <1>6, <2>1, <2>2, <2>3, <2>4, <2>5 DEF LocalStep
<1>8. CredentialsOK' /\ NoneSoftened
  BY <1>1, <1>7, LocalStepKeepsCredentials DEF CredentialsOK
<1>9. DisputesOK'
  <2>1. DisputesOK
    BY InvParts
  <2>2. \A i : i = n => ~Objected(i)'
    BY <1>3, <1>4, <2>1 DEF Objected, DisputesOK
  <2>3. OnlyAppealRestores'
    BY <1>3, <1>4, <2>1, <2>2 DEF DisputesOK, OnlyAppealRestores, Objected, AppealReversed
  <2>. QED
    BY <1>3, <1>4, <2>1, <2>3 DEF DisputesOK, ChallengesInv
<1>10. VerifiersOK'
  <2>1. VerifiersOK
    BY InvParts
  <2>2. CanSign(t.verifier)
    BY DEF SignedUse
  <2>3. \A h \in Ids : /\ grants'[h].holder = grants[h].holder
                       /\ grants[h].revoked # "no" => grants'[h].revoked # "no"
    BY <1>1 DEF TermsFixed, SameTerms
  <2>4. VerifierInv'
    BY <1>3, <1>4, <1>5, <2>1, <2>2, <2>3 DEF VerifiersOK, VerifierInv, CanSign
  <2>. QED
    BY <1>3, <2>1, <2>4 DEF VerifiersOK
<1>11. NoSelfCorroboration'
  <2>1. \A h \in Ids : grants'[h].issuer = grants[h].issuer
    BY <1>2 DEF SameTerms
  <2>2. NoSelfCorroboration
    BY DEF AssuranceInv, EvidenceInv
  <2>3. ASSUME NEW i \in DOMAIN attestations'
        PROVE  LET u == attestations'[i]
                   s == requests'[u.request].subject
               IN  IF u.basis = "bootstrap_vouched"
                   THEN u.verifier = s /\ grants'[u.grant].issuer = None
                   ELSE s \notin {u.verifier, u.path} /\ u.verifier # u.path
    <3>1. CASE i = n
      BY <1>3, <1>4, <2>1, <3>1 DEF Corroborates
    <3>2. CASE i \in DOMAIN attestations
      BY <1>3, <1>4, <1>5, <2>1, <2>2, <3>2 DEF NoSelfCorroboration
    <3>. QED
      BY <1>4, <3>1, <3>2
  <2>. QED
    BY <2>3 DEF NoSelfCorroboration
<1>12. AttestationsMetered'
  <2>. DEFINE A(h) == {i \in DOMAIN attestations : attestations[i].grant = h}
             B(h) == {i \in DOMAIN attestations' : attestations'[i].grant = h}
  <2>. SUFFICES ASSUME NEW h \in Ids', grants'[h].usageCap # None
                PROVE  Cardinality(B(h)) <= grants'[h].used
    BY DEF AttestationsMetered
  <2>1. /\ h \in Ids /\ grants[h].usageCap # None
        /\ grants[h].used \in Nat /\ grants'[h].used \in Nat
        /\ grants'[h].used >= grants[h].used
        /\ h = g => grants'[h].used = grants[h].used + 1
    <3>1. h \in Ids /\ grants[h] \in Grant /\ grants'[h] \in Grant
      BY <1>1, <1>2 DEF AssuranceInv, AuthorityInv, AuthorityTypeOK
    <3>2. grants[h].usageCap # None /\ grants'[h].used >= grants[h].used
      BY <1>1, <3>1 DEF TermsFixed, SameTerms
    <3>3. h = g => grants'[h] = Metered(grants[h])
      BY <1>2, <3>1 DEF Consumed, AssuranceInv, AuthorityInv, AuthorityTypeOK
    <3>. QED
      BY <3>1, <3>2, <3>3 DEF Grant, Metered
  <2>2. Cardinality(A(h)) <= grants[h].used
    BY <2>1 DEF AssuranceInv, EvidenceInv, AttestationsMetered
  <2>3. IsFiniteSet(A(h)) /\ Cardinality(A(h)) \in Nat
    <3>1. A(h) \in SUBSET DOMAIN attestations
      OBVIOUS
    <3>. QED
      BY <3>1, FinitelyManyRows DEF AssuranceInv, AssuranceTypeOK
  <2>4. CASE h = g
    <3>1. B(h) = A(h) \cup {n} /\ n \notin A(h)
      BY <1>4, <2>4
    <3>. HIDE DEF A, B
    <3>2. Cardinality(B(h)) = Cardinality(A(h)) + 1
      BY <2>3, <3>1, FS_AddElement
    <3>. QED
      BY <2>1, <2>2, <2>3, <2>4, <3>2
  <2>5. CASE h # g
    <3>1. B(h) = A(h)
      BY <1>4, <2>5
    <3>. HIDE DEF A, B
    <3>. QED
      BY <2>1, <2>2, <2>3, <3>1
  <2>. QED
    BY <2>4, <2>5
<1>13. AssuranceTypeOK'
  <2>1. \A i \in DOMAIN attestations' : /\ attestations'[i].request \in DOMAIN requests'
                                        /\ attestations'[i].grant \in Ids'
    BY <1>2, <1>3, <1>4, <1>5
  <2>. QED
    BY <1>1, <1>4, <1>6, <1>8, <1>9, <1>10, <2>1
    DEF AssuranceTypeOK, AuthorityInv, ReferralsOK, DisputesOK, VerifiersOK,
        CredentialsOK, CredentialsTypeOK
<1>. QED
  BY <1>1, <1>6, <1>8, <1>9, <1>10, <1>11, <1>12, <1>13
  DEF AssuranceInv, EvidenceInv, ReferralsOK, DisputesOK, VerifiersOK, CredentialsOK

(* issue_attestation *)
LEMMA IssueKeepsInv ==
    ASSUME AssuranceInv, NEW inv \in invitations, NEW g \in Ids, NEW x \in introductions,
           NEW m \in MethodClasses, NEW e \in Expiries, IssueAttestation(inv, g, x, m, e)
    PROVE  AssuranceInv' /\ NoneSoftened
<1>. DEFINE t == [request |-> inv.request, grant |-> g, verifier |-> grants[g].holder,
                  path |-> x.introducer, method |-> m, expires |-> e,
                  basis |-> "peer_attested", state |-> "active"]
            d == requests[inv.request].definition
<1>1. [AuthorityNext]_authorityVars
  BY StepsAreAuthority DEF AssuranceSteps, AssuranceInv, EvidenceInv
<1>2. /\ SignedUse(g, "attest_claim", d.claimType, m) /\ AddAttestation(t)
      /\ inv.verifier = grants[g].holder
      /\ x.request = inv.request /\ x.verifier = grants[g].holder
  BY DEF IssueAttestation
<1>3. /\ inv.request \in DOMAIN requests /\ x.introducer \in Subjects
      /\ requests[inv.request].subject \notin {grants[g].holder, x.introducer}
      /\ grants[g].holder # x.introducer
  BY <1>2, InvParts DEF ReferralsOK, ReferredInv, Introduction
<1>4. t \in Attestation
  <2>1. grants[g].holder \in Subjects /\ g \in Nat
    BY DEF AssuranceInv, AuthorityInv, AuthorityTypeOK, Grant, Ids
  <2>2. inv.request \in Nat /\ e \in Nat
    BY <1>3, RequestType, TablesAssumption DEF AssuranceInv
  <2>. QED
    BY <1>3, <2>1, <2>2 DEF Attestation, Path, VerificationBasis
<1>5. /\ t.grant = g /\ t.verifier = grants[g].holder /\ t.request \in DOMAIN requests
      /\ Corroborates(t)
  BY <1>3 DEF Corroborates
<1>. HIDE DEF t, d
<1>. QED
  BY <1>1, <1>2, <1>4, <1>5, AddKeepsInv

(* issue_bootstrap_attestation *)
LEMMA VouchKeepsInv ==
    ASSUME AssuranceInv, NEW r \in DOMAIN requests, NEW g \in Ids, NEW e \in Expiries,
           IssueBootstrapAttestation(r, g, e)
    PROVE  AssuranceInv' /\ NoneSoftened
<1>. DEFINE d == requests[r].definition
            t == [request |-> r, grant |-> g, verifier |-> grants[g].holder,
                  path |-> "bootstrap_designation", method |-> d.methodClass,
                  expires |-> e, basis |-> "bootstrap_vouched", state |-> "active"]
<1>1. [AuthorityNext]_authorityVars
  BY StepsAreAuthority DEF AssuranceSteps, AssuranceInv, EvidenceInv
<1>2. /\ SignedUse(g, "attest_claim", d.claimType, d.methodClass) /\ AddAttestation(t)
      /\ grants[g].basis = "bootstrap_designation"
      /\ requests[r].subject = grants[g].holder
  BY DEF IssueBootstrapAttestation
<1>3. t \in Attestation
  <2>1. grants[g].holder \in Subjects /\ g \in Nat
    BY DEF AssuranceInv, AuthorityInv, AuthorityTypeOK, Grant, Ids
  <2>2. r \in Nat /\ e \in Nat /\ d.methodClass \in MethodClasses
    BY RequestType, TablesAssumption DEF AssuranceInv
  <2>. QED
    BY <2>1, <2>2 DEF Attestation, Path, VerificationBasis
<1>4. grants[g].issuer = None
  BY <1>2 DEF AssuranceInv, EvidenceInv, RootBasis
<1>5. /\ t.grant = g /\ t.verifier = grants[g].holder /\ t.request \in DOMAIN requests
      /\ Corroborates(t)
  BY <1>2, <1>4 DEF Corroborates
<1>. HIDE DEF t, d
<1>. QED
  BY <1>1, <1>2, <1>3, <1>5, AddKeepsInv

-----------------------------------------------------------------------------
(* The invariant. *)

(* Empty tables. *)
LEMMA NothingYetIsSound ==
    ASSUME NoAssuranceYet, keyOf \in [Subjects -> Keys \cup {None}]
    PROVE  AssuranceInv
<1>1. AuthorityInv
  BY InitEstablishesInv DEF NoAssuranceYet
<1>2. Ids = {}
  BY DEF NoAssuranceYet, AuthorityInit, Ids
<1>3. /\ DOMAIN requests = {} /\ DOMAIN attestations = {} /\ DOMAIN audits = {}
      /\ DOMAIN challenges = {} /\ DOMAIN credentials = {}
      /\ claims = {} /\ invitations = {} /\ introductions = {}
      /\ requests \in Seq(Request) /\ Len(requests) = 0
      /\ attestations \in Seq(Attestation) /\ challenges \in Seq(Challenge)
  BY EmptySeq DEF NoAssuranceYet
<1>4. AssuranceTypeOK
  BY <1>1, <1>3, TablesAssumption DEF AssuranceTypeOK, AuthorityInv
<1>5. EvidenceInv
  BY <1>2, <1>3 DEF EvidenceInv, RootBasis, ReferredInv, NoSelfCorroboration, VerifierInv,
     AttestationsMetered, ChallengesInv, OnlyAppealRestores, DepsInv,
     CredentialsFollowEvidence
<1>. QED
  BY <1>1, <1>4, <1>5 DEF AssuranceInv

(* The handlers that Identity shares. *)
LEMMA StepsKeepAssurance ==
    ASSUME AssuranceInv, AssuranceSteps
    PROVE  AssuranceInv' /\ NoneSoftened
<1>1. ASSUME NEW a \in Ids, NEW s \in Subjects, NEW src \in SUBSET Ids, NEW p \in Promotions,
             PromoteAuditedConduct(a, s, src, p)
      PROVE  AssuranceInv' /\ NoneSoftened
  BY <1>1, GrantsKeepInv DEF PromoteAuditedConduct
<1>2. ASSUME NEW a \in Ids, NEW o \in Offers, SignedGrant(a, o)
      PROVE  AssuranceInv' /\ NoneSoftened
  BY <1>2, GrantsKeepInv DEF SignedGrant
<1>3. ASSUME \/ \E a \in Ids, d \in Definitions : RegisterClaim(a, d)
             \/ \E r \in DOMAIN requests, v \in Subjects, e \in Expiries :
                   InviteAttestor(r, v, e)
             \/ \E a \in Ids, r \in DOMAIN requests, x, v \in Subjects, e \in Expiries :
                   IntroduceAttestor(a, r, x, v, e)
             \/ \E inv \in invitations, g \in Ids, x \in introductions,
                   m \in MethodClasses, e \in Expiries : IssueAttestation(inv, g, x, m, e)
             \/ \E r \in DOMAIN requests, g \in Ids, e \in Expiries :
                   IssueBootstrapAttestation(r, g, e)
      PROVE  AssuranceInv' /\ NoneSoftened
  BY <1>3, RegisterKeepsInv, InviteKeepsInv, IntroduceKeepsInv, IssueKeepsInv, VouchKeepsInv
<1>4. ASSUME \/ \E a \in Ids, i \in DOMAIN attestations : SelectAudit(a, i)
             \/ \E a \in Ids, i \in DOMAIN audits, p \in BOOLEAN : DecideAudit(a, i, p)
             \/ \E s \in Subjects, i \in DOMAIN attestations : OpenChallenge(s, i)
             \/ \E c \in DOMAIN challenges : RespondToChallenge(c)
             \/ \E c \in DOMAIN challenges : AppealChallenge(c)
             \/ \E a \in Ids, c \in DOMAIN challenges, d \in {"sustained", "dismissed"} :
                   DecideChallenge(a, c, d)
             \/ \E a \in Ids, c \in DOMAIN challenges, d \in {"affirmed", "reversed"} :
                   DecideAppeal(a, c, d)
      PROVE  AssuranceInv' /\ NoneSoftened
  BY <1>4, SelectKeepsInv, DecideAuditKeepsInv, OpenKeepsInv, AnswersKeepInv,
     DecideChallengeKeepsInv, DecideAppealKeepsInv
<1>. QED
  BY <1>1, <1>2, <1>3, <1>4, RevokeKeepsAssurance, StatusKeepsInv, TickKeepsInv
  DEF AssuranceSteps

(* Every step. *)
LEMMA NextKeepsAssurance ==
    AssuranceInv /\ [AssuranceNext]_allVars => AssuranceInv' /\ NoneSoftened
<1>. SUFFICES ASSUME AssuranceInv, [AssuranceNext]_allVars
              PROVE  AssuranceInv' /\ NoneSoftened
  OBVIOUS
<1>1. ASSUME NEW s \in Subjects, NEW e \in 1..MaxTime + 1, BootstrapAuthority(s, e),
             UNCHANGED assuranceVars
      PROVE  AssuranceInv' /\ NoneSoftened
  BY <1>1, GrantsKeepInv
<1>2. ASSUME NEW a \in Ids, NEW pc \in PrivacyCases, InvalidateSubjectState(a, pc[1], pc[2])
      PROVE  AssuranceInv' /\ NoneSoftened
  <2>1. pc[1] \in Subjects
    BY TablesAssumption
  <2>. QED
    BY <1>2, <2>1, InvalidateKeepsAssurance
<1>3. CASE UNCHANGED allVars
  <2>1. UNCHANGED authorityVars /\ UNCHANGED assuranceVars
    BY <1>3 DEF allVars
  <2>2. SameForce
    BY <2>1 DEF SameForce, GrantIsActive, authorityVars, Ids
  <2>3. ReferralsOK' /\ RequestsStay
    BY <2>1, ReferralsStay DEF assuranceVars
  <2>. QED
    BY <2>1, <2>2, <2>3, QuietStepKeepsInv DEF assuranceVars
<1>. QED
  BY <1>1, <1>2, <1>3, StepsKeepAssurance, RequestKeepsInv DEF AssuranceNext

(* Claims, disputes and credentials keep AssuranceInv in every reachable   *)
(* state of the assurance handlers.                                        *)
THEOREM AssuranceInvariant == AssuranceSpec => []AssuranceInv
<1>1. AssuranceInit => AssuranceInv
  BY NothingYetIsSound, TablesAssumption DEF AssuranceInit
<1>. QED
  BY <1>1, NextKeepsAssurance, PTL DEF AssuranceSpec

(* The assurance tables always hold well-formed rows that refer to rows    *)
(* that exist.                                                             *)
THEOREM AssuranceTypeCorrect == AssuranceSpec => []AssuranceTypeOK
<1>1. AssuranceInv => AssuranceTypeOK
  BY DEF AssuranceInv
<1>. QED
  BY <1>1, AssuranceInvariant, PTL

(* The assurance handlers implement the authority table: each of them,     *)
(* signed, cascading or recalculating, performs one authority action or    *)
(* none, so all that holds of AuthoritySpec holds here.                    *)
THEOREM AssuranceImplementsAuthority == AssuranceSpec => AuthoritySpec
<1>1. AssuranceInit => AuthorityInit
  BY DEF AssuranceInit, NoAssuranceYet
<1>2. AssuranceInv /\ [AssuranceNext]_allVars => [AuthorityNext]_authorityVars
  BY NextIsAuthority DEF AssuranceInv, EvidenceInv
<1>. QED
  BY <1>1, <1>2, AssuranceInvariant, PTL DEF AssuranceSpec, AuthoritySpec

(* No order of invitations, introductions, grants and disputes lets a      *)
(* subject corroborate its own claim.                                      *)
THEOREM ClaimsNeedOthers == AssuranceSpec => []NoSelfCorroboration
<1>1. AssuranceInv => NoSelfCorroboration
  BY DEF AssuranceInv, EvidenceInv
<1>. QED
  BY <1>1, AssuranceInvariant, PTL

(* Attestations under a capped grant never outnumber the uses paid for.    *)
THEOREM AttestationsArePaidFor == AssuranceSpec => []AttestationsMetered
<1>1. AssuranceInv => AttestationsMetered
  BY DEF AssuranceInv, EvidenceInv
<1>. QED
  BY <1>1, AssuranceInvariant, PTL

(* A failed audit or a sustained challenge stands until an appeal reverses *)
(* a challenge to the attestation.                                         *)
THEOREM ObjectionsStand == AssuranceSpec => []OnlyAppealRestores
<1>1. AssuranceInv => OnlyAppealRestores
  BY DEF AssuranceInv, EvidenceInv
<1>. QED
  BY <1>1, AssuranceInvariant, PTL

(* Nothing that a deleted verifier attested counts again.                  *)
THEOREM DeletionIsFinalForVerifiers == AssuranceSpec => []DeletedCannotCorroborate
<1>1. AssuranceInv => DeletedCannotCorroborate
  BY DEF AssuranceInv, EvidenceInv, VerifierInv, DeletedCannotCorroborate
<1>. QED
  BY <1>1, AssuranceInvariant, PTL

(* Every stored credential is what _recalculate returns, but for what the  *)
(* clock alone has lapsed.                                                 *)
THEOREM CredentialsAreCurrent == AssuranceSpec => []CredentialsFollowEvidence
<1>1. AssuranceInv => CredentialsFollowEvidence
  BY DEF AssuranceInv, EvidenceInv
<1>. QED
  BY <1>1, AssuranceInvariant, PTL

(* No step drops a credential, moves its expiry or takes it back to        *)
(* provisional.                                                            *)
THEOREM CredentialsHarden == AssuranceSpec => CredentialNeverSoftens
<1>1. AssuranceInv /\ [AssuranceNext]_allVars => [NoneSoftened]_allVars
  BY NextKeepsAssurance
<1>. QED
  BY <1>1, AssuranceInvariant, PTL DEF AssuranceSpec, CredentialNeverSoftens, NoneSoftened
=============================================================================
