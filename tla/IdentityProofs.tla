--------------------------- MODULE IdentityProofs ---------------------------
(***************************************************************************)
(* Proofs about Identity, for any subjects, keys, releases and bounds.     *)
(*                                                                         *)
(* The properties count rows: one active release, one live consent, one    *)
(* open commitment, one approved case per commitment.  The proofs work     *)
(* with the rows themselves (at most one, exactly one) and go back to      *)
(* Cardinality at the end.                                                 *)
(***************************************************************************)
EXTENDS Identity, AssuranceProofs

(* From the first release on, exactly one is active. *)
OneRelease == releases # <<>> => \E i \in DOMAIN releases : ActiveReleases = {i}

(* A commitment is consumed by the one case that was approved under it. *)
SingleUse ==
    /\ \A i \in DOMAIN cases : cases[i].state = "approved" =>
          /\ commitments[cases[i].commitment].consumed
          /\ cases[i].subject = commitments[cases[i].commitment].subject
    /\ \A i, j \in DOMAIN cases :
          /\ cases[i].state = "approved" /\ cases[j].state = "approved"
          /\ cases[i].commitment = cases[j].commitment
          => i = j
    /\ \A c \in DOMAIN commitments : commitments[c].consumed =>
          \E i \in DOMAIN cases : cases[i].commitment = c /\ cases[i].state = "approved"

(* Pending cases rest on open commitments, one of each per subject. *)
Backed ==
    /\ \A c, d \in DOMAIN commitments :
          /\ ~commitments[c].consumed /\ ~commitments[d].consumed
          /\ commitments[c].subject = commitments[d].subject
          => c = d
    /\ \A i, j \in DOMAIN cases :
          /\ cases[i].state = "pending" /\ cases[j].state = "pending"
          /\ cases[i].subject = cases[j].subject
          => i = j
    /\ \A i \in DOMAIN cases : cases[i].state = "pending" =>
          /\ ~commitments[cases[i].commitment].consumed
          /\ cases[i].subject = commitments[cases[i].commitment].subject

(* At most one live consent, and for a subject without a key only one      *)
(* whose request a deletion overtook.                                      *)
ConsentBound ==
    /\ \A i, j \in DOMAIN consents :
          /\ ~consents[i].withdrawn /\ ~consents[j].withdrawn
          /\ consents[i].subject = consents[j].subject
          => i = j
    /\ \A i \in DOMAIN consents : ~consents[i].withdrawn /\ ~consents[i].overtaken =>
          CanSign(consents[i].subject)

(* The types of the tables that Identity adds. *)
RecoveryTypeOK ==
    /\ commitments \in Seq(RecoveryCommitment) /\ cases \in Seq(RecoveryCase)
    /\ \A i \in DOMAIN cases : cases[i].commitment \in DOMAIN commitments

RecoveryInv == RecoveryTypeOK /\ SingleUse /\ Backed
ReleaseInv == releases \in Seq(OperatorRelease) /\ OneRelease
ConsentInv == consents \in Seq(ConsentRecord) /\ ConsentBound
KeysInv == enrolled \subseteq Subjects /\ SharedKeyIsRecovered

IdentityInv ==
    /\ AssuranceInv
    /\ KeysInv /\ ReleaseInv /\ ConsentInv /\ RecoveryInv
    /\ privacy \in Seq(PrivacyRequest)

-----------------------------------------------------------------------------
(* Counting. *)

(* Small cardinalities in terms of members. *)
LEMMA SmallSets ==
    ASSUME NEW S, IsFiniteSet(S)
    PROVE  /\ Cardinality(S) = 0 <=> S = {}
           /\ Cardinality(S) = 1 <=> \E x : S = {x}
           /\ (\A x, y \in S : x = y) => Cardinality(S) <= 1
<1>1. Cardinality(S) \in Nat
  BY FS_CardinalityType
<1>2. Cardinality(S) = 0 <=> S = {}
  BY FS_EmptySet
<1>3. Cardinality(S) = 1 <=> \E x : S = {x}
  BY FS_Singleton
<1>4. ASSUME \A x, y \in S : x = y
      PROVE  Cardinality(S) <= 1
  <2>1. S = {} \/ \E x : S = {x}
    BY <1>4
  <2>. QED
    BY <1>2, <1>3, <2>1
<1>. QED
  BY <1>2, <1>3, <1>4

(* current_operator_release finds a release exactly when one is active. *)
LEMMA ReleaseActiveIff ==
    ASSUME ReleaseInv
    PROVE  /\ ReleaseActive <=> releases # <<>>
           /\ ReleaseActive => CurrentRelease \in OperatorRelease
<1>1. IsFiniteSet(ActiveReleases)
  <2>1. ActiveReleases \in SUBSET DOMAIN releases
    BY DEF ActiveReleases
  <2>. QED
    BY <2>1, FinitelyManyRows DEF ReleaseInv
<1>2. ReleaseActive <=> \E x : ActiveReleases = {x}
  BY <1>1, SmallSets DEF ReleaseActive
<1>3. releases = <<>> => ActiveReleases = {}
  BY DEF ActiveReleases
<1>4. ReleaseActive <=> releases # <<>>
  BY <1>2, <1>3 DEF ReleaseInv, OneRelease
<1>5. ASSUME ReleaseActive PROVE CurrentRelease \in OperatorRelease
  <2>1. \E x : x \in ActiveReleases
    BY <1>2, <1>5
  <2>2. (CHOOSE i \in ActiveReleases : TRUE) \in DOMAIN releases
    BY <2>1 DEF ActiveReleases
  <2>. QED
    BY <2>2, ElementOfSeq, LenProperties DEF CurrentRelease, ReleaseInv
<1>. QED
  BY <1>4, <1>5

(* The invariant in the words of Identity. *)
LEMMA InvCounts ==
    ASSUME IdentityInv
    PROVE  /\ IdentityTypeOK /\ ReleaseNeverLost /\ CommitmentsSingleUse
           /\ PendingRecoveryIsBacked /\ ConsentEndsWithBinding
<1>. USE DEF IdentityInv
<1>1. IdentityTypeOK
  BY DEF IdentityTypeOK, AssuranceInv, KeysInv, ReleaseInv, ConsentInv, RecoveryInv,
         RecoveryTypeOK
<1>2. ReleaseNeverLost
  BY ReleaseActiveIff DEF ReleaseNeverLost
<1>3. CommitmentsSingleUse
  <2>. DEFINE approved(c) == {i \in DOMAIN cases :
                                cases[i].commitment = c /\ cases[i].state = "approved"}
  <2>. SUFFICES ASSUME NEW c \in DOMAIN commitments
                PROVE  /\ Cardinality(approved(c)) = (IF commitments[c].consumed THEN 1 ELSE 0)
                       /\ \A i \in approved(c) : cases[i].subject = commitments[c].subject
    BY DEF CommitmentsSingleUse
  <2>1. IsFiniteSet(approved(c))
    <3>1. approved(c) \in SUBSET DOMAIN cases
      OBVIOUS
    <3>. QED
      BY <3>1, FinitelyManyRows DEF RecoveryInv, RecoveryTypeOK
  <2>2. ASSUME commitments[c].consumed PROVE \E x : approved(c) = {x}
    <3>1. PICK i \in DOMAIN cases : cases[i].commitment = c /\ cases[i].state = "approved"
      BY <2>2 DEF RecoveryInv, SingleUse
    <3>2. approved(c) = {i}
      BY <3>1 DEF RecoveryInv, SingleUse
    <3>. QED
      BY <3>2
  <2>3. ~commitments[c].consumed => approved(c) = {}
    BY DEF RecoveryInv, SingleUse
  <2>4. \A i \in approved(c) : cases[i].subject = commitments[c].subject
    BY DEF RecoveryInv, SingleUse
  <2>. HIDE DEF approved
  <2>5. Cardinality(approved(c)) = (IF commitments[c].consumed THEN 1 ELSE 0)
    BY <2>1, <2>2, <2>3, SmallSets
  <2>. QED
    BY <2>4, <2>5
<1>4. ASSUME NEW s \in Subjects
      PROVE  /\ Cardinality(OpenCommitments(s)) <= 1
             /\ Cardinality(PendingCases(s)) <= 1
             /\ \A i \in PendingCases(s) : cases[i].commitment \in OpenCommitments(s)
             /\ Cardinality(LiveConsents(s)) <= 1
             /\ keyOf[s] = None => \A i \in LiveConsents(s) : consents[i].overtaken
  <2>1. /\ OpenCommitments(s) \in SUBSET DOMAIN commitments
        /\ PendingCases(s) \in SUBSET DOMAIN cases
        /\ LiveConsents(s) \in SUBSET DOMAIN consents
    BY DEF OpenCommitments, PendingCases, LiveConsents
  <2>2. /\ IsFiniteSet(OpenCommitments(s)) /\ IsFiniteSet(PendingCases(s))
        /\ IsFiniteSet(LiveConsents(s))
    BY <2>1, FinitelyManyRows DEF RecoveryInv, RecoveryTypeOK, ConsentInv
  <2>3. /\ \A x, y \in OpenCommitments(s) : x = y
        /\ \A x, y \in PendingCases(s) : x = y
        /\ \A x, y \in LiveConsents(s) : x = y
    BY DEF OpenCommitments, PendingCases, LiveConsents, RecoveryInv, Backed, ConsentInv,
           ConsentBound
  <2>4. \A i \in PendingCases(s) : cases[i].commitment \in OpenCommitments(s)
    BY DEF OpenCommitments, PendingCases, RecoveryInv, RecoveryTypeOK, Backed
  <2>5. keyOf[s] = None => \A i \in LiveConsents(s) : consents[i].overtaken
    BY DEF LiveConsents, ConsentInv, ConsentBound, CanSign
  <2>. QED
    BY <2>2, <2>3, <2>4, <2>5, SmallSets
<1>. QED
  BY <1>1, <1>2, <1>3, <1>4 DEF PendingRecoveryIsBacked, ConsentEndsWithBinding

-----------------------------------------------------------------------------
(* Enrolment and release. *)

(* No key binding is removed. *)
KeysStay ==
    /\ keyOf' \in [Subjects -> Keys \cup {None}]
    /\ \A s \in Subjects : keyOf'[s] = None => keyOf[s] = None

(* New and replaced keys leave the assurance state sound. *)
LEMMA RekeyKeepsAssurance ==
    ASSUME AssuranceInv, [AuthorityNext]_authorityVars, SameForce, UNCHANGED assuranceTables,
           KeysStay
    PROVE  AssuranceInv'
<1>1. TermsFixed
  BY GrantsStay DEF AssuranceInv, EvidenceInv
<1>2. ReferralsOK' /\ RequestsStay /\ AttestationsStay
  BY ReferralsStay, UnchangedStay DEF assuranceTables, AssuranceInv
<1>3. DisputesOK'
  BY <1>2, DisputesStay DEF assuranceTables
<1>4. VerifiersOK'
  <2>1. VerifiersOK
    BY InvParts
  <2>2. \A i \in DOMAIN attestations :
           /\ attestations[i].grant \in Ids /\ attestations[i].verifier \in Subjects
           /\ SameTerms(grants[attestations[i].grant], grants'[attestations[i].grant])
           /\ grants[attestations[i].grant].revoked # "no" =>
                 grants'[attestations[i].grant].revoked # "no"
    BY <1>1, AttestationType DEF TermsFixed, AssuranceInv, Attestation
  <2>3. attestations' = attestations
    BY DEF assuranceTables
  <2>. QED
    BY <2>1, <2>2, <2>3 DEF VerifiersOK, VerifierInv, CanSign, SameTerms, KeysStay
<1>5. LocalStep({})
  <2>1. PassedAudits' = PassedAudits /\ attestations' = attestations
        /\ credentials' = credentials
    BY DEF PassedAudits, assuranceTables
  <2>. QED
    BY <1>2, <2>1, CountsStays, CredentialsSteps, StayIsLocal DEF SameForce
<1>6. CredentialsOK'
  BY <1>1, <1>5, LocalStepKeepsCredentials DEF CredentialsOK
<1>. QED
  BY <1>2, <1>3, <1>4, <1>6, StepKeepsInv

(* create_subject binds a key that nobody has. *)
LEMMA AddSubjectKeeps ==
    ASSUME IdentityInv, NEW s \in Subjects, NEW k \in Keys, AddSubject(s, k), UNCHANGED cases
    PROVE  KeysStay /\ KeysInv'
<1>1. keyOf \in [Subjects -> Keys \cup {None}]
  BY InvParts DEF IdentityInv, VerifiersOK
<1>2. /\ keyOf' \in [Subjects -> Keys \cup {None}] /\ keyOf'[s] = k
      /\ \A t \in Subjects : t # s => keyOf'[t] = keyOf[t]
  BY <1>1 DEF AddSubject
<1>3. k # None
  BY TablesAssumption
<1>4. \A t \in enrolled : t \in Subjects /\ t # s /\ keyOf[t] # k
  BY DEF AddSubject, KeyIsFree, IdentityInv, KeysInv
<1>5. enrolled' = enrolled \cup {s} /\ enrolled' \subseteq Subjects
  BY <1>4 DEF AddSubject
<1>6. SharedKeyIsRecovered'
  <2>. SUFFICES ASSUME NEW u \in enrolled', NEW t \in enrolled', u # t,
                       keyOf'[u] # None, keyOf'[u] = keyOf'[t]
                PROVE  \E i \in DOMAIN cases' : /\ cases'[i].state = "approved"
                                                /\ cases'[i].subject \in {u, t}
                                                /\ cases'[i].key = keyOf'[u]
    BY DEF SharedKeyIsRecovered
  <2>1. u \in enrolled /\ t \in enrolled
    BY <1>2, <1>4, <1>5
  <2>2. keyOf'[u] = keyOf[u] /\ keyOf'[t] = keyOf[t]
    BY <1>2, <1>4, <2>1
  <2>3. SharedKeyIsRecovered /\ cases' = cases
    BY DEF IdentityInv, KeysInv
  <2>4. \E i \in DOMAIN cases : /\ cases[i].state = "approved"
                                /\ cases[i].subject \in {u, t}
                                /\ cases[i].key = keyOf[u]
    <3>1. u # t /\ keyOf[u] # None /\ keyOf[u] = keyOf[t]
      BY <2>2
    <3>. QED
      BY <2>1, <2>3, <3>1, Zenon DEF SharedKeyIsRecovered
  <2>. QED
    BY <2>2, <2>3, <2>4
<1>. QED
  BY <1>2, <1>3, <1>5, <1>6 DEF KeysStay, KeysInv

(* register_operator_release leaves its release as the active one. *)
LEMMA AddReleaseKeeps ==
    ASSUME IdentityInv, NEW rel \in Releases, AddRelease(rel)
    PROVE  ReleaseInv'
<1>. DEFINE old == [i \in DOMAIN releases |->
                      IF ReleaseActive /\ i \in ActiveReleases
                      THEN [releases[i] EXCEPT !.suspended = TRUE] ELSE releases[i]]
            new == [version |-> rel.version, notice |-> rel.notice, suspended |-> FALSE]
            n == Len(releases)
<1>1. releases \in Seq(OperatorRelease) /\ DOMAIN releases = 1..n /\ n \in Nat
  BY LenProperties DEF IdentityInv, ReleaseInv
<1>2. \A i \in 1..n : releases[i] \in OperatorRelease
  BY <1>1, ElementOfSeq
<1>3. \A i \in 1..n : old[i] \in OperatorRelease
  BY <1>1, <1>2 DEF OperatorRelease
<1>4. old \in [1..n -> OperatorRelease] /\ DOMAIN old = 1..n
  BY <1>1, <1>3
<1>5. old \in Seq(OperatorRelease)
  BY <1>1, <1>4
<1>6. Len(old) = n
  BY <1>1, <1>4, <1>5, LenProperties
<1>7. \A i \in 1..n : old[i].suspended
  <2>1. \A i \in 1..n : ReleaseActive
    BY <1>1, ReleaseActiveIff DEF IdentityInv
  <2>. QED
    BY <1>1, <1>2, <2>1 DEF ActiveReleases, OperatorRelease
<1>8. new \in OperatorRelease /\ ~new.suspended
  BY DEF OperatorRelease
<1>9. releases' = Append(old, new)
  BY DEF AddRelease
<1>. HIDE DEF old, new, n
<1>10. /\ releases' \in Seq(OperatorRelease) /\ n + 1 \in DOMAIN releases'
       /\ DOMAIN releases' = 1..n \cup {n + 1} /\ n + 1 \notin 1..n
       /\ releases'[n + 1] = new
       /\ \A i \in 1..n : releases'[i] = old[i]
  BY <1>4, <1>5, <1>6, <1>8, <1>9, AppendRow
<1>11. ActiveReleases' = {n + 1}
  BY <1>7, <1>8, <1>10 DEF ActiveReleases
<1>. QED
  BY <1>10, <1>11 DEF ReleaseInv, OneRelease

-----------------------------------------------------------------------------
(* Consent. *)

(* Withdrawing the consents of s leaves it none, and the others theirs. *)
LEMMA WithdrawnRows ==
    ASSUME consents \in Seq(ConsentRecord), NEW s
    PROVE  /\ Withdrawn(s) \in Seq(ConsentRecord)
           /\ DOMAIN Withdrawn(s) = DOMAIN consents
           /\ Len(Withdrawn(s)) = Len(consents)
           /\ \A i \in DOMAIN consents :
                 /\ Withdrawn(s)[i].subject = consents[i].subject
                 /\ Withdrawn(s)[i].overtaken = consents[i].overtaken
                 /\ ~Withdrawn(s)[i].withdrawn <=> ~consents[i].withdrawn /\ consents[i].subject # s
<1>. DEFINE n == Len(consents)
            t(i) == [consents[i] EXCEPT !.withdrawn = TRUE]
<1>1. DOMAIN consents = 1..n /\ n \in Nat
  BY LenProperties
<1>2. \A i \in 1..n : consents[i] \in ConsentRecord
  BY <1>1, ElementOfSeq
<1>3. \A i \in 1..n : /\ t(i) \in ConsentRecord /\ t(i).withdrawn
                      /\ t(i).subject = consents[i].subject
                      /\ t(i).overtaken = consents[i].overtaken
  BY <1>2 DEF ConsentRecord
<1>4. Withdrawn(s) = [i \in 1..n |-> IF i \in LiveConsents(s) THEN t(i) ELSE consents[i]]
  BY <1>1 DEF Withdrawn
<1>. HIDE DEF t
<1>5. Withdrawn(s) \in [1..n -> ConsentRecord]
  BY <1>2, <1>3, <1>4
<1>6. Withdrawn(s) \in Seq(ConsentRecord) /\ DOMAIN Withdrawn(s) = 1..n
  BY <1>1, <1>5
<1>7. Len(Withdrawn(s)) = n
  BY <1>1, <1>6, LenProperties
<1>8. \A i \in 1..n :
         /\ Withdrawn(s)[i].subject = consents[i].subject
         /\ Withdrawn(s)[i].overtaken = consents[i].overtaken
         /\ ~Withdrawn(s)[i].withdrawn <=> ~consents[i].withdrawn /\ consents[i].subject # s
  BY <1>1, <1>3, <1>4 DEF LiveConsents
<1>. QED
  BY <1>1, <1>6, <1>7, <1>8

(* accept_consent replaces the signer's live consent. *)
LEMMA AcceptKeepsConsent ==
    ASSUME IdentityInv, NEW s \in Subjects, NEW f \in BOOLEAN, AcceptConsent(s, f)
    PROVE  ConsentInv'
<1>. DEFINE new == [subject |-> s, notice |-> CurrentRelease.notice,
                    forClaims |-> f, withdrawn |-> FALSE, overtaken |-> ~CanSign(s)]
            old == Withdrawn(s)
            n == Len(old) + 1
<1>1. consents \in Seq(ConsentRecord) /\ ConsentBound
  BY DEF IdentityInv, ConsentInv
<1>2. /\ old \in Seq(ConsentRecord) /\ DOMAIN old = DOMAIN consents
      /\ \A i \in DOMAIN consents :
            /\ old[i].subject = consents[i].subject
            /\ old[i].overtaken = consents[i].overtaken
            /\ ~old[i].withdrawn <=> ~consents[i].withdrawn /\ consents[i].subject # s
  BY <1>1, WithdrawnRows
<1>3. new \in ConsentRecord /\ new.subject = s /\ (~new.overtaken => CanSign(s))
  <2>1. CurrentRelease \in OperatorRelease
    BY ReleaseActiveIff DEF AcceptConsent, IdentityInv
  <2>. QED
    BY <2>1 DEF OperatorRelease, ConsentRecord
<1>4. consents' = Append(old, new) /\ keyOf' = keyOf
  BY DEF AcceptConsent, allVars, assuranceVars
<1>. HIDE DEF new, old
<1>5. /\ consents' \in Seq(ConsentRecord)
      /\ DOMAIN consents' = DOMAIN consents \cup {n} /\ n \notin DOMAIN consents
      /\ consents'[n] = new
      /\ \A i \in DOMAIN consents : consents'[i] = old[i]
  BY <1>2, <1>3, <1>4, AppendRow
<1>. HIDE DEF n
<1>6. \A i \in DOMAIN consents : ~consents'[i].withdrawn =>
         /\ consents'[i].subject # s /\ consents'[i].subject = consents[i].subject
         /\ consents'[i].overtaken = consents[i].overtaken
         /\ ~consents[i].withdrawn
  BY <1>2, <1>5
<1>7. ConsentBound'
  <2>1. \A i, j \in DOMAIN consents' :
          /\ ~consents'[i].withdrawn /\ ~consents'[j].withdrawn
          /\ consents'[i].subject = consents'[j].subject
          => i = j
    BY <1>1, <1>3, <1>5, <1>6 DEF ConsentBound
  <2>2. \A i \in DOMAIN consents' : ~consents'[i].withdrawn /\ ~consents'[i].overtaken =>
           CanSign(consents'[i].subject)
    BY <1>1, <1>3, <1>4, <1>5, <1>6 DEF ConsentBound
  <2>3. \A t : CanSign(t)' <=> CanSign(t)
    BY <1>4 DEF CanSign
  <2>. QED
    BY <2>1, <2>2, <2>3 DEF ConsentBound
<1>. QED
  BY <1>5, <1>7 DEF ConsentInv

(* Keys that stay keep the consents bound. *)
LEMMA ConsentStays ==
    ASSUME IdentityInv, UNCHANGED consents, KeysStay
    PROVE  ConsentInv'
<1>1. consents \in Seq(ConsentRecord) /\ ConsentBound
  BY DEF IdentityInv, ConsentInv
<1>2. \A i \in DOMAIN consents : consents[i].subject \in Subjects
  <2>1. \A i \in DOMAIN consents : consents[i] \in ConsentRecord
    BY <1>1, RowType
  <2>. QED
    BY <2>1 DEF ConsentRecord
<1>3. ConsentBound'
  BY <1>1, <1>2 DEF ConsentBound, CanSign, KeysStay
<1>. QED
  BY <1>1, <1>3 DEF ConsentInv

-----------------------------------------------------------------------------
(* Recovery. *)

(* register_recovery_commitment: the subject had no open one. *)
LEMMA CommitmentKeepsRecovery ==
    ASSUME IdentityInv, NEW s \in Subjects, RegisterRecoveryCommitment(s)
    PROVE  RecoveryInv'
<1>. DEFINE new == [subject |-> s, consumed |-> FALSE]
            n == Len(commitments) + 1
<1>1. RecoveryTypeOK /\ SingleUse /\ Backed /\ cases' = cases
  BY DEF IdentityInv, RecoveryInv, RegisterRecoveryCommitment
<1>2. new \in RecoveryCommitment
  BY DEF RecoveryCommitment
<1>3. commitments' = Append(commitments, new)
  BY DEF RegisterRecoveryCommitment
<1>4. /\ commitments' \in Seq(RecoveryCommitment)
      /\ DOMAIN commitments' = DOMAIN commitments \cup {n} /\ n \notin DOMAIN commitments
      /\ commitments'[n] = new
      /\ \A c \in DOMAIN commitments : commitments'[c] = commitments[c]
  BY <1>1, <1>2, <1>3, AppendRow DEF RecoveryTypeOK
<1>. HIDE DEF n
<1>5. \A i \in DOMAIN cases : /\ cases[i].commitment \in DOMAIN commitments
                              /\ commitments'[cases[i].commitment] = commitments[cases[i].commitment]
  BY <1>1, <1>4 DEF RecoveryTypeOK
<1>6. \A c \in DOMAIN commitments : ~commitments[c].consumed => commitments[c].subject # s
  BY DEF RegisterRecoveryCommitment, OpenCommitments
<1>7. SingleUse'
  BY <1>1, <1>4, <1>5 DEF SingleUse
<1>8. Backed'
  BY <1>1, <1>4, <1>5, <1>6 DEF Backed
<1>. QED
  BY <1>1, <1>4, <1>5, <1>7, <1>8 DEF RecoveryInv, RecoveryTypeOK

(* request_recovery: one open commitment and no pending case. *)
LEMMA RequestKeepsRecovery ==
    ASSUME IdentityInv, NEW s \in Subjects, NEW k \in Keys, RequestRecovery(s, k)
    PROVE  RecoveryInv' /\ KeysInv'
<1>1. RecoveryTypeOK /\ SingleUse /\ Backed
  BY DEF IdentityInv, RecoveryInv
<1>2. /\ commitments' = commitments /\ enrolled' = enrolled /\ keyOf' = keyOf
      /\ PendingCases(s) = {}
  BY DEF RequestRecovery, allVars, assuranceVars
<1>3. PICK c \in OpenCommitments(s) :
         cases' = Append(cases, [subject |-> s, commitment |-> c, key |-> k,
                                 state |-> "pending"])
  BY DEF RequestRecovery
<1>. DEFINE new == [subject |-> s, commitment |-> c, key |-> k, state |-> "pending"]
            n == Len(cases) + 1
<1>4. c \in DOMAIN commitments /\ ~commitments[c].consumed /\ commitments[c].subject = s
  BY DEF OpenCommitments
<1>5. new \in RecoveryCase
  <2>1. c \in Nat
    BY <1>1, <1>4, LenProperties DEF RecoveryTypeOK
  <2>. QED
    BY <2>1 DEF RecoveryCase
<1>6. /\ cases' \in Seq(RecoveryCase)
      /\ DOMAIN cases' = DOMAIN cases \cup {n} /\ n \notin DOMAIN cases
      /\ cases'[n] = new
      /\ \A i \in DOMAIN cases : cases'[i] = cases[i]
  BY <1>1, <1>3, <1>5, AppendRow DEF RecoveryTypeOK
<1>. HIDE DEF n
<1>7. \A i \in DOMAIN cases : cases[i].state = "pending" => cases[i].subject # s
  BY <1>2 DEF PendingCases
<1>8. SingleUse'
  BY <1>1, <1>2, <1>6 DEF SingleUse
<1>9. Backed'
  BY <1>1, <1>2, <1>4, <1>6, <1>7 DEF Backed
<1>10. RecoveryTypeOK'
  BY <1>1, <1>2, <1>4, <1>6 DEF RecoveryTypeOK
<1>11. KeysInv'
  BY <1>2, <1>6 DEF IdentityInv, KeysInv, SharedKeyIsRecovered
<1>. QED
  BY <1>8, <1>9, <1>10, <1>11 DEF RecoveryInv

(* decide_recovery: an approval spends the commitment and binds the key.   *)
LEMMA DecideKeepsRecovery ==
    ASSUME IdentityInv, NEW a \in Ids, NEW k \in DOMAIN cases, NEW approve \in BOOLEAN,
           DecideRecovery(a, k, approve)
    PROVE  RecoveryInv' /\ KeysInv' /\ KeysStay
<1>. DEFINE s == cases[k].subject
            c == cases[k].commitment
            verdict == IF approve THEN "approved" ELSE "rejected"
            t == [cases[k] EXCEPT !.state = verdict]
<1>1. RecoveryTypeOK /\ SingleUse /\ Backed /\ KeysInv
      /\ keyOf \in [Subjects -> Keys \cup {None}]
  BY InvParts DEF IdentityInv, RecoveryInv, VerifiersOK
<1>2. /\ cases[k] \in RecoveryCase /\ c \in DOMAIN commitments
      /\ commitments[c] \in RecoveryCommitment
  BY <1>1, RowType DEF RecoveryTypeOK
<1>3. /\ t \in RecoveryCase /\ t.subject = s /\ t.commitment = c /\ t.key = cases[k].key
      /\ t.state = verdict /\ verdict # "pending"
      /\ s \in Subjects /\ cases[k].key \in Keys
  BY <1>2 DEF RecoveryCase
<1>4. cases' = [cases EXCEPT ![k] = t] /\ cases[k].state = "pending" /\ enrolled' = enrolled
  BY DEF DecideRecovery
<1>5. /\ cases' \in Seq(RecoveryCase) /\ DOMAIN cases' = DOMAIN cases
      /\ cases'[k] = t /\ \A i \in DOMAIN cases : i # k => cases'[i] = cases[i]
  <2>1. cases \in Seq(RecoveryCase) /\ k \in 1..Len(cases)
    BY <1>1, LenProperties DEF RecoveryTypeOK
  <2>. HIDE DEF t
  <2>2. cases' \in Seq(RecoveryCase)
    BY <1>3, <1>4, <2>1, ExceptSeq
  <2>. QED
    BY <1>4, <2>1, <2>2
<1>6. ~commitments[c].consumed /\ commitments[c].subject = s
  BY <1>1, <1>4 DEF Backed
<1>7. /\ commitments' \in Seq(RecoveryCommitment) /\ DOMAIN commitments' = DOMAIN commitments
      /\ \A d \in DOMAIN commitments :
            /\ commitments'[d].subject = commitments[d].subject
            /\ commitments'[d].consumed <=> (commitments[d].consumed \/ (approve /\ d = c))
  <2>1. commitments \in Seq(RecoveryCommitment) /\ c \in 1..Len(commitments)
    BY <1>1, <1>2, LenProperties DEF RecoveryTypeOK
  <2>2. CASE approve
    <3>. DEFINE u == [commitments[c] EXCEPT !.consumed = TRUE]
    <3>1. u \in RecoveryCommitment /\ u.subject = commitments[c].subject /\ u.consumed
      BY <1>2 DEF RecoveryCommitment
    <3>2. commitments' = [commitments EXCEPT ![c] = u]
      BY <2>2 DEF DecideRecovery
    <3>. HIDE DEF u, c
    <3>3. commitments' \in Seq(RecoveryCommitment)
      BY <2>1, <3>1, <3>2, ExceptSeq
    <3>. QED
      BY <2>1, <2>2, <3>1, <3>2, <3>3
  <2>3. CASE ~approve
    BY <2>1, <2>3 DEF DecideRecovery
  <2>. QED
    BY <2>2, <2>3
<1>8. /\ \A i \in DOMAIN cases : /\ cases'[i].subject = cases[i].subject
                                 /\ cases'[i].commitment = cases[i].commitment
                                 /\ cases'[i].key = cases[i].key
                                 /\ cases[i].commitment \in DOMAIN commitments
      /\ \A i \in DOMAIN cases : cases'[i].state = "approved" <=>
            cases[i].state = "approved" \/ (approve /\ i = k)
      /\ \A i \in DOMAIN cases : cases'[i].state = "pending" <=>
            cases[i].state = "pending" /\ i # k
  BY <1>1, <1>3, <1>4, <1>5 DEF RecoveryTypeOK
<1>9. RecoveryTypeOK'
  BY <1>5, <1>7, <1>8 DEF RecoveryTypeOK
<1>. HIDE DEF t, verdict
<1>10. \A i \in DOMAIN cases : cases[i].state = "approved" => cases[i].commitment # c
  BY <1>1, <1>6 DEF SingleUse
<1>11. SingleUse'
  <2>1. \A i \in DOMAIN cases' : cases'[i].state = "approved" =>
           /\ commitments'[cases'[i].commitment].consumed
           /\ cases'[i].subject = commitments'[cases'[i].commitment].subject
    <3>1. ASSUME NEW i \in DOMAIN cases, cases[i].state = "approved"
          PROVE  /\ commitments'[cases[i].commitment].consumed
                 /\ cases[i].subject = commitments'[cases[i].commitment].subject
      BY <1>1, <1>7, <1>8, <3>1 DEF SingleUse
    <3>2. approve => /\ commitments'[c].consumed
                     /\ s = commitments'[c].subject
      BY <1>2, <1>6, <1>7
    <3>. QED
      BY <1>5, <1>8, <3>1, <3>2
  <2>2. \A i, j \in DOMAIN cases' :
          /\ cases'[i].state = "approved" /\ cases'[j].state = "approved"
          /\ cases'[i].commitment = cases'[j].commitment
          => i = j
    BY <1>1, <1>5, <1>8, <1>10 DEF SingleUse
  <2>3. \A d \in DOMAIN commitments' : commitments'[d].consumed =>
          \E i \in DOMAIN cases' : cases'[i].commitment = d /\ cases'[i].state = "approved"
    <3>1. ASSUME NEW d \in DOMAIN commitments, commitments[d].consumed
          PROVE  \E i \in DOMAIN cases' : cases'[i].commitment = d /\ cases'[i].state = "approved"
      <4>1. PICK i \in DOMAIN cases : cases[i].commitment = d /\ cases[i].state = "approved"
        BY <1>1, <3>1 DEF SingleUse
      <4>. QED
        BY <1>5, <1>8, <4>1
    <3>2. approve => cases'[k].commitment = c /\ cases'[k].state = "approved"
      BY <1>8
    <3>. QED
      BY <1>5, <1>7, <3>1, <3>2
  <2>. QED
    BY <2>1, <2>2, <2>3 DEF SingleUse
<1>12. Backed'
  <2>1. \A i \in DOMAIN cases' : cases'[i].state = "pending" =>
          /\ ~commitments'[cases'[i].commitment].consumed
          /\ cases'[i].subject = commitments'[cases'[i].commitment].subject
    BY <1>1, <1>4, <1>5, <1>6, <1>7, <1>8 DEF Backed
  <2>2. \A d, e \in DOMAIN commitments' :
          /\ ~commitments'[d].consumed /\ ~commitments'[e].consumed
          /\ commitments'[d].subject = commitments'[e].subject
          => d = e
    BY <1>1, <1>7 DEF Backed
  <2>3. \A i, j \in DOMAIN cases' :
          /\ cases'[i].state = "pending" /\ cases'[j].state = "pending"
          /\ cases'[i].subject = cases'[j].subject
          => i = j
    BY <1>1, <1>5, <1>8 DEF Backed
  <2>. QED
    BY <2>1, <2>2, <2>3 DEF Backed
<1>13. /\ KeysStay
       /\ \A u \in Subjects : keyOf'[u] = IF approve /\ u = s THEN cases[k].key ELSE keyOf[u]
  BY <1>1, <1>3, TablesAssumption DEF KeysStay, DecideRecovery
<1>14. SharedKeyIsRecovered'
  <2>. SUFFICES ASSUME NEW u \in enrolled, NEW v \in enrolled, u # v,
                       keyOf'[u] # None, keyOf'[u] = keyOf'[v]
                PROVE  \E i \in DOMAIN cases' : /\ cases'[i].state = "approved"
                                                /\ cases'[i].subject \in {u, v}
                                                /\ cases'[i].key = keyOf'[u]
    BY <1>4 DEF SharedKeyIsRecovered
  <2>1. u \in Subjects /\ v \in Subjects
    BY <1>1 DEF KeysInv
  <2>2. CASE approve /\ s \in {u, v}
    BY <1>5, <1>8, <1>13, <2>1, <2>2
  <2>3. CASE ~(approve /\ s \in {u, v})
    <3>1. keyOf'[u] = keyOf[u] /\ keyOf'[v] = keyOf[v]
      BY <1>13, <2>1, <2>3
    <3>2. u # v /\ keyOf[u] # None /\ keyOf[u] = keyOf[v]
      BY <3>1
    <3>3. PICK i \in DOMAIN cases : /\ cases[i].state = "approved"
                                    /\ cases[i].subject \in {u, v}
                                    /\ cases[i].key = keyOf[u]
      BY <1>1, <3>2, Zenon DEF KeysInv, SharedKeyIsRecovered
    <3>. QED
      BY <1>5, <1>8, <3>1, <3>3
  <2>. QED
    BY <2>2, <2>3
<1>. QED
  BY <1>1, <1>4, <1>9, <1>11, <1>12, <1>13, <1>14 DEF RecoveryInv, KeysInv

-----------------------------------------------------------------------------
(* Privacy requests. *)

(* What no handler but process_privacy_request does: remove a binding. *)
LEMMA StepsKeepKeys == AssuranceSteps => UNCHANGED keyOf
<1>1. ASSUME \/ \E a \in Ids, d \in Definitions : RegisterClaim(a, d)
             \/ \E r \in DOMAIN requests, v \in Subjects, e \in Expiries :
                   InviteAttestor(r, v, e)
             \/ \E a \in Ids, r \in DOMAIN requests, x, v \in Subjects, e \in Expiries :
                   IntroduceAttestor(a, r, x, v, e)
      PROVE  UNCHANGED keyOf
  BY <1>1 DEF RegisterClaim, InviteAttestor, IntroduceAttestor
<1>5. ASSUME NEW inv \in invitations, NEW g \in Ids, NEW x \in introductions,
             NEW m \in MethodClasses, NEW e \in Expiries, IssueAttestation(inv, g, x, m, e)
      PROVE  UNCHANGED keyOf
  BY <1>5 DEF IssueAttestation, AddAttestation
<1>6. ASSUME NEW r \in DOMAIN requests, NEW g \in Ids, NEW e \in Expiries,
             IssueBootstrapAttestation(r, g, e)
      PROVE  UNCHANGED keyOf
  BY <1>6 DEF IssueBootstrapAttestation, AddAttestation
<1>2. ASSUME \/ \E a \in Ids, i \in DOMAIN attestations : SelectAudit(a, i)
             \/ \E a \in Ids, i \in DOMAIN audits, p \in BOOLEAN : DecideAudit(a, i, p)
             \/ \E s \in Subjects, i \in DOMAIN attestations : OpenChallenge(s, i)
             \/ \E c \in DOMAIN challenges : RespondToChallenge(c)
             \/ \E c \in DOMAIN challenges : AppealChallenge(c)
             \/ \E a \in Ids, c \in DOMAIN challenges, d \in {"sustained", "dismissed"} :
                   DecideChallenge(a, c, d)
             \/ \E a \in Ids, c \in DOMAIN challenges, d \in {"affirmed", "reversed"} :
                   DecideAppeal(a, c, d)
      PROVE  UNCHANGED keyOf
  BY <1>2 DEF SelectAudit, DecideAudit, OpenChallenge, RespondToChallenge, AppealChallenge,
     DecideChallenge, DecideAppeal
<1>3. ASSUME \/ \E a, t \in Ids : RevokeAuthorityAndDependents(a, t)
             \/ \E r \in DOMAIN requests : CredentialStatus(r)
      PROVE  UNCHANGED keyOf
  BY <1>3 DEF RevokeAuthorityAndDependents, CredentialStatus
<1>4. ASSUME \/ \E a \in Ids, s \in Subjects, src \in SUBSET Ids, p \in Promotions :
                   PromoteAuditedConduct(a, s, src, p)
             \/ \E a \in Ids, o \in Offers : SignedGrant(a, o)
             \/ Tick /\ UNCHANGED assuranceVars
      PROVE  UNCHANGED keyOf
  BY <1>4 DEF PromoteAuditedConduct, SignedGrant, assuranceVars
<1>. QED
  BY <1>1, <1>2, <1>3, <1>4, <1>5, <1>6 DEF AssuranceSteps

(* Tables that do not change stay right. *)
LEMMA PartsStay ==
    ASSUME IdentityInv
    PROVE  /\ UNCHANGED releases => ReleaseInv'
           /\ UNCHANGED <<commitments, cases>> => RecoveryInv'
           /\ UNCHANGED <<enrolled, keyOf, cases>> => KeysInv'
           /\ UNCHANGED keyOf => KeysStay
<1>. USE DEF IdentityInv
<1>1. UNCHANGED releases => ReleaseInv'
  BY DEF ReleaseInv, OneRelease, ActiveReleases
<1>2. UNCHANGED <<commitments, cases>> => RecoveryInv'
  BY DEF RecoveryInv, RecoveryTypeOK, SingleUse, Backed
<1>3. UNCHANGED <<enrolled, keyOf, cases>> => KeysInv'
  BY DEF KeysInv, SharedKeyIsRecovered
<1>4. UNCHANGED keyOf => KeysStay
  BY InvParts DEF KeysStay, VerifiersOK
<1>. QED
  BY <1>1, <1>2, <1>3, <1>4

(* process_privacy_request, approved: the binding of a deleted subject     *)
(* goes with its consents.                                                 *)
LEMMA InvalidateKeepsIdentity ==
    ASSUME IdentityInv, NEW a \in Ids, NEW s \in Subjects, NEW kind \in PrivacyRequestKind,
           InvalidateSubjectState(a, s, kind), UNCHANGED <<enrolled, cases>>,
           consents' = IF kind = "correction" THEN consents ELSE Withdrawn(s)
    PROVE  AssuranceInv' /\ KeysInv' /\ ConsentInv'
<1>1. AssuranceInv'
  BY InvalidateKeepsAssurance DEF IdentityInv
<1>2. keyOf \in [Subjects -> Keys \cup {None}]
  BY InvParts DEF VerifiersOK, IdentityInv
<1>3. \A t \in Subjects : keyOf'[t] = IF kind = "deletion" /\ t = s THEN None ELSE keyOf[t]
  BY <1>2 DEF InvalidateSubjectState
<1>4. SharedKeyIsRecovered'
  <2>. SUFFICES ASSUME NEW u \in enrolled, NEW v \in enrolled, u # v,
                       keyOf'[u] # None, keyOf'[u] = keyOf'[v]
                PROVE  \E i \in DOMAIN cases : /\ cases[i].state = "approved"
                                               /\ cases[i].subject \in {u, v}
                                               /\ cases[i].key = keyOf'[u]
    BY DEF SharedKeyIsRecovered
  <2>1. u \in Subjects /\ v \in Subjects
    BY DEF IdentityInv, KeysInv
  <2>2. keyOf'[u] = keyOf[u] /\ keyOf'[v] = keyOf[v]
    BY <1>3, <2>1
  <2>3. u # v /\ keyOf[u] # None /\ keyOf[u] = keyOf[v]
    BY <2>2
  <2>4. \E i \in DOMAIN cases : /\ cases[i].state = "approved"
                                /\ cases[i].subject \in {u, v}
                                /\ cases[i].key = keyOf[u]
    BY <2>3, Zenon DEF IdentityInv, KeysInv, SharedKeyIsRecovered
  <2>. QED
    BY <2>2, <2>4
<1>5. consents \in Seq(ConsentRecord) /\ ConsentBound
  BY DEF IdentityInv, ConsentInv
<1>6. ConsentInv'
  <2>1. CASE kind = "correction"
    <3>1. consents' = consents /\ keyOf' = keyOf
      BY <2>1 DEF InvalidateSubjectState
    <3>. QED
      BY <1>5, <3>1 DEF ConsentInv, ConsentBound, CanSign
  <2>2. CASE kind # "correction"
    <3>1. /\ consents' \in Seq(ConsentRecord) /\ DOMAIN consents' = DOMAIN consents
          /\ \A i \in DOMAIN consents :
                /\ consents'[i].subject = consents[i].subject
                /\ consents'[i].overtaken = consents[i].overtaken
                /\ ~consents'[i].withdrawn <=>
                      ~consents[i].withdrawn /\ consents[i].subject # s
      BY <1>5, <2>2, WithdrawnRows
    <3>2. \A i \in DOMAIN consents : consents[i].subject \in Subjects
      <4>1. \A i \in DOMAIN consents : consents[i] \in ConsentRecord
        BY <1>5, RowType
      <4>. QED
        BY <4>1 DEF ConsentRecord
    <3>3. \A i \in DOMAIN consents : ~consents'[i].withdrawn /\ ~consents'[i].overtaken =>
             keyOf'[consents[i].subject] # None
      BY <1>3, <1>5, <3>1, <3>2 DEF ConsentBound, CanSign
    <3>4. ConsentBound'
      BY <1>5, <3>1, <3>3 DEF ConsentBound, CanSign
    <3>. QED
      BY <3>1, <3>4 DEF ConsentInv
  <2>. QED
    BY <2>1, <2>2
<1>. QED
  BY <1>1, <1>4, <1>6 DEF IdentityInv, KeysInv

(* The decision on a privacy request leaves the rows well formed. *)
LEMMA PrivacyRowsStay ==
    ASSUME IdentityInv, NEW i \in DOMAIN privacy, NEW approve \in BOOLEAN,
           privacy' = [privacy EXCEPT ![i].state = IF approve THEN "completed" ELSE "rejected"]
    PROVE  privacy' \in Seq(PrivacyRequest) /\ privacy[i] \in PrivacyRequest
<1>. DEFINE t == [privacy[i] EXCEPT !.state = IF approve THEN "completed" ELSE "rejected"]
<1>1. privacy \in Seq(PrivacyRequest) /\ i \in 1..Len(privacy)
  BY LenProperties DEF IdentityInv
<1>2. privacy[i] \in PrivacyRequest
  BY <1>1, RowType
<1>3. t \in PrivacyRequest
  BY <1>2 DEF PrivacyRequest
<1>4. privacy' = [privacy EXCEPT ![i] = t]
  OBVIOUS
<1>. HIDE DEF t
<1>. QED
  BY <1>1, <1>2, <1>3, <1>4, ExceptSeq

-----------------------------------------------------------------------------
(* The invariant. *)

(* Metering or nothing, on the authority side, and no evidence touched. *)
LEMMA SignedKeepsAssurance ==
    ASSUME IdentityInv, NEW a \in Ids, NEW c \in UnscopedUses, SignedUse(a, c, None, None),
           UNCHANGED assuranceTables, KeysStay
    PROVE  AssuranceInv' /\ AuthorityNext
<1>1. AuthorityNext
  BY SignedUseIsAuthority
<1>2. SameForce
  BY SignedUseStep DEF IdentityInv, AssuranceInv
<1>. QED
  BY <1>1, <1>2, RekeyKeepsAssurance DEF IdentityInv

(* And with the grants left alone. *)
LEMMA IdleKeepsAssurance ==
    ASSUME IdentityInv, UNCHANGED authorityVars, UNCHANGED assuranceTables, KeysStay
    PROVE  AssuranceInv'
<1>1. SameForce
  BY DEF SameForce, GrantIsActive, authorityVars, Ids
<1>. QED
  BY <1>1, RekeyKeepsAssurance DEF IdentityInv

(* Every step of Identity keeps its invariant and is a step of the grant   *)
(* table or leaves that alone.                                             *)
LEMMA NextKeepsIdentity ==
    IdentityInv /\ [IdentityNext]_coreVars => IdentityInv' /\ [AuthorityNext]_authorityVars
<1>. SUFFICES ASSUME IdentityInv, [IdentityNext]_coreVars
              PROVE  IdentityInv' /\ [AuthorityNext]_authorityVars
  OBVIOUS
<1>. USE DEF IdentityInv
<1>1. CASE AssuranceSteps /\ UNCHANGED identityVars
  <2>1. UNCHANGED keyOf /\ KeysStay
    BY <1>1, StepsKeepKeys, PartsStay
  <2>2. AssuranceInv' /\ [AuthorityNext]_authorityVars
    BY <1>1, StepsKeepAssurance, StepsAreAuthority DEF AssuranceInv, EvidenceInv
  <2>. QED
    BY <1>1, <2>1, <2>2, PartsStay, ConsentStays DEF identityVars
<1>2. ASSUME NEW s \in Subjects, NEW k \in Keys, CreateSubject(s, k)
      PROVE  IdentityInv' /\ UNCHANGED authorityVars
  <2>1. KeysStay /\ KeysInv'
    BY <1>2, AddSubjectKeeps DEF CreateSubject
  <2>2. AssuranceInv'
    BY <1>2, <2>1, IdleKeepsAssurance DEF CreateSubject
  <2>. QED
    BY <1>2, <2>1, <2>2, PartsStay, ConsentStays DEF CreateSubject
<1>3. ASSUME NEW s \in Subjects, NEW k \in Keys, NEW e \in 1..MaxTime + 1, NEW rel \in Releases,
             ActivateBootstrap(s, k, e, rel)
      PROVE  IdentityInv' /\ AuthorityNext
  <2>1. KeysStay /\ KeysInv'
    BY <1>3, AddSubjectKeeps DEF ActivateBootstrap
  <2>2. AuthorityNext /\ SameForce
    <3>1. BootstrapAuthority(s, e)
      BY <1>3 DEF ActivateBootstrap
    <3>2. AuthorityNext
      BY <3>1 DEF AuthorityNext, OtherNext
    <3>. QED
      BY <3>1, <3>2 DEF BootstrapAuthority, SameForce, Ids
  <2>3. AssuranceInv'
    BY <1>3, <2>1, <2>2, RekeyKeepsAssurance DEF ActivateBootstrap
  <2>4. ReleaseInv'
    BY <1>3, AddReleaseKeeps DEF ActivateBootstrap
  <2>. QED
    BY <1>3, <2>1, <2>2, <2>3, <2>4, PartsStay, ConsentStays DEF ActivateBootstrap
<1>4. ASSUME NEW a \in Ids, NEW rel \in Releases, RegisterOperatorRelease(a, rel)
      PROVE  IdentityInv' /\ AuthorityNext
  <2>1. UNCHANGED <<assuranceTables, keyOf>> /\ KeysStay
    BY <1>4, PartsStay DEF RegisterOperatorRelease, assuranceVars, assuranceTables
  <2>2. AssuranceInv' /\ AuthorityNext
    BY <1>4, <2>1, SignedKeepsAssurance DEF RegisterOperatorRelease, UnscopedUses
  <2>3. ReleaseInv'
    BY <1>4, AddReleaseKeeps DEF RegisterOperatorRelease
  <2>. QED
    BY <1>4, <2>1, <2>2, <2>3, PartsStay, ConsentStays DEF RegisterOperatorRelease
<1>5. ASSUME UNCHANGED allVars
      PROVE  /\ UNCHANGED authorityVars /\ UNCHANGED keyOf
             /\ AssuranceInv' /\ KeysStay
  <2>1. UNCHANGED authorityVars /\ UNCHANGED assuranceTables /\ UNCHANGED keyOf
    BY <1>5 DEF allVars, assuranceVars, assuranceTables
  <2>. QED
    BY <2>1, PartsStay, IdleKeepsAssurance
<1>6. ASSUME NEW s \in enrolled, NEW f \in BOOLEAN, AcceptConsent(s, f)
      PROVE  IdentityInv' /\ UNCHANGED authorityVars
  <2>1. ConsentInv'
    BY <1>6, AcceptKeepsConsent DEF KeysInv
  <2>. QED
    BY <1>5, <1>6, <2>1, PartsStay DEF AcceptConsent
<1>7. ASSUME NEW s \in enrolled, NEW d \in claims, RequestConsentedClaim(s, d)
      PROVE  IdentityInv' /\ UNCHANGED authorityVars
  <2>1. AssuranceInv'
    BY <1>7, RequestKeepsInv DEF RequestConsentedClaim, KeysInv
  <2>2. UNCHANGED keyOf /\ UNCHANGED authorityVars
    BY <1>7 DEF RequestConsentedClaim, RequestClaim
  <2>. QED
    BY <1>7, <2>1, <2>2, PartsStay, ConsentStays DEF RequestConsentedClaim, identityVars
<1>8. ASSUME NEW s \in enrolled, RegisterRecoveryCommitment(s)
      PROVE  IdentityInv' /\ UNCHANGED authorityVars
  <2>1. RecoveryInv'
    BY <1>8, CommitmentKeepsRecovery DEF KeysInv
  <2>. QED
    BY <1>5, <1>8, <2>1, PartsStay, ConsentStays DEF RegisterRecoveryCommitment
<1>9. ASSUME NEW s \in enrolled, NEW k \in Keys, RequestRecovery(s, k)
      PROVE  IdentityInv' /\ UNCHANGED authorityVars
  <2>1. RecoveryInv' /\ KeysInv'
    BY <1>9, RequestKeepsRecovery DEF KeysInv
  <2>. QED
    BY <1>5, <1>9, <2>1, PartsStay, ConsentStays DEF RequestRecovery
<1>10. ASSUME NEW a \in Ids, NEW i \in DOMAIN cases, NEW b \in BOOLEAN, DecideRecovery(a, i, b)
       PROVE  IdentityInv' /\ AuthorityNext
  <2>1. RecoveryInv' /\ KeysInv' /\ KeysStay
    BY <1>10, DecideKeepsRecovery
  <2>2. AssuranceInv' /\ AuthorityNext
    BY <1>10, <2>1, SignedKeepsAssurance DEF DecideRecovery, UnscopedUses
  <2>. QED
    BY <1>10, <2>1, <2>2, PartsStay, ConsentStays DEF DecideRecovery
<1>11. ASSUME NEW s \in enrolled, NEW kind \in AllPrivacyKinds, OpenPrivacyRequest(s, kind)
       PROVE  IdentityInv' /\ UNCHANGED authorityVars
  <2>. DEFINE t == [subject |-> s, kind |-> kind, state |-> "pending"]
  <2>1. t \in PrivacyRequest
    BY DEF PrivacyRequest, KeysInv
  <2>2. privacy' = Append(privacy, t)
    BY <1>11 DEF OpenPrivacyRequest
  <2>. HIDE DEF t
  <2>3. privacy' \in Seq(PrivacyRequest)
    BY <2>1, <2>2, AppendRow
  <2>. QED
    BY <1>5, <1>11, <2>3, PartsStay, ConsentStays DEF OpenPrivacyRequest
<1>12. ASSUME NEW a \in Ids, NEW i \in DOMAIN privacy, NEW b \in BOOLEAN,
              ProcessPrivacyRequest(a, i, b)
       PROVE  IdentityInv' /\ AuthorityNext
  <2>. DEFINE s == privacy[i].subject
             kind == privacy[i].kind
  <2>1. privacy' \in Seq(PrivacyRequest) /\ s \in Subjects
    BY <1>12, PrivacyRowsStay DEF ProcessPrivacyRequest, PrivacyRequest
  <2>2. CASE /\ kind \in PrivacyRequestKind /\ InvalidateSubjectState(a, s, kind)
             /\ consents' = IF kind = "correction" THEN consents ELSE Withdrawn(s)
    <3>1. AssuranceInv' /\ KeysInv' /\ ConsentInv'
      BY <1>12, <2>1, <2>2, InvalidateKeepsIdentity DEF ProcessPrivacyRequest
    <3>2. AuthorityNext
      BY <2>1, <2>2 DEF InvalidateSubjectState, AuthorityNext, OtherNext
    <3>. QED
      BY <1>12, <2>1, <3>1, <3>2, PartsStay DEF ProcessPrivacyRequest
  <2>3. CASE SignedUse(a, "process_privacy", None, None) /\ UNCHANGED <<assuranceVars, consents>>
    <3>1. UNCHANGED <<assuranceTables, keyOf>> /\ KeysStay
      BY <2>3, PartsStay DEF assuranceVars, assuranceTables
    <3>2. AssuranceInv' /\ AuthorityNext
      BY <2>3, <3>1, SignedKeepsAssurance DEF UnscopedUses
    <3>. QED
      BY <1>12, <2>1, <2>3, <3>1, <3>2, PartsStay, ConsentStays DEF ProcessPrivacyRequest
  <2>. QED
    BY <1>12, <2>2, <2>3 DEF ProcessPrivacyRequest
<1>13. CASE UNCHANGED coreVars
  <2>1. UNCHANGED allVars /\ UNCHANGED identityVars
    BY <1>13 DEF coreVars
  <2>. QED
    BY <1>5, <2>1, PartsStay, ConsentStays DEF identityVars
<1>. QED
  BY <1>1, <1>2, <1>3, <1>4, <1>6, <1>7, <1>8, <1>9, <1>10, <1>11, <1>12, <1>13
  DEF IdentityNext

(* An empty core. *)
LEMMA IdentityInitInv == IdentityInit => IdentityInv
<1>. SUFFICES ASSUME IdentityInit PROVE IdentityInv
  OBVIOUS
<1>1. keyOf \in [Subjects -> Keys \cup {None}]
  BY DEF IdentityInit
<1>2. AssuranceInv
  BY <1>1, NothingYetIsSound DEF IdentityInit
<1>3. /\ releases = <<>> /\ consents \in Seq(ConsentRecord) /\ DOMAIN consents = {}
      /\ commitments \in Seq(RecoveryCommitment) /\ DOMAIN commitments = {}
      /\ cases \in Seq(RecoveryCase) /\ DOMAIN cases = {}
      /\ releases \in Seq(OperatorRelease) /\ privacy \in Seq(PrivacyRequest)
      /\ enrolled = {}
  BY EmptySeq DEF IdentityInit
<1>. QED
  BY <1>2, <1>3 DEF IdentityInv, KeysInv, SharedKeyIsRecovered, ReleaseInv, OneRelease,
     ConsentInv, ConsentBound, RecoveryInv, RecoveryTypeOK, SingleUse, Backed

(* The whole core keeps IdentityInv: what Assurance guarantees holds with  *)
(* enrolment, recovery and deletion around it as well.                     *)
THEOREM IdentityInvariant == IdentitySpec => []IdentityInv
<1>1. IdentityInv /\ [IdentityNext]_coreVars => IdentityInv'
  BY NextKeepsIdentity
<1>. QED
  BY <1>1, IdentityInitInv, PTL DEF IdentitySpec

(* With every handler of the core, each step is one authority action or    *)
(* none: the authority invariants hold of the whole core.                  *)
THEOREM IdentityImplementsAuthority == IdentitySpec => AuthoritySpec
<1>1. IdentityInit => AuthorityInit
  BY DEF IdentityInit, NoAssuranceYet
<1>2. IdentityInv /\ [IdentityNext]_coreVars => [AuthorityNext]_authorityVars
  BY NextKeepsIdentity
<1>. QED
  BY <1>1, <1>2, IdentityInvariant, PTL DEF IdentitySpec, AuthoritySpec

(* The identity tables always hold well-formed rows that refer to rows     *)
(* that exist.                                                             *)
THEOREM IdentityTypeCorrect == IdentitySpec => []IdentityTypeOK
<1>1. IdentityInv => IdentityTypeOK
  BY InvCounts
<1>. QED
  BY <1>1, IdentityInvariant, PTL

(* From the bootstrap on exactly one release is active, however often      *)
(* operators replace it.                                                   *)
THEOREM OneReleaseAlways == IdentitySpec => []ReleaseNeverLost
<1>1. IdentityInv => ReleaseNeverLost
  BY InvCounts
<1>. QED
  BY <1>1, IdentityInvariant, PTL

(* No order of requests, rejections and approvals spends a recovery        *)
(* commitment twice or for another subject.                                *)
THEOREM RecoveryIsSingleUse == IdentitySpec => []CommitmentsSingleUse
<1>1. IdentityInv => CommitmentsSingleUse
  BY InvCounts
<1>. QED
  BY <1>1, IdentityInvariant, PTL

(* A pending recovery always has its open commitment behind it. *)
THEOREM RecoveryIsBacked == IdentitySpec => []PendingRecoveryIsBacked
<1>1. IdentityInv => PendingRecoveryIsBacked
  BY InvCounts
<1>. QED
  BY <1>1, IdentityInvariant, PTL

(* Two subjects share a key only after an approved recovery to it. *)
THEOREM KeysSharedByRecoveryOnly == IdentitySpec => []SharedKeyIsRecovered
<1>1. IdentityInv => SharedKeyIsRecovered
  BY DEF IdentityInv, KeysInv
<1>. QED
  BY <1>1, IdentityInvariant, PTL

(* A deletion ends the consents given before it: without key binding only  *)
(* a consent whose request the deletion overtook is live, and one at most. *)
THEOREM ConsentFollowsBinding == IdentitySpec => []ConsentEndsWithBinding
<1>1. IdentityInv => ConsentEndsWithBinding
  BY InvCounts
<1>. QED
  BY <1>1, IdentityInvariant, PTL

-----------------------------------------------------------------------------
(* The assurance properties in the whole core. *)

(* No step of the core softens a credential: only the assurance handlers,  *)
(* a claim and a processed privacy request touch one.                      *)
LEMMA CoreSoftensNone == IdentityInv /\ [IdentityNext]_coreVars => NoneSoftened
<1>. SUFFICES ASSUME IdentityInv, [IdentityNext]_coreVars PROVE NoneSoftened
  OBVIOUS
<1>. USE DEF IdentityInv
<1>1. ASSUME UNCHANGED credentials PROVE NoneSoftened
  BY <1>1 DEF NoneSoftened
<1>2. CASE AssuranceSteps
  BY <1>2, StepsKeepAssurance
<1>3. ASSUME \/ \E s \in Subjects, k \in Keys : CreateSubject(s, k)
             \/ \E s \in Subjects, k \in Keys, e \in 1..MaxTime + 1, rel \in Releases :
                   ActivateBootstrap(s, k, e, rel)
             \/ \E s \in enrolled, f \in BOOLEAN : AcceptConsent(s, f)
             \/ \E s \in enrolled : RegisterRecoveryCommitment(s)
             \/ \E s \in enrolled, k \in Keys : RequestRecovery(s, k)
             \/ \E s \in enrolled, kind \in AllPrivacyKinds : OpenPrivacyRequest(s, kind)
      PROVE  UNCHANGED credentials
  BY <1>3 DEF CreateSubject, ActivateBootstrap, AcceptConsent, RegisterRecoveryCommitment,
     RequestRecovery, OpenPrivacyRequest, allVars, assuranceVars, assuranceTables
<1>4. ASSUME \/ \E a \in Ids, rel \in Releases : RegisterOperatorRelease(a, rel)
             \/ \E a \in Ids, i \in DOMAIN cases, b \in BOOLEAN : DecideRecovery(a, i, b)
      PROVE  UNCHANGED credentials
  BY <1>4 DEF RegisterOperatorRelease, DecideRecovery, assuranceVars, assuranceTables
<1>5. ASSUME NEW s \in enrolled, NEW d \in claims, RequestConsentedClaim(s, d)
      PROVE  NoneSoftened
  BY <1>5, RequestKeepsInv DEF RequestConsentedClaim, KeysInv
<1>6. ASSUME NEW a \in Ids, NEW i \in DOMAIN privacy, NEW b \in BOOLEAN,
             ProcessPrivacyRequest(a, i, b)
      PROVE  NoneSoftened
  <2>1. privacy[i].subject \in Subjects
    BY <1>6, PrivacyRowsStay DEF ProcessPrivacyRequest, PrivacyRequest
  <2>2. CASE InvalidateSubjectState(a, privacy[i].subject, privacy[i].kind)
    BY <2>1, <2>2, InvalidateKeepsAssurance
  <2>3. CASE UNCHANGED assuranceVars
    BY <1>1, <2>3 DEF assuranceVars
  <2>. QED
    BY <1>6, <2>2, <2>3 DEF ProcessPrivacyRequest
<1>7. CASE UNCHANGED coreVars
  BY <1>1, <1>7 DEF coreVars, allVars, assuranceVars
<1>. QED
  BY <1>1, <1>2, <1>3, <1>4, <1>5, <1>6, <1>7 DEF IdentityNext

(* What Assurance guarantees of evidence and credentials holds in the      *)
(* whole core: enrolment, recovery to another key, a deleted subject that  *)
(* comes back and processed privacy requests do not break it.              *)
THEOREM CoreKeepsAssurance ==
    IdentitySpec => /\ [](/\ NoSelfCorroboration /\ AttestationsMetered
                          /\ OnlyAppealRestores /\ DeletedCannotCorroborate
                          /\ CredentialsFollowEvidence)
                    /\ CredentialNeverSoftens
<1>1. IdentityInv => /\ NoSelfCorroboration /\ AttestationsMetered
                     /\ OnlyAppealRestores /\ DeletedCannotCorroborate
                     /\ CredentialsFollowEvidence
  BY DEF IdentityInv, AssuranceInv, EvidenceInv, VerifierInv, DeletedCannotCorroborate
<1>2. IdentityInv /\ [IdentityNext]_coreVars => [NoneSoftened]_allVars
  BY CoreSoftensNone
<1>. QED
  BY <1>1, <1>2, IdentityInvariant, PTL
  DEF IdentitySpec, CredentialNeverSoftens, NoneSoftened

(* What Authority guarantees of grants holds in the whole core, where      *)
(* approved deletions and recoveries interleave with delegation.           *)
THEOREM CoreKeepsAuthority ==
    IdentitySpec => /\ []DelegationOnlyNarrows /\ []RootedAuthority
                    /\ []UseWithinCap /\ []CascadeComplete
                    /\ RevocationSparesAncestors /\ GrantTermsFixed
BY IdentityImplementsAuthority, DelegationNarrows, AuthorityIsRooted, CapsHold,
   CascadeHolds, RevocationIsSafe, TermsAreFixed, PTL
=============================================================================
