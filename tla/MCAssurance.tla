----------------------------- MODULE MCAssurance -----------------------------
(***************************************************************************)
(* Assurance on small instances.  SeedInit is the state after the bootstrap *)
(* (holder kc), two delegations to the verifiers v1 and v2, the registration  *)
(* of one claim, its request by p, and an invitation and an introduction of *)
(* each verifier (v1 introduced by kc, v2 by v1).                           *)
(***************************************************************************)
EXTENDS Assurance, TLC

CONSTANTS kc, p, v1, v2, c1, m1, VerifierCap, SeedExpiry

MCSubjects == {kc, p, v1, v2}

Peer == [key |-> 1, claimType |-> c1, methodClass |-> m1,
         allowed |-> {"peer_attested", "bootstrap_vouched"}, required |-> {},
         minAttestations |-> 2, minPaths |-> 2, minAudits |-> 1]

Single == [Peer EXCEPT !.key = 2, !.minAttestations = 1, !.minPaths = 1, !.minAudits = 0]

PeerOnly == {Peer}
SingleOnly == {Single}

RootGrant ==
    [holder |-> kc, issuer |-> None, capabilities |-> AuthorityCapability,
     claimTypes |-> {Star}, methodClasses |-> {Star}, tier |-> Operator,
     basis |-> "bootstrap_designation", expires |-> SeedExpiry, usageCap |-> None,
     used |-> 0, canDelegate |-> TRUE, depth |-> 0, maxDepth |-> 4, revoked |-> "no"]

VerifierOffer(h) ==
    [holder |-> h, capabilities |-> {"attest_claim"}, claimTypes |-> {c1},
     methodClasses |-> {Star}, tier |-> 2, expires |-> SeedExpiry,
     usageCap |-> VerifierCap, canDelegate |-> FALSE, maxDepth |-> 1, label |-> FALSE]

VerifierGrant(h) ==
    [holder |-> h, issuer |-> 1, capabilities |-> {"attest_claim"},
     claimTypes |-> {c1}, methodClasses |-> {Star}, tier |-> 2,
     basis |-> "delegated", expires |-> SeedExpiry, usageCap |-> VerifierCap,
     used |-> 0, canDelegate |-> FALSE, depth |-> 1, maxDepth |-> 1, revoked |-> "no"]

(* A subject's own key is named after the subject. *)
MCInitialKey == [s \in Subjects |-> s]

NoOffers == {}
NoPromotions == {}

JourneySubjects == {kc, p, v1}
JourneyOffers == {VerifierOffer(v1)}
JourneyPromotions ==
    {[tier |-> 3, capabilities |-> {"attest_claim"}, expires |-> 1, label |-> TRUE]}

NoPrivacy == {}
DeleteVerifier == {<<v1, "deletion">>}

SeedInit ==
    /\ agr = 3 /\ now = 0
    /\ grants = <<RootGrant, VerifierGrant(v1), VerifierGrant(v2)>>
    /\ \E d \in Definitions :
          claims = {d} /\ requests = <<[subject |-> p, definition |-> d]>>
    /\ invitations = {[request |-> 1, verifier |-> h, expires |-> SeedExpiry] : h \in {v1, v2}}
    /\ introductions =
          {[request |-> 1, introducer |-> kc, verifier |-> v1, expires |-> SeedExpiry],
           [request |-> 1, introducer |-> v1, verifier |-> v2, expires |-> SeedExpiry]}
    /\ attestations = <<>> /\ audits = <<>> /\ challenges = <<>>
    /\ credentials = <<>> /\ keyOf = InitialKey

SeedSpec == SeedInit /\ [][AssuranceNext]_allVars
=============================================================================
