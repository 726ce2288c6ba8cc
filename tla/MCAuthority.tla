----------------------------- MODULE MCAuthority -----------------------------
(* Authority on a small instance. *)
EXTENDS RevocationLoop, TLC

CONSTANTS s1, s2, c1, m1

MCSubjects == {s1, s2}

Manage == {"grant_authority", "revoke_authority", "process_privacy"}

Offer(h, caps, ct, tier, e, cap, md) ==
    [holder |-> h, capabilities |-> caps, claimTypes |-> ct,
     methodClasses |-> {m1}, tier |-> tier, expires |-> e, usageCap |-> cap,
     canDelegate |-> TRUE, maxDepth |-> md, label |-> TRUE]

(* A steward, a capped delegate of lower expiry that may delegate once     *)
(* more, and a verifier that most issuers cannot appoint.                  *)
MCOffers ==
    UNION {{Offer(h, Manage, {Star}, 3, 2, None, 3),
            Offer(h, Manage \cup {"manage_claims"}, {c1}, 3, 1, 1, 2),
            Offer(h, {"attest_claim"}, {c1}, 2, 2, 1, 2)}
           : h \in MCSubjects}

MCPromotions ==
    {[tier |-> 3, capabilities |-> Manage, expires |-> 1, label |-> TRUE],
     [tier |-> 4, capabilities |-> Manage, expires |-> 2, label |-> TRUE]}

MCSymmetry == Permutations(MCSubjects)
=============================================================================
