--------------------------- MODULE AuthorityProofs ---------------------------
(***************************************************************************)
(* Machine-checked proofs about Authority, for every set of subjects, of   *)
(* offers and of promotions and every bound.                               *)
(*                                                                         *)
(* The handlers compare a grant with its issuer only, so the inductive     *)
(* invariant AuthorityInv speaks about a grant and its issuer; what holds  *)
(* along whole chains follows from it because Subtree is the least set     *)
(* closed under issue: a closed set that holds the top of a subtree holds  *)
(* all of it.                                                              *)
(***************************************************************************)
EXTENDS Authority, TLAPS

(* Every grant but the root names an earlier grant as its issuer. *)
IssuerOK ==
    \A i \in Ids : IF i = 1 THEN grants[i].issuer = None
                            ELSE grants[i].issuer \in 1..(i - 1)

(* A grant stays within its issuer's terms and its own depth limit. *)
DirectNarrows ==
    \A i \in Ids : /\ grants[i].depth <= grants[i].maxDepth
                   /\ grants[i].issuer # None =>
                         Attenuates(grants[i], grants[grants[i].issuer])

(* What revoke_authority revoked has no child it did not revoke. *)
DirectCascade ==
    \A i \in Ids : /\ grants[i].issuer # None
                   /\ grants[grants[i].issuer].revoked = "authority"
                   => grants[i].revoked = "authority"

(* Every grant descends from the root grant. *)
Rooted == \A i \in Ids : i \in Subtree(1)

TermsInv == IssuerOK /\ DirectNarrows /\ Rooted

AuthorityInv == AuthorityTypeOK /\ TermsInv /\ UseWithinCap /\ DirectCascade

-----------------------------------------------------------------------------
(* Subtrees. *)

(* A grant is in its own subtree. *)
LEMMA SubtreeSelf == ASSUME NEW t \in Ids PROVE t \in Subtree(t)
BY DEF Subtree

(* A subtree is closed under issue. *)
LEMMA SubtreeClosed ==
    ASSUME NEW t \in Ids PROVE ClosedUnderIssue(Subtree(t))
BY DEF Subtree, ClosedUnderIssue

(* A subtree is the least closed set with its top. *)
LEMMA SubtreeLeast ==
    ASSUME NEW t \in Ids, NEW S, S \subseteq Ids, t \in S, ClosedUnderIssue(S)
    PROVE  Subtree(t) \subseteq S
BY DEF Subtree

(* Subtrees nest. *)
LEMMA SubtreeNests ==
    ASSUME NEW t \in Ids, NEW j \in Subtree(t)
    PROVE  Subtree(j) \subseteq Subtree(t)
<1>1. Subtree(t) \subseteq Ids /\ j \in Ids
  BY DEF Subtree
<1> QED BY <1>1, SubtreeClosed, SubtreeLeast

-----------------------------------------------------------------------------
(* Attenuation is a preorder on grants. *)

(* Every grant is within its own terms. *)
LEMMA AttenuatesReflexive ==
    ASSUME NEW g \in Grant PROVE Attenuates(g, g)
BY DEF Attenuates, ScopeSubset, Grant, AuthorityTier

(* A grant within the terms of one that is within a third's is within them. *)
LEMMA AttenuatesTransitive ==
    ASSUME NEW g \in Grant, NEW h \in Grant, NEW k \in Grant,
           Attenuates(g, h), Attenuates(h, k)
    PROVE  Attenuates(g, k)
BY DEF Attenuates, ScopeSubset, Grant, AuthorityTier

-----------------------------------------------------------------------------
(* What AuthorityInv says along a chain of delegations. *)

(* DelegationOnlyNarrows follows from the comparison with the issuer. *)
LEMMA NarrowsAlongChains == AuthorityInv => DelegationOnlyNarrows
<1> SUFFICES ASSUME AuthorityInv, NEW j \in Ids
             PROVE  \A i \in Subtree(j) : Attenuates(grants[i], grants[j])
  BY DEF DelegationOnlyNarrows
<1> DEFINE S == {i \in Ids : Attenuates(grants[i], grants[j])}
<1>1. \A i \in Ids : grants[i] \in Grant
  BY DEF AuthorityInv, AuthorityTypeOK
<1>2. j \in S
  BY <1>1, AttenuatesReflexive
<1>3. ClosedUnderIssue(S)
  <2> SUFFICES ASSUME NEW i \in Ids, grants[i].issuer \in S
               PROVE  i \in S
    BY DEF ClosedUnderIssue
  <2>1. grants[i].issuer # None
    BY NoneAssumption DEF Ids
  <2>2. Attenuates(grants[i], grants[grants[i].issuer])
    BY <2>1 DEF AuthorityInv, TermsInv, DirectNarrows
  <2> QED BY <1>1, <2>2, AttenuatesTransitive
<1> QED BY <1>2, <1>3, SubtreeLeast

(* A subtree holds its top and later grants only. *)
LEMMA SubtreeIsLater ==
    ASSUME AuthorityInv, NEW t \in Ids
    PROVE  \A i \in Subtree(t) : i >= t
<1> DEFINE S == {i \in Ids : i >= t}
<1>1. t \in S
  BY DEF Ids, AuthorityInv, AuthorityTypeOK
<1>2. ClosedUnderIssue(S)
  BY NoneAssumption DEF ClosedUnderIssue, AuthorityInv, TermsInv, IssuerOK, Ids, AuthorityTypeOK
<1> HIDE DEF S
<1>3. Subtree(t) \subseteq S
  BY <1>1, <1>2, SubtreeLeast DEF S
<1> QED BY <1>3 DEF S

(* CascadeComplete follows from the comparison with the issuer. *)
LEMMA CascadesAlongChains == AuthorityInv => CascadeComplete
<1> SUFFICES ASSUME AuthorityInv, NEW j \in Ids, grants[j].revoked = "authority"
             PROVE  \A i \in Subtree(j) : grants[i].revoked = "authority"
  BY DEF CascadeComplete
<1> DEFINE S == {i \in Ids : grants[i].revoked = "authority"}
<1>1. ClosedUnderIssue(S)
  BY NoneAssumption DEF ClosedUnderIssue, AuthorityInv, DirectCascade, Ids
<1> QED BY <1>1, SubtreeLeast

(* The bound on depth of RootedAuthority. *)
LEMMA RootedFromInv == AuthorityInv => RootedAuthority
<1> SUFFICES ASSUME AuthorityInv, NEW i \in Ids
             PROVE  i \in Subtree(1) /\ grants[i].depth <= grants[1].maxDepth
  BY DEF RootedAuthority
<1>1. i \in Subtree(1) /\ 1 \in Ids
  BY DEF AuthorityInv, TermsInv, Rooted, AuthorityTypeOK, Ids
<1>2. Attenuates(grants[i], grants[1])
  BY <1>1, NarrowsAlongChains DEF DelegationOnlyNarrows
<1> QED
  BY <1>1, <1>2 DEF Attenuates, AuthorityInv, TermsInv, AuthorityTypeOK, DirectNarrows, Grant

-----------------------------------------------------------------------------
(* Two shapes of step: one that changes counters and revocation marks, and *)
(* one that adds a grant.                                                  *)

(* Metering a grant keeps its terms and its revocation state. *)
LEMMA MeteredTerms ==
    ASSUME NEW g \in Grant
    PROVE  /\ Metered(g) \in Grant /\ SameTerms(g, Metered(g))
           /\ Metered(g).revoked = g.revoked
           /\ Metered(g).used \in {g.used, g.used + 1}
           /\ g.usageCap = None => Metered(g) = g
BY DEF Metered, SameTerms, Grant

(* Counters and marks do not touch the terms invariants. *)
LEMMA UpdateKeepsTerms ==
    ASSUME AuthorityTypeOK, TermsInv, agr' = agr, grants' \in [Ids -> Grant],
           \A i \in Ids : SameTerms(grants[i], grants'[i])
    PROVE  TermsInv'
<1>1. \A i \in Ids : grants[i] \in Grant /\ grants'[i] \in Grant
  BY DEF AuthorityTypeOK
<1>2. Ids' = Ids
  BY DEF Ids
<1>3. \A i \in Ids : grants'[i].issuer = grants[i].issuer
  BY <1>1 DEF SameTerms
<1>4. IssuerOK'
  BY <1>2, <1>3 DEF TermsInv, IssuerOK
<1>5. DirectNarrows'
  <2> SUFFICES ASSUME NEW i \in Ids
               PROVE  /\ grants'[i].depth <= grants'[i].maxDepth
                      /\ grants'[i].issuer # None =>
                            Attenuates(grants'[i], grants'[grants'[i].issuer])
    BY <1>2 DEF DirectNarrows
  <2>1. grants'[i].depth <= grants'[i].maxDepth
    BY <1>1 DEF SameTerms, TermsInv, DirectNarrows
  <2>2. ASSUME grants'[i].issuer # None
        PROVE  Attenuates(grants'[i], grants'[grants'[i].issuer])
    <3> DEFINE j == grants[i].issuer
    <3>1. grants'[i].issuer = j /\ j # None /\ j \in Ids
      BY <1>3, <2>2 DEF TermsInv, IssuerOK, Ids, AuthorityTypeOK
    <3>2. Attenuates(grants[i], grants[j])
      BY <3>1 DEF TermsInv, DirectNarrows
    <3> HIDE DEF j
    <3> QED BY <1>1, <3>1, <3>2 DEF SameTerms, Attenuates
  <2> QED BY <2>1, <2>2
<1>6. Rooted'
  BY <1>2, <1>3 DEF TermsInv, Rooted, Subtree, ClosedUnderIssue
<1> QED BY <1>4, <1>5, <1>6 DEF TermsInv

(* A new grant within the terms of an issuer in the table keeps them. *)
LEMMA ExtendKeepsTerms ==
    ASSUME AuthorityTypeOK, TermsInv, agr' = agr + 1, agr >= 1,
           NEW table \in [Ids -> Grant],
           \A i \in Ids : SameTerms(grants[i], table[i]),
           NEW g \in Grant, grants' = WithGrant(table, g), g.issuer \in Ids,
           Attenuates(g, grants[g.issuer]), g.depth <= g.maxDepth
    PROVE  TermsInv'
<1> DEFINE n == agr + 1
<1>1. /\ agr \in Nat /\ n \in Nat /\ n \notin Ids /\ 1 \in Ids
      /\ Ids' = Ids \cup {n}
  BY DEF AuthorityTypeOK, Ids
<1>2. /\ \A i \in Ids : grants'[i] = table[i]
      /\ grants'[n] = g
  BY <1>1 DEF WithGrant, Ids
<1>3. \A i \in Ids : grants[i] \in Grant /\ table[i] \in Grant
  BY DEF AuthorityTypeOK
<1>4. \A i \in Ids : grants'[i].issuer = grants[i].issuer
  BY <1>2, <1>3 DEF SameTerms
<1>5. IssuerOK'
  BY <1>1, <1>2, <1>4 DEF TermsInv, IssuerOK, Ids
<1>6. DirectNarrows'
  <2> SUFFICES ASSUME NEW i \in Ids'
               PROVE  /\ grants'[i].depth <= grants'[i].maxDepth
                      /\ grants'[i].issuer # None =>
                            Attenuates(grants'[i], grants'[grants'[i].issuer])
    BY DEF DirectNarrows
  <2>1. CASE i = n
    <3>1. Attenuates(g, table[g.issuer])
      BY <1>3 DEF SameTerms, Attenuates
    <3> QED BY <1>2, <2>1, <3>1
  <2>2. CASE i \in Ids
    <3>1. grants'[i].depth <= grants'[i].maxDepth
      BY <1>2, <1>3, <2>2 DEF SameTerms, TermsInv, DirectNarrows
    <3>2. ASSUME grants'[i].issuer # None
          PROVE  Attenuates(grants'[i], grants'[grants'[i].issuer])
      <4> DEFINE j == grants[i].issuer
      <4>1. grants'[i].issuer = j /\ j # None /\ j \in Ids
        BY <1>1, <1>4, <2>2, <3>2 DEF TermsInv, IssuerOK, Ids
      <4>2. Attenuates(grants[i], grants[j])
        BY <2>2, <4>1 DEF TermsInv, DirectNarrows
      <4> HIDE DEF j
      <4> QED BY <1>2, <1>3, <2>2, <4>1, <4>2 DEF SameTerms, Attenuates
    <3> QED BY <3>1, <3>2
  <2> QED BY <1>1, <2>1, <2>2
<1>7. Rooted'
  <2> SUFFICES ASSUME NEW S \in SUBSET (Ids'), 1 \in S, ClosedUnderIssue(S)'
               PROVE  Ids' \subseteq S
    BY DEF Rooted, Subtree
  <2> DEFINE T == S \cap Ids
  <2>1. \A i \in Ids' : grants'[i].issuer \in S => i \in S
    BY DEF ClosedUnderIssue
  <2>2. ClosedUnderIssue(T)
    BY <1>1, <1>4, <2>1 DEF ClosedUnderIssue
  <2>3. 1 \in T
    BY <1>1
  <2> HIDE DEF T
  <2>4. Ids \subseteq T
    BY <2>2, <2>3 DEF TermsInv, Rooted, Subtree, T
  <2>5. n \in S
    BY <1>1, <1>2, <2>1, <2>4 DEF T
  <2> QED BY <1>1, <2>4, <2>5 DEF T
<1> QED BY <1>5, <1>6, <1>7 DEF TermsInv

-----------------------------------------------------------------------------
(* The parts that the actions share. *)

(* What _consume_authority does to the table when the grant is below its   *)
(* cap.                                                                    *)
LEMMA ConsumedTable ==
    ASSUME AuthorityTypeOK, UseWithinCap, NEW a \in Ids, BelowCap(grants[a])
    PROVE  /\ Consumed(a) \in [Ids -> Grant]
           /\ \A i \in Ids :
                 LET g == Consumed(a)[i] IN
                 /\ SameTerms(grants[i], g) /\ g.revoked = grants[i].revoked
                 /\ g.used >= grants[i].used
                 /\ g.usageCap # None => g.used <= g.usageCap
<1>1. \A i \in Ids : grants[i] \in Grant
  BY DEF AuthorityTypeOK
<1>2. /\ Consumed(a)[a] = Metered(grants[a])
      /\ \A i \in Ids : i # a => Consumed(a)[i] = grants[i]
      /\ Metered(grants[a]) \in Grant
      /\ Consumed(a) \in [Ids -> Grant]
  BY <1>1, MeteredTerms DEF Consumed, AuthorityTypeOK
<1> SUFFICES ASSUME NEW i \in Ids
             PROVE  LET g == Consumed(a)[i] IN
                    /\ SameTerms(grants[i], g) /\ g.revoked = grants[i].revoked
                    /\ g.used >= grants[i].used
                    /\ g.usageCap # None => g.used <= g.usageCap
  BY <1>2
<1>3. CASE i = a
  <2>1. /\ SameTerms(grants[a], Metered(grants[a]))
        /\ Metered(grants[a]).revoked = grants[a].revoked
        /\ Metered(grants[a]).used >= grants[a].used
    BY <1>1, MeteredTerms DEF Grant
  <2>2. ASSUME grants[a].usageCap # None
        PROVE  Metered(grants[a]).used <= grants[a].usageCap
    BY <1>1, <2>2 DEF Metered, BelowCap, Grant
  <2> QED BY <1>2, <1>3, <2>1, <2>2 DEF SameTerms
<1>4. CASE i # a
  BY <1>1, <1>2, <1>4 DEF SameTerms, Grant, UseWithinCap
<1> QED BY <1>3, <1>4

(* A step that meters grant a and sets revocation marks keeps all of the   *)
(* invariant but the cascade, and never lowers a counter.                  *)
LEMMA MarkStep ==
    ASSUME AuthorityInv, NEW a \in Ids, BelowCap(grants[a]),
           UNCHANGED <<agr, now>>, NEW R \in SUBSET Ids,
           NEW mark \in {"authority", "privacy"},
           grants' = [i \in Ids |-> IF i \in R
                                   THEN [Consumed(a)[i] EXCEPT !.revoked = mark]
                                   ELSE Consumed(a)[i]]
    PROVE  /\ AuthorityTypeOK' /\ TermsInv' /\ UseWithinCap'
           /\ \A i \in Ids :
                 /\ SameTerms(grants[i], grants'[i])
                 /\ grants'[i].used >= grants[i].used
                 /\ i \in R => grants'[i].revoked = mark
                 /\ i \notin R => grants'[i].revoked = grants[i].revoked
<1> USE DEF AuthorityInv
<1>1. \A i \in Ids : /\ Consumed(a)[i] \in Grant
                     /\ SameTerms(grants[i], Consumed(a)[i])
                     /\ Consumed(a)[i].revoked = grants[i].revoked
                     /\ Consumed(a)[i].used >= grants[i].used
                     /\ Consumed(a)[i].usageCap # None
                        => Consumed(a)[i].used <= Consumed(a)[i].usageCap
  BY ConsumedTable
<1>2. ASSUME NEW g \in Grant
      PROVE  LET h == [g EXCEPT !.revoked = mark] IN
             /\ h \in Grant /\ SameTerms(g, h) /\ h.used = g.used
             /\ h.revoked = mark
  BY DEF Grant, SameTerms
<1>3. ASSUME NEW i \in Ids
      PROVE  /\ grants'[i] \in Grant /\ SameTerms(grants[i], grants'[i])
             /\ grants'[i].used >= grants[i].used
             /\ grants'[i].usageCap # None => grants'[i].used <= grants'[i].usageCap
             /\ i \in R => grants'[i].revoked = mark
             /\ i \notin R => grants'[i].revoked = grants[i].revoked
  <2>1. CASE i \in R
    <3> DEFINE c == Consumed(a)[i]
    <3>1. grants'[i] = [c EXCEPT !.revoked = mark]
      BY <2>1
    <3>2. c \in Grant
      BY <1>1
    <3>3. /\ grants'[i] \in Grant /\ SameTerms(c, grants'[i])
          /\ grants'[i].used = c.used /\ grants'[i].revoked = mark
      BY <1>2, <3>1, <3>2
    <3>4. SameTerms(grants[i], grants'[i])
      BY <1>1, <3>3 DEF SameTerms
    <3>5. grants'[i].usageCap = c.usageCap
      BY <3>3 DEF SameTerms
    <3> QED BY <1>1, <2>1, <3>3, <3>4, <3>5
  <2>2. CASE i \notin R
    BY <1>1, <2>2
  <2> QED BY <2>1, <2>2
<1>4. Ids' = Ids /\ DOMAIN grants' = Ids
  BY DEF Ids
<1>5. grants' \in [Ids -> Grant]
  BY <1>3, <1>4
<1>6. AuthorityTypeOK'
  BY <1>4, <1>5 DEF AuthorityTypeOK
<1>7. TermsInv'
  BY <1>3, <1>5, UpdateKeepsTerms
<1>8. UseWithinCap'
  BY <1>3, <1>4 DEF UseWithinCap
<1> QED BY <1>3, <1>6, <1>7, <1>8

-----------------------------------------------------------------------------
(* The invariant holds initially and every action keeps it. *)

(* The empty grant table satisfies the invariant. *)
LEMMA InitEstablishesInv == AuthorityInit => AuthorityInv
<1> SUFFICES ASSUME AuthorityInit PROVE AuthorityInv
  OBVIOUS
<1>1. Ids = {}
  BY DEF AuthorityInit, Ids
<1>2. AuthorityTypeOK
  BY <1>1, BoundsAssumption DEF AuthorityInit, AuthorityTypeOK, Ids
<1> QED
  BY <1>1, <1>2 DEF AuthorityInv, TermsInv, IssuerOK, DirectNarrows, Rooted,
                    UseWithinCap, DirectCascade

(* bootstrap_authority makes the root of an empty table. *)
LEMMA BootstrapKeepsInv ==
    ASSUME AuthorityInv, NEW s \in Subjects, NEW e \in Nat, BootstrapAuthority(s, e)
    PROVE  AuthorityInv'
<1>1. agr = 0 /\ agr' = 1 /\ Ids = {} /\ Ids' = {1} /\ now' = now
  BY DEF BootstrapAuthority, Ids
<1>2. /\ grants' \in [Ids' -> Grant] /\ grants'[1].issuer = None
      /\ grants'[1].depth = 0 /\ grants'[1].maxDepth = 4
      /\ grants'[1].usageCap = None
  BY <1>1 DEF BootstrapAuthority, WithGrant, Grant, AuthorityTier, Operator,
              AuthorityBasis, ClaimScopes, MethodScopes
<1>3. AuthorityTypeOK'
  BY <1>1, <1>2, BoundsAssumption DEF BootstrapAuthority, AuthorityTypeOK, AuthorityInv
<1>4. TermsInv'
  BY <1>1, <1>2 DEF TermsInv, IssuerOK, DirectNarrows, Rooted, Subtree
<1>5. UseWithinCap' /\ DirectCascade'
  BY <1>1, <1>2 DEF UseWithinCap, DirectCascade
<1> QED BY <1>3, <1>4, <1>5 DEF AuthorityInv

(* grant_authority: the new grant is within its issuer's terms. *)
LEMMA GrantKeepsInv ==
    ASSUME AuthorityInv, NEW a \in Ids, NEW o \in OfferType,
           NEW basis \in AuthorityBasis, GrantAuthority(a, o, basis)
    PROVE  AuthorityInv'
<1> DEFINE g == DelegatedGrant(a, o, basis)
           n == agr + 1
<1>1. /\ MayDelegate(a, o) /\ BelowCap(grants[a]) /\ grants[a] \in Grant
      /\ agr \in Nat /\ agr >= 1 /\ agr < MaxGrants /\ a \in Nat
      /\ grants[a].revoked = "no"
  BY BoundsAssumption DEF GrantAuthority, MayDelegate, ValidateAuthority, ValidateScoped,
            GrantIsActive, AuthorityInv, AuthorityTypeOK, Ids
<1>2. agr' = agr + 1 /\ now' = now /\ grants' = WithGrant(Consumed(a), g)
  BY DEF GrantAuthority
<1>3. g \in Grant
  BY <1>1 DEF DelegatedGrant, Grant, OfferType
<1>4. g.issuer = a /\ Attenuates(g, grants[a]) /\ g.depth <= g.maxDepth
  BY <1>1 DEF DelegatedGrant, MayDelegate, Attenuates, OfferType, Grant
<1>5. /\ Consumed(a) \in [Ids -> Grant]
      /\ \A i \in Ids : /\ SameTerms(grants[i], Consumed(a)[i])
                        /\ Consumed(a)[i].revoked = grants[i].revoked
                        /\ Consumed(a)[i].usageCap # None
                           => Consumed(a)[i].used <= Consumed(a)[i].usageCap
  BY <1>1, ConsumedTable DEF AuthorityInv
<1>6. g.usageCap # None => g.used <= g.usageCap
  BY <1>1 DEF DelegatedGrant, OfferType
<1> HIDE DEF g
<1>7. /\ Ids' = Ids \cup {n} /\ n \notin Ids /\ DOMAIN grants' = Ids'
      /\ \A i \in Ids : grants'[i] = Consumed(a)[i]
      /\ grants'[n] = g
  BY <1>1, <1>2 DEF WithGrant, Ids
<1>8. AuthorityTypeOK'
  <2>1. agr' \in 0..MaxGrants /\ now' \in 0..MaxTime
    BY <1>1, <1>2, BoundsAssumption DEF AuthorityInv, AuthorityTypeOK
  <2>2. grants' \in [Ids' -> Grant]
    BY <1>2, <1>3, <1>5, <1>7 DEF WithGrant, Ids
  <2> QED BY <2>1, <2>2 DEF AuthorityTypeOK
<1>9. TermsInv'
  BY <1>1, <1>2, <1>3, <1>4, <1>5, ExtendKeepsTerms DEF AuthorityInv
<1>10. UseWithinCap'
  BY <1>5, <1>6, <1>7 DEF UseWithinCap
<1>11. DirectCascade'
  <2> SUFFICES ASSUME NEW i \in Ids', grants'[i].issuer # None,
                      grants'[grants'[i].issuer].revoked = "authority"
               PROVE  grants'[i].revoked = "authority"
    BY DEF DirectCascade
  <2>1. CASE i = n
    BY <1>1, <1>4, <1>5, <1>7, <2>1
  <2>2. CASE i \in Ids
    <3>1. grants'[i].issuer = grants[i].issuer /\ grants'[i].revoked = grants[i].revoked
      BY <1>5, <1>7, <2>2 DEF SameTerms
    <3>2. grants[i].issuer \in Ids
      BY <1>1, <2>2, <3>1 DEF AuthorityInv, TermsInv, IssuerOK, Ids
    <3> QED BY <1>5, <1>7, <2>2, <3>1, <3>2 DEF AuthorityInv, DirectCascade
  <2> QED BY <1>7, <2>1, <2>2
<1> QED BY <1>8, <1>9, <1>10, <1>11 DEF AuthorityInv

(* promote_authority goes through grant_authority. *)
LEMMA PromoteKeepsInv ==
    ASSUME AuthorityInv, NEW a \in Ids, NEW s \in Subjects,
           NEW src \in SUBSET Ids, NEW p \in Promotions,
           PromoteAuthority(a, s, src, p)
    PROVE  AuthorityInv'
<1> DEFINE o == PromotionOffer(a, s, src, p)
<1>1. p \in PromotionType /\ \A i \in Ids : grants[i] \in Grant
  BY PromotionsAssumption DEF AuthorityInv, AuthorityTypeOK
<1>2. /\ UNION {grants[i].claimTypes : i \in src} \in ClaimScopes
      /\ UNION {grants[i].methodClasses : i \in src} \in MethodScopes
  BY <1>1 DEF Grant, ClaimScopes, MethodScopes
<1>3. o \in OfferType
  BY <1>1, <1>2 DEF PromotionOffer, OfferType, PromotionType, Grant
<1>4. GrantAuthority(a, o, "audited_promotion")
  BY DEF PromoteAuthority
<1> QED BY <1>3, <1>4, GrantKeepsInv DEF AuthorityBasis

(* revoke_authority marks a set that is closed under issue. *)
LEMMA RevokeKeepsInv ==
    ASSUME AuthorityInv, NEW a \in Ids, NEW t \in Ids, RevokeAuthority(a, t)
    PROVE  AuthorityInv'
<1> DEFINE R == Subtree(t)
<1>1. /\ BelowCap(grants[a]) /\ UNCHANGED <<agr, now>> /\ R \in SUBSET Ids
      /\ grants' = [i \in Ids |-> IF i \in R
                       THEN [Consumed(a)[i] EXCEPT !.revoked = "authority"]
                       ELSE Consumed(a)[i]]
  BY DEF RevokeAuthority, MayRevoke, MarkRevoked, ValidateAuthority, ValidateScoped, Subtree
<1>2. ClosedUnderIssue(R)
  BY SubtreeClosed
<1> HIDE DEF R
<1>3. /\ AuthorityTypeOK' /\ TermsInv' /\ UseWithinCap'
      /\ \A i \in Ids : /\ SameTerms(grants[i], grants'[i])
                        /\ i \in R => grants'[i].revoked = "authority"
                        /\ i \notin R => grants'[i].revoked = grants[i].revoked
  BY <1>1, MarkStep
<1>4. DirectCascade'
  <2> SUFFICES ASSUME NEW i \in Ids, grants'[i].issuer # None,
                      grants'[grants'[i].issuer].revoked = "authority"
               PROVE  grants'[i].revoked = "authority"
    BY <1>1 DEF DirectCascade, Ids
  <2>1. grants'[i].issuer = grants[i].issuer /\ grants[i].issuer \in Ids
    BY <1>3 DEF SameTerms, AuthorityInv, AuthorityTypeOK, TermsInv, IssuerOK, Ids
  <2>2. CASE grants[i].issuer \in R
    BY <1>2, <1>3, <2>2 DEF ClosedUnderIssue
  <2>3. CASE grants[i].issuer \notin R
    BY <1>3, <2>1, <2>3 DEF AuthorityInv, DirectCascade
  <2> QED BY <2>2, <2>3
<1> QED BY <1>3, <1>4 DEF AuthorityInv

(* A step that puts no "authority" mark and lifts none keeps the cascade. *)
LEMMA OtherMarksKeepCascade ==
    ASSUME AuthorityInv, agr' = agr,
           \A i \in Ids : /\ SameTerms(grants[i], grants'[i])
                          /\ grants'[i].revoked = "authority"
                             <=> grants[i].revoked = "authority"
    PROVE  DirectCascade'
<1> SUFFICES ASSUME NEW i \in Ids, grants'[i].issuer # None,
                    grants'[grants'[i].issuer].revoked = "authority"
             PROVE  grants'[i].revoked = "authority"
  BY DEF DirectCascade, Ids
<1>1. SameTerms(grants[i], grants'[i])
  OBVIOUS
<1>2. grants'[i].issuer = grants[i].issuer
  BY <1>1 DEF SameTerms
<1>3. grants[i].issuer \in Ids
  BY <1>2 DEF AuthorityInv, AuthorityTypeOK, TermsInv, IssuerOK, Ids
<1>4. grants[grants[i].issuer].revoked = "authority"
  BY <1>2, <1>3
<1>5. grants[i].revoked = "authority"
  BY <1>2, <1>4 DEF AuthorityInv, DirectCascade
<1> QED BY <1>5

(* _consume_authority counts a use below the cap. *)
LEMMA UseKeepsInv ==
    ASSUME AuthorityInv, NEW a \in Ids, NEW c, NEW ct, NEW m, UseAuthority(a, c, ct, m)
    PROVE  AuthorityInv'
<1> DEFINE R == {}
<1>1. BelowCap(grants[a]) /\ UNCHANGED <<agr, now>> /\ grants' = Consumed(a)
  BY DEF UseAuthority, ValidateScoped
<1>2. grants' = [i \in Ids |-> IF i \in R
                   THEN [Consumed(a)[i] EXCEPT !.revoked = "privacy"]
                   ELSE Consumed(a)[i]]
  BY <1>1, ConsumedTable DEF AuthorityInv
<1>3. R \in SUBSET Ids /\ \A i \in Ids : i \notin R
  OBVIOUS
<1> HIDE DEF R
<1>4. /\ AuthorityTypeOK' /\ TermsInv' /\ UseWithinCap'
      /\ \A i \in Ids : /\ SameTerms(grants[i], grants'[i])
                        /\ i \notin R => grants'[i].revoked = grants[i].revoked
  BY <1>1, <1>2, <1>3, MarkStep
<1>5. DirectCascade'
  BY <1>1, <1>3, <1>4, OtherMarksKeepCascade
<1> QED BY <1>4, <1>5 DEF AuthorityInv

(* An approved privacy request marks the grants of one holder. *)
LEMMA InvalidateKeepsInv ==
    ASSUME AuthorityInv, NEW a \in Ids, NEW s \in Subjects, InvalidateHolder(a, s)
    PROVE  AuthorityInv'
<1> DEFINE R == {i \in Ids : grants[i].holder = s /\ grants[i].revoked = "no"}
<1>1. /\ BelowCap(grants[a]) /\ UNCHANGED <<agr, now>> /\ R \in SUBSET Ids
      /\ grants' = [i \in Ids |-> IF i \in R
                       THEN [Consumed(a)[i] EXCEPT !.revoked = "privacy"]
                       ELSE Consumed(a)[i]]
  BY DEF InvalidateHolder, ValidateAuthority, ValidateScoped
<1>2. \A i \in R : grants[i].revoked = "no"
  OBVIOUS
<1> HIDE DEF R
<1>3. /\ AuthorityTypeOK' /\ TermsInv' /\ UseWithinCap'
      /\ \A i \in Ids : /\ SameTerms(grants[i], grants'[i])
                        /\ i \in R => grants'[i].revoked = "privacy"
                        /\ i \notin R => grants'[i].revoked = grants[i].revoked
  BY <1>1, MarkStep
<1>4. DirectCascade'
  BY <1>1, <1>2, <1>3, OtherMarksKeepCascade
<1> QED BY <1>3, <1>4 DEF AuthorityInv

(* Every step of the grant table keeps the invariant. *)
LEMMA NextKeepsInv == AuthorityInv /\ [AuthorityNext]_authorityVars => AuthorityInv'
<1> SUFFICES ASSUME AuthorityInv, [AuthorityNext]_authorityVars PROVE AuthorityInv'
  OBVIOUS
<1>1. ASSUME NEW s \in Subjects, NEW e \in 1..MaxTime + 1, BootstrapAuthority(s, e)
      PROVE  AuthorityInv'
  BY <1>1, BootstrapKeepsInv, BoundsAssumption
<1>2. ASSUME NEW a \in Ids, NEW o \in Offers, GrantAuthority(a, o, "delegated")
      PROVE  AuthorityInv'
  BY <1>2, GrantKeepsInv, OffersAssumption DEF AuthorityBasis
<1>3. ASSUME NEW a \in Ids, NEW s \in Subjects, NEW src \in SUBSET Ids,
             NEW p \in Promotions, PromoteAuthority(a, s, src, p)
      PROVE  AuthorityInv'
  BY <1>3, PromoteKeepsInv
<1>4. ASSUME NEW a \in Ids, NEW t \in Ids, RevokeAuthority(a, t) PROVE AuthorityInv'
  BY <1>4, RevokeKeepsInv
<1>5. ASSUME NEW a \in Ids,
             \/ \E ct \in ClaimTypes, m \in MethodClasses :
                   UseAuthority(a, "attest_claim", ct, m)
             \/ \E ct \in ClaimTypes : UseAuthority(a, "manage_claims", ct, None)
             \/ \E c \in UnscopedUses : UseAuthority(a, c, None, None)
      PROVE  AuthorityInv'
  BY <1>5, UseKeepsInv
<1>6. ASSUME NEW a \in Ids, NEW s \in Subjects, InvalidateHolder(a, s)
      PROVE  AuthorityInv'
  BY <1>6, InvalidateKeepsInv
<1>7. CASE Tick \/ UNCHANGED authorityVars
  <2>1. /\ agr' = agr /\ grants' = grants /\ Ids' = Ids
        /\ now' \in 0..MaxTime
    BY <1>7, BoundsAssumption DEF Tick, authorityVars, AuthorityInv, AuthorityTypeOK, Ids
  <2>2. AuthorityTypeOK' /\ UseWithinCap' /\ DirectCascade'
    BY <2>1 DEF AuthorityInv, AuthorityTypeOK, UseWithinCap, DirectCascade
  <2>3. TermsInv'
    BY <2>1, UpdateKeepsTerms DEF AuthorityInv, AuthorityTypeOK, SameTerms
  <2> QED BY <2>2, <2>3 DEF AuthorityInv
<1> QED
  BY <1>1, <1>2, <1>3, <1>4, <1>5, <1>6, <1>7 DEF AuthorityNext, OtherNext

-----------------------------------------------------------------------------
(* The theorems. *)

(* AuthorityInv is an invariant of every behaviour of the grant table:      *)
(* each handler re-establishes it from what it compares with the issuer.    *)
THEOREM AuthorityInvariant == AuthoritySpec => []AuthorityInv
BY InitEstablishesInv, NextKeepsInv, PTL DEF AuthoritySpec

(* Type correctness of the grant table. *)
THEOREM AuthorityTypeCorrect == AuthoritySpec => []AuthorityTypeOK
<1>1. AuthorityInv => AuthorityTypeOK
  BY DEF AuthorityInv
<1> QED BY <1>1, AuthorityInvariant, PTL

(* Delegation and promotion only narrow, along chains of any length: the    *)
(* checks of grant_authority against the issuer suffice.                    *)
THEOREM DelegationNarrows == AuthoritySpec => []DelegationOnlyNarrows
BY NarrowsAlongChains, AuthorityInvariant, PTL

(* All authority descends from the root and stays within its depth.         *)
THEOREM AuthorityIsRooted == AuthoritySpec => []RootedAuthority
BY RootedFromInv, AuthorityInvariant, PTL

(* No usage cap is exceeded. *)
THEOREM CapsHold == AuthoritySpec => []UseWithinCap
<1>1. AuthorityInv => UseWithinCap
  BY DEF AuthorityInv
<1> QED BY <1>1, AuthorityInvariant, PTL

(* The cascade of revoke_authority is complete and stays so. *)
THEOREM CascadeHolds == AuthoritySpec => []CascadeComplete
BY CascadesAlongChains, AuthorityInvariant, PTL

(* One revocation leaves the actor's grant and all grants above it alone:   *)
(* by narrowing no grant below the target outranks it, and ids grow along   *)
(* a chain, so the actor is not below its target.                           *)
LEMMA RevokeSpares ==
    ASSUME AuthorityInv, NEW a \in Ids, NEW t \in Ids, RevokeAuthority(a, t),
           NEW j \in Ids, a \in Subtree(j)
    PROVE  grants'[j].revoked = grants[j].revoked
<1> DEFINE R == Subtree(t)
<1>1. /\ BelowCap(grants[a]) /\ UNCHANGED <<agr, now>> /\ R \in SUBSET Ids
      /\ grants' = [i \in Ids |-> IF i \in R
                       THEN [Consumed(a)[i] EXCEPT !.revoked = "authority"]
                       ELSE Consumed(a)[i]]
      /\ grants[t].issuer = a \/ grants[a].tier > grants[t].tier
  BY DEF RevokeAuthority, MayRevoke, MarkRevoked, ValidateAuthority, ValidateScoped, Subtree
<1>2. a \notin R
  <2> SUFFICES ASSUME a \in R PROVE FALSE
    OBVIOUS
  <2>1. grants[a].tier <= grants[t].tier
    BY NarrowsAlongChains DEF DelegationOnlyNarrows, Attenuates
  <2>2. grants[t].issuer = a
    BY <1>1, <2>1 DEF AuthorityInv, AuthorityTypeOK, Grant, AuthorityTier
  <2>3. a < t
    BY <2>2, NoneAssumption DEF AuthorityInv, AuthorityTypeOK, TermsInv, IssuerOK, Ids
  <2>4. a >= t
    BY SubtreeIsLater
  <2> QED BY <2>3, <2>4 DEF AuthorityInv, AuthorityTypeOK, Ids
<1>3. j \notin R
  BY <1>2, SubtreeNests
<1> HIDE DEF R
<1> QED BY <1>1, <1>3, MarkStep

(* revoke_authority never cuts the branch its actor stands on.              *)
THEOREM RevocationIsSafe == AuthoritySpec => RevocationSparesAncestors
<1> DEFINE A == \A a, t \in Ids : RevokeAuthority(a, t) =>
                   \A j \in Ids : a \in Subtree(j) => grants'[j].revoked = grants[j].revoked
<1>1. AuthorityInv /\ [AuthorityNext]_authorityVars => [A]_authorityVars
  BY RevokeSpares
<1> QED
  BY <1>1, AuthorityInvariant, PTL DEF AuthoritySpec, RevocationSparesAncestors

-----------------------------------------------------------------------------
(* What no step of the grant table does. *)

(* The grants that stay: none loses its id, its revocation or a use, and   *)
(* none changes its terms.                                                 *)
TermsFixed ==
    \A i \in Ids :
        /\ i \in Ids'
        /\ grants[i].revoked # "no" => grants'[i].revoked # "no"
        /\ grants'[i].used >= grants[i].used
        /\ SameTerms(grants[i], grants'[i])

(* A new grant leaves the others as _consume_authority left them. *)
LEMMA GrantFixesTerms ==
    ASSUME AuthorityInv, NEW a \in Ids, NEW o, NEW basis, GrantAuthority(a, o, basis)
    PROVE  TermsFixed
<1>1. /\ agr \in Nat /\ agr' = agr + 1 /\ BelowCap(grants[a])
      /\ grants' = WithGrant(Consumed(a), DelegatedGrant(a, o, basis))
  BY DEF GrantAuthority, MayDelegate, ValidateAuthority, ValidateScoped,
         AuthorityInv, AuthorityTypeOK
<1>2. \A i \in Ids : i \in Ids' /\ grants'[i] = Consumed(a)[i]
  BY <1>1 DEF WithGrant, Ids
<1>3. \A i \in Ids : /\ SameTerms(grants[i], Consumed(a)[i])
                     /\ Consumed(a)[i].revoked = grants[i].revoked
                     /\ Consumed(a)[i].used >= grants[i].used
  BY <1>1, ConsumedTable DEF AuthorityInv
<1> QED BY <1>2, <1>3 DEF TermsFixed

(* Every step of the grant table leaves the terms of the grants alone. *)
LEMMA NextFixesTerms == AuthorityInv /\ [AuthorityNext]_authorityVars => TermsFixed
<1> SUFFICES ASSUME AuthorityInv, [AuthorityNext]_authorityVars PROVE TermsFixed
  OBVIOUS
<1>1. ASSUME NEW s \in Subjects, NEW e, BootstrapAuthority(s, e) PROVE TermsFixed
  BY <1>1 DEF BootstrapAuthority, TermsFixed, Ids
<1>2. ASSUME NEW a \in Ids, NEW o, NEW basis, GrantAuthority(a, o, basis) PROVE TermsFixed
  BY <1>2, GrantFixesTerms
<1>3. ASSUME NEW a \in Ids, NEW s, NEW src, NEW p, PromoteAuthority(a, s, src, p)
      PROVE  TermsFixed
  BY <1>3, GrantFixesTerms DEF PromoteAuthority
<1>4. ASSUME NEW a \in Ids, NEW t \in Ids, RevokeAuthority(a, t) PROVE TermsFixed
  <2> DEFINE R == Subtree(t)
  <2>1. /\ BelowCap(grants[a]) /\ UNCHANGED <<agr, now>> /\ R \in SUBSET Ids
        /\ grants' = [i \in Ids |-> IF i \in R
                         THEN [Consumed(a)[i] EXCEPT !.revoked = "authority"]
                         ELSE Consumed(a)[i]]
    BY <1>4 DEF RevokeAuthority, MayRevoke, MarkRevoked, ValidateAuthority, ValidateScoped, Subtree
  <2> HIDE DEF R
  <2>2. \A i \in Ids : /\ SameTerms(grants[i], grants'[i])
                       /\ grants'[i].used >= grants[i].used
                       /\ i \in R => grants'[i].revoked = "authority"
                       /\ i \notin R => grants'[i].revoked = grants[i].revoked
    BY <2>1, MarkStep
  <2> QED BY <2>1, <2>2 DEF TermsFixed, Ids
<1>5. ASSUME NEW a \in Ids, NEW c, NEW ct, NEW m, UseAuthority(a, c, ct, m)
      PROVE  TermsFixed
  <2>1. BelowCap(grants[a]) /\ UNCHANGED <<agr, now>> /\ grants' = Consumed(a)
    BY <1>5 DEF UseAuthority, ValidateScoped
  <2>2. \A i \in Ids : /\ SameTerms(grants[i], Consumed(a)[i])
                       /\ Consumed(a)[i].revoked = grants[i].revoked
                       /\ Consumed(a)[i].used >= grants[i].used
    BY <2>1, ConsumedTable DEF AuthorityInv
  <2> QED BY <2>1, <2>2 DEF TermsFixed, Ids
<1>6. ASSUME NEW a \in Ids, NEW s \in Subjects, InvalidateHolder(a, s) PROVE TermsFixed
  <2> DEFINE R == {i \in Ids : grants[i].holder = s /\ grants[i].revoked = "no"}
  <2>1. /\ BelowCap(grants[a]) /\ UNCHANGED <<agr, now>> /\ R \in SUBSET Ids
        /\ grants' = [i \in Ids |-> IF i \in R
                         THEN [Consumed(a)[i] EXCEPT !.revoked = "privacy"]
                         ELSE Consumed(a)[i]]
    BY <1>6 DEF InvalidateHolder, ValidateAuthority, ValidateScoped
  <2> HIDE DEF R
  <2>2. \A i \in Ids : /\ SameTerms(grants[i], grants'[i])
                       /\ grants'[i].used >= grants[i].used
                       /\ i \in R => grants'[i].revoked = "privacy"
                       /\ i \notin R => grants'[i].revoked = grants[i].revoked
    BY <2>1, MarkStep
  <2> QED BY <2>1, <2>2 DEF TermsFixed, Ids
<1>7. CASE Tick \/ UNCHANGED authorityVars
  <2>1. agr' = agr /\ grants' = grants /\ \A i \in Ids : grants[i].used \in Nat
    BY <1>7 DEF Tick, authorityVars, AuthorityInv, AuthorityTypeOK, Grant
  <2> QED BY <2>1 DEF TermsFixed, SameTerms, Ids
<1> QED
  BY <1>1, <1>2, <1>3, <1>4, <1>5, <1>6, <1>7 DEF AuthorityNext, OtherNext

(* No handler, however it is interleaved with the others, un-revokes a     *)
(* grant, lowers its use count or rewrites its terms.                      *)
THEOREM TermsAreFixed == AuthoritySpec => GrantTermsFixed
<1>1. AuthorityInv /\ [AuthorityNext]_authorityVars => [TermsFixed]_authorityVars
  BY NextFixesTerms
<1> QED
  BY <1>1, AuthorityInvariant, PTL DEF AuthoritySpec, GrantTermsFixed, TermsFixed
=============================================================================
