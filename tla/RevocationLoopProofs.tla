------------------------ MODULE RevocationLoopProofs ------------------------
(***************************************************************************)
(* Machine-checked proofs about RevocationLoop: its loop collects the      *)
(* subtree of its target, and so the table with the loop implements        *)
(* Authority, whose revoke_authority marks that subtree in one step.       *)
(*                                                                         *)
(* No induction over the table is needed.  What is collected stays below   *)
(* the target, because a subtree is closed under issue; a sweep that adds  *)
(* nothing shows that the collected set is closed, and the subtree is the  *)
(* least closed set with the target.  That two sweeps are enough follows   *)
(* from the order of the ids: a grant comes after its issuer, so what a    *)
(* sweep adds can only concern grants that it has still to visit.          *)
(***************************************************************************)
EXTENDS RevocationLoop, AuthorityProofs

(* The grants the sweep has passed are collected if their issuer is. *)
PassedIsCollected ==
    \A i \in Ids : i <= visited /\ grants[i].issuer \in revokedIds => i \in revokedIds

(* What holds while a call is in progress. *)
CallInv ==
    /\ actor \in Ids /\ target \in Ids /\ MayRevoke(actor, target)
    /\ visited \in Nat /\ changed \in BOOLEAN
    /\ target \in revokedIds /\ revokedIds \subseteq Subtree(target)
    /\ PassedIsCollected
    /\ ~changed => visited = 0
    /\ ~changed /\ revokedIds # {target} => ClosedUnderIssue(revokedIds)

LoopInv == AuthorityInv /\ (~Idle => CallInv)

-----------------------------------------------------------------------------
(* Sweeps. *)

(* At the end of a sweep the collected set is closed under issue. *)
LEMMA OverMeansClosed ==
    ASSUME LoopInv, ~Idle, SweepIsOver
    PROVE  ClosedUnderIssue(revokedIds)
<1> SUFFICES ASSUME NEW i \in Ids, grants[i].issuer \in revokedIds
             PROVE  i \in revokedIds
  BY DEF ClosedUnderIssue
<1>1. i \in Nat /\ visited \in Nat /\ PassedIsCollected
  BY DEF LoopInv, CallInv, Ids
<1>2. CASE i <= visited
  BY <1>1, <1>2 DEF PassedIsCollected
<1>3. CASE i > visited
  BY <1>3 DEF SweepIsOver, Collectible
<1> QED BY <1>1, <1>2, <1>3

(* A closed set between the target and its subtree is the subtree. *)
LEMMA ClosedIsSubtree ==
    ASSUME LoopInv, ~Idle, ClosedUnderIssue(revokedIds)
    PROVE  revokedIds = Subtree(target)
<1>1. /\ target \in Ids /\ target \in revokedIds
      /\ revokedIds \subseteq Subtree(target)
  BY DEF LoopInv, CallInv
<1>2. revokedIds \subseteq Ids
  BY <1>1 DEF Subtree
<1>3. Subtree(target) \subseteq revokedIds
  BY <1>1, <1>2, SubtreeLeast
<1> QED BY <1>1, <1>3

(* The end of the loop, and the start of a repeated sweep. *)
LEMMA InvMeansCollected == LoopInv => LoopCollectsSubtree
<1> SUFFICES ASSUME LoopInv, ~Idle, ~changed, SweepIsOver \/ revokedIds # {target}
             PROVE  revokedIds = Subtree(target)
  BY DEF LoopCollectsSubtree
<1>1. ClosedUnderIssue(revokedIds)
  BY OverMeansClosed DEF LoopInv, CallInv
<1> QED BY <1>1, ClosedIsSubtree

-----------------------------------------------------------------------------
(* Every step of the loop keeps its invariant. *)

(* A step that leaves the table alone leaves what is read from it alone. *)
LEMMA TableStays ==
    ASSUME UNCHANGED authorityVars
    PROVE  /\ Ids' = Ids /\ grants' = grants
           /\ AuthorityInv => AuthorityInv'
           /\ \A a, t : MayRevoke(a, t) => MayRevoke(a, t)'
<1>1. AuthorityInv => AuthorityInv'
  BY NextKeepsInv
<1>2. agr' = agr /\ grants' = grants /\ now' = now /\ Ids' = Ids
  BY DEF authorityVars, Ids
<1>3. \A a, t : MayRevoke(a, t) => MayRevoke(a, t)'
  BY <1>2 DEF MayRevoke, ValidateAuthority, ValidateScoped, GrantIsActive, ScopeSubset, BelowCap
<1> QED BY <1>1, <1>2, <1>3

(* The call starts from its target alone. *)
LEMMA BeginKeepsInv ==
    ASSUME LoopInv, NEW a \in Ids, NEW t \in Ids, BeginRevocation(a, t)
    PROVE  LoopInv'
<1>1. /\ actor' = a /\ target' = t /\ revokedIds' = {t} /\ changed' = FALSE
      /\ visited' = 0 /\ UNCHANGED authorityVars /\ MayRevoke(a, t)
  BY DEF BeginRevocation
<1>2. Ids' = Ids /\ grants' = grants /\ AuthorityInv'
  BY <1>1, TableStays DEF LoopInv
<1>3. MayRevoke(actor, target)'
  BY <1>1, <1>2 DEF MayRevoke, ValidateAuthority, ValidateScoped, GrantIsActive,
                    ScopeSubset, BelowCap, authorityVars
<1>4. revokedIds' \subseteq Subtree(target)'
  BY <1>1, <1>2 DEF Subtree
<1>5. PassedIsCollected'
  BY <1>1, <1>2 DEF PassedIsCollected, Ids
<1>6. CallInv'
  BY <1>1, <1>2, <1>3, <1>4, <1>5 DEF CallInv
<1> QED BY <1>2, <1>6 DEF LoopInv

(* A grant issued under a collected one is below the target, and no grant  *)
(* that the sweep has passed was issued under it.                          *)
LEMMA CollectKeepsInv ==
    ASSUME LoopInv, NEW i \in Ids, CollectGrant(i)
    PROVE  LoopInv'
<1>1. /\ ~Idle /\ i > visited /\ grants[i].issuer \in revokedIds
      /\ \A j \in Ids : j < i => ~Collectible(j)
      /\ revokedIds' = revokedIds \cup {i} /\ changed' = TRUE /\ visited' = i
      /\ UNCHANGED authorityVars /\ actor' = actor /\ target' = target
  BY DEF CollectGrant, Collectible
<1>2. CallInv /\ AuthorityInv /\ i \in Nat
  BY <1>1 DEF LoopInv, Ids
<1>3. Ids' = Ids /\ grants' = grants /\ AuthorityInv'
  BY <1>1, <1>2, TableStays
<1>4. MayRevoke(actor, target)'
  BY <1>1, <1>2, <1>3 DEF CallInv, MayRevoke, ValidateAuthority, ValidateScoped,
                    GrantIsActive, ScopeSubset, BelowCap, authorityVars
<1>5. revokedIds' \subseteq Subtree(target)'
  <2>1. i \in Subtree(target)
    BY <1>1, <1>2, SubtreeClosed DEF CallInv, ClosedUnderIssue
  <2>2. Subtree(target)' = Subtree(target)
    BY <1>1, <1>3 DEF Subtree, ClosedUnderIssue
  <2> QED BY <1>1, <1>2, <2>1, <2>2 DEF CallInv
<1>6. PassedIsCollected'
  <2> SUFFICES ASSUME NEW j \in Ids, j <= i, grants[j].issuer \in revokedIds \cup {i}
               PROVE  j \in revokedIds \cup {i}
    BY <1>1, <1>3 DEF PassedIsCollected
  <2>1. j \in Nat /\ visited \in Nat
    BY <1>2 DEF CallInv, Ids
  <2>2. grants[j].issuer # i
    BY <1>2, <2>1, NoneAssumption DEF AuthorityInv, TermsInv, IssuerOK
  <2>3. CASE j <= visited
    BY <1>2, <2>2, <2>3 DEF CallInv, PassedIsCollected
  <2>4. CASE j > visited
    BY <1>1, <1>2, <2>1, <2>2, <2>4 DEF Collectible
  <2> QED BY <2>1, <2>3, <2>4
<1>7. CallInv'
  BY <1>1, <1>2, <1>3, <1>4, <1>5, <1>6 DEF CallInv
<1> QED BY <1>3, <1>7 DEF LoopInv

(* A sweep that is repeated starts from a closed set. *)
LEMMA SweepKeepsInv ==
    ASSUME LoopInv, SweepAgain
    PROVE  LoopInv'
<1>1. /\ ~Idle /\ SweepIsOver /\ changed' = FALSE /\ visited' = 0
      /\ UNCHANGED authorityVars /\ actor' = actor /\ target' = target
      /\ revokedIds' = revokedIds
  BY DEF SweepAgain
<1>2. CallInv /\ AuthorityInv
  BY <1>1 DEF LoopInv
<1>3. Ids' = Ids /\ grants' = grants /\ AuthorityInv'
  BY <1>1, <1>2, TableStays
<1>4. MayRevoke(actor, target)'
  BY <1>1, <1>2, <1>3 DEF CallInv, MayRevoke, ValidateAuthority, ValidateScoped,
                    GrantIsActive, ScopeSubset, BelowCap, authorityVars
<1>5. revokedIds' \subseteq Subtree(target)'
  BY <1>1, <1>2, <1>3 DEF CallInv, Subtree, ClosedUnderIssue
<1>6. ClosedUnderIssue(revokedIds)'
  BY <1>1, <1>3, OverMeansClosed DEF ClosedUnderIssue
<1>7. PassedIsCollected'
  BY <1>6 DEF PassedIsCollected, ClosedUnderIssue
<1>8. CallInv'
  BY <1>1, <1>2, <1>3, <1>4, <1>5, <1>6, <1>7 DEF CallInv
<1> QED BY <1>3, <1>8 DEF LoopInv

-----------------------------------------------------------------------------
(* The refinement. *)

(* The end of a call is one step of Authority: revoke_authority with the   *)
(* subtree of its target.                                                  *)
LEMMA EndIsRevocation ==
    ASSUME LoopInv, RevokeCollected
    PROVE  \E a, t \in Ids : RevokeAuthority(a, t)
<1>1. ~Idle /\ SweepIsOver
  BY DEF RevokeCollected
<1>2. revokedIds = Subtree(target)
  BY <1>1, OverMeansClosed, ClosedIsSubtree
<1>3. actor \in Ids /\ target \in Ids /\ MayRevoke(actor, target)
  BY <1>1 DEF LoopInv, CallInv
<1>4. RevokeAuthority(actor, target)
  BY <1>2, <1>3 DEF RevokeCollected, RevokeAuthority
<1> QED BY <1>3, <1>4

(* A step of the loop maps to a step of the grant table or to a stutter. *)
LEMMA StepImplements ==
    LoopInv /\ [RevocationNext]_revocationVars => [AuthorityNext]_authorityVars
<1> SUFFICES ASSUME LoopInv, [RevocationNext]_revocationVars
             PROVE  [AuthorityNext]_authorityVars
  OBVIOUS
<1>1. ASSUME OtherNext PROVE AuthorityNext
  BY <1>1 DEF AuthorityNext
<1>2. ASSUME RevokeCollected PROVE AuthorityNext
  BY <1>2, EndIsRevocation DEF AuthorityNext
<1>3. ASSUME \/ \E a, t \in Ids : BeginRevocation(a, t)
             \/ \E i \in Ids : CollectGrant(i)
             \/ SweepAgain
      PROVE  UNCHANGED authorityVars
  BY <1>3 DEF BeginRevocation, CollectGrant, SweepAgain
<1>4. CASE UNCHANGED revocationVars
  BY <1>4 DEF revocationVars, authorityVars
<1> QED BY <1>1, <1>2, <1>3, <1>4 DEF RevocationNext

(* Every step keeps the invariant. *)
LEMMA LoopNextKeepsInv ==
    LoopInv /\ [RevocationNext]_revocationVars => LoopInv'
<1> SUFFICES ASSUME LoopInv, [RevocationNext]_revocationVars PROVE LoopInv'
  OBVIOUS
<1>1. AuthorityInv'
  BY StepImplements, NextKeepsInv DEF LoopInv
<1>2. CASE Idle /\ OtherNext /\ UNCHANGED loopVars
  BY <1>1, <1>2 DEF LoopInv, Idle, loopVars
<1>3. ASSUME NEW a \in Ids, NEW t \in Ids, BeginRevocation(a, t) PROVE LoopInv'
  BY <1>3, BeginKeepsInv
<1>4. ASSUME NEW i \in Ids, CollectGrant(i) PROVE LoopInv'
  BY <1>4, CollectKeepsInv
<1>5. CASE SweepAgain
  BY <1>5, SweepKeepsInv
<1>6. CASE RevokeCollected
  BY <1>1, <1>6 DEF RevokeCollected, LoopInv, Idle
<1>7. CASE UNCHANGED revocationVars
  <2>1. /\ agr' = agr /\ grants' = grants /\ now' = now /\ Ids' = Ids
        /\ actor' = actor /\ target' = target /\ revokedIds' = revokedIds
        /\ changed' = changed /\ visited' = visited
    BY <1>7 DEF revocationVars, Ids
  <2>2. CallInv => CallInv'
    BY <2>1 DEF CallInv, MayRevoke, ValidateAuthority, ValidateScoped, GrantIsActive,
                ScopeSubset, BelowCap, Subtree, ClosedUnderIssue, PassedIsCollected
  <2> QED BY <1>1, <2>1, <2>2 DEF LoopInv, Idle
<1> QED BY <1>2, <1>3, <1>4, <1>5, <1>6, <1>7 DEF RevocationNext

-----------------------------------------------------------------------------
(* The theorems. *)

(* LoopInv is an invariant of the table with the loop. *)
THEOREM LoopInvariant == RevocationSpec => []LoopInv
<1>1. RevocationInit => LoopInv
  BY InitEstablishesInv DEF RevocationInit, LoopInv, Idle
<1> QED BY <1>1, LoopNextKeepsInv, PTL DEF RevocationSpec

(* The loop of revoke_authority collects the subtree of its target, in a   *)
(* table of any size, and needs at most two sweeps for it.                 *)
THEOREM LoopCollects == RevocationSpec => []LoopCollectsSubtree
BY LoopInvariant, InvMeansCollected, PTL

(* The table with the loop implements the table whose revoke_authority     *)
(* marks the subtree at once.                                              *)
THEOREM LoopImplementsAuthority == RevocationSpec => AuthoritySpec
<1>1. RevocationInit => AuthorityInit
  BY DEF RevocationInit
<1> QED
  BY <1>1, LoopInvariant, StepImplements, PTL DEF RevocationSpec, AuthoritySpec

(* What was proved of the one-step revoke_authority holds with its loop. *)
THEOREM LoopKeepsAuthorityProperties ==
    RevocationSpec =>
        /\ []AuthorityTypeOK /\ []DelegationOnlyNarrows /\ []RootedAuthority
        /\ []UseWithinCap /\ []CascadeComplete
        /\ RevocationSparesAncestors /\ GrantTermsFixed
BY LoopImplementsAuthority, AuthorityTypeCorrect, DelegationNarrows, AuthorityIsRooted,
   CapsHold, CascadeHolds, RevocationIsSafe, TermsAreFixed, PTL
=============================================================================
