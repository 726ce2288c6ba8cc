------------------------------ MODULE Authority ------------------------------
(***************************************************************************)
(* The authority-grant table of TrustCore (src/src/kyn/service.py): the    *)
(* root grant, scoped delegation, audited promotion, cascading revocation, *)
(* metered use, and the revocation of a holder's grants by an approved     *)
(* privacy request.                                                        *)
(*                                                                         *)
(* What an action is.  Every handler runs inside one database transaction  *)
(* that a TrustCoreError rolls back (persistence.py, modelled in           *)
(* DurableService), so a handler is one atomic action and a refused call   *)
(* changes nothing.  The handlers of the other components that only meter  *)
(* a grant here are UseAuthority; Assurance conjoins their own effects.    *)
(*                                                                         *)
(* Data.  A grant id is its position in the table (the "agr" counter); a   *)
(* date is a natural number; revoked_at and revocation_reason become one   *)
(* field with the operation that revoked the grant; an accountability      *)
(* label is present or absent.  used_count is read only against usage_cap, *)
(* so the count of an uncapped grant stays 0.                              *)
(***************************************************************************)
EXTENDS Integers, FiniteSets

CONSTANTS
    Subjects,       \* the subjects enrolled
    ClaimTypes,     \* claim types, without the wildcard
    MethodClasses,  \* method classes, without the wildcard
    Star,           \* the wildcard "*" of a scope
    None,           \* Python's None
    Offers,         \* the grant_authority inputs that callers send
    Promotions,     \* the promote_authority inputs that callers send
    MaxGrants,      \* bound: rows of the grant table
    MaxTime         \* bound: the clock

(* AuthorityCapability *)
AuthorityCapability ==
    {"manage_claims", "invite_attestor", "introduce_attestor", "attest_claim",
     "select_audit", "decide_audit", "decide_challenge", "decide_appeal",
     "grant_authority", "revoke_authority", "decide_recovery",
     "process_privacy", "manage_release", "operate_service"}

(* AUTHORITY_TIER_ORDER: participant .. operator *)
AuthorityTier == 0..4
Steward == 3
Operator == 4

AuthorityBasis == {"bootstrap_designation", "delegated", "audited_promotion"}

ClaimScopes == SUBSET (ClaimTypes \cup {Star})
MethodScopes == SUBSET (MethodClasses \cup {Star})

(* The body of a grant request; label says whether it carries an           *)
(* accountability label.                                                   *)
OfferType ==
    [holder : Subjects, capabilities : SUBSET AuthorityCapability,
     claimTypes : ClaimScopes, methodClasses : MethodScopes,
     tier : AuthorityTier, expires : Nat, usageCap : Nat \cup {None},
     canDelegate : BOOLEAN, maxDepth : Nat, label : BOOLEAN]

PromotionType ==
    [tier : AuthorityTier, capabilities : SUBSET AuthorityCapability,
     expires : Nat, label : BOOLEAN]

ASSUME BoundsAssumption == MaxGrants \in Nat /\ MaxTime \in Nat
ASSUME NoneAssumption == None \notin Nat
ASSUME OffersAssumption == Offers \subseteq OfferType
ASSUME PromotionsAssumption == Promotions \subseteq PromotionType

VARIABLES
    agr,     \* the "agr" id counter: ids issued are 1..agr
    grants,  \* _authority_grants
    now      \* the clock

authorityVars == <<agr, grants, now>>

Ids == 1..agr

(* AuthorityGrant *)
Grant ==
    [holder : Subjects, issuer : Nat \cup {None},
     capabilities : SUBSET AuthorityCapability,
     claimTypes : ClaimScopes, methodClasses : MethodScopes,
     tier : AuthorityTier, basis : AuthorityBasis, expires : Nat,
     usageCap : Nat \cup {None}, used : Nat, canDelegate : BOOLEAN,
     depth : Nat, maxDepth : Nat,
     revoked : {"no", "authority", "privacy"}]

-----------------------------------------------------------------------------
(* Checks and updates of one grant. *)

(* _scope_subset *)
ScopeSubset(requested, permitted) ==
    Star \in permitted \/ requested \subseteq permitted

(* _grant_is_active, for an authority grant *)
GrantIsActive(i) ==
    i \in Ids /\ grants[i].revoked = "no" /\ grants[i].expires > now

(* Mutant: off by one at the cap. *)
BelowOrAtCap(g) == g.usageCap # None => g.used <= g.usageCap

BelowCap(g) == g.usageCap # None => g.used < g.usageCap

(* _validate_authority; a scope argument that is None is not checked. *)
ValidateScoped(i, capability, claimType, methodClass) ==
    /\ GrantIsActive(i)
    /\ capability \in grants[i].capabilities
    /\ claimType # None => ScopeSubset({claimType}, grants[i].claimTypes)
    /\ methodClass # None => ScopeSubset({methodClass}, grants[i].methodClasses)
    /\ BelowCap(grants[i])

ValidateAuthority(i, capability) == ValidateScoped(i, capability, None, None)

(* the update made by _consume_authority *)
Metered(g) == IF g.usageCap = None THEN g ELSE [g EXCEPT !.used = @ + 1]
Consumed(i) == [grants EXCEPT ![i] = Metered(grants[i])]

(* Mutant: the counter does not advance and the row of the last id is lost. *)
WithGrantReusingId(table, g) ==
    [i \in 1..agr |-> IF i = agr THEN g ELSE table[i]]

(* Mutant: the new grant is stored under the last id as well. *)
WithGrantTwice(table, g) ==
    [i \in 1..(agr + 1) |-> IF i >= agr THEN g ELSE table[i]]

(* self._authority_grants[self._id("agr")] = g *)
WithGrant(table, g) ==
    [i \in 1..(agr + 1) |-> IF i = agr + 1 THEN g ELSE table[i]]

-----------------------------------------------------------------------------
(* Initial state and the handlers. *)

AuthorityInit == agr = 0 /\ grants = [i \in 1..0 |-> None] /\ now = 0

(* Mutant: no check that the bootstrap has happened. *)
BootstrapAgain(holder, expires) ==
    /\ agr < MaxGrants
    /\ expires > now
    /\ agr' = agr + 1
    /\ grants' = WithGrant(grants,
         [holder |-> holder, issuer |-> None,
          capabilities |-> AuthorityCapability,
          claimTypes |-> {Star}, methodClasses |-> {Star},
          tier |-> Operator, basis |-> "bootstrap_designation",
          expires |-> expires, usageCap |-> None, used |-> 0,
          canDelegate |-> TRUE, depth |-> 0, maxDepth |-> 4,
          revoked |-> "no"])
    /\ UNCHANGED now

(* bootstrap_authority, for the holder, label and reference that the       *)
(* accepted policy designates: the one root, once.                         *)
BootstrapAuthority(holder, expires) ==
    /\ agr = 0 /\ agr < MaxGrants
    /\ expires > now
    /\ agr' = agr + 1
    /\ grants' = WithGrant(grants,
         [holder |-> holder, issuer |-> None,
          capabilities |-> AuthorityCapability,
          claimTypes |-> {Star}, methodClasses |-> {Star},
          tier |-> Operator, basis |-> "bootstrap_designation",
          expires |-> expires, usageCap |-> None, used |-> 0,
          canDelegate |-> TRUE, depth |-> 0, maxDepth |-> 4,
          revoked |-> "no"])
    /\ UNCHANGED now

(* Mutant: the expiry is compared with the clock only, not with the issuer. *)
MayDelegateLonger(a, o) ==
    /\ ValidateAuthority(a, "grant_authority")
    /\ o.capabilities # {} /\ o.claimTypes # {} /\ o.methodClasses # {}
    /\ o.expires > now
    /\ o.usageCap # None => o.usageCap >= 1
    /\ o.tier <= grants[a].tier
    /\ o.capabilities \subseteq grants[a].capabilities
    /\ ScopeSubset(o.claimTypes, grants[a].claimTypes)
    /\ ScopeSubset(o.methodClasses, grants[a].methodClasses)
    /\ grants[a].canDelegate
    /\ grants[a].depth + 1 <= grants[a].maxDepth
    /\ o.maxDepth >= grants[a].depth + 1
    /\ o.maxDepth <= grants[a].maxDepth
    /\ o.tier \in {Steward, Operator} => o.label

(* The conditions grant_authority puts on an offer o from grant a. *)
MayDelegate(a, o) ==
    /\ ValidateAuthority(a, "grant_authority")
    /\ o.capabilities # {} /\ o.claimTypes # {} /\ o.methodClasses # {}
    /\ o.expires > now /\ o.expires <= grants[a].expires
    /\ o.usageCap # None => o.usageCap >= 1
    /\ o.tier <= grants[a].tier
    /\ o.capabilities \subseteq grants[a].capabilities
    /\ ScopeSubset(o.claimTypes, grants[a].claimTypes)
    /\ ScopeSubset(o.methodClasses, grants[a].methodClasses)
    /\ grants[a].canDelegate
    /\ grants[a].depth + 1 <= grants[a].maxDepth
    /\ o.maxDepth >= grants[a].depth + 1
    /\ o.maxDepth <= grants[a].maxDepth
    /\ o.tier \in {Steward, Operator} => o.label

DelegatedGrant(a, o, basis) ==
    [holder |-> o.holder, issuer |-> a, capabilities |-> o.capabilities,
     claimTypes |-> o.claimTypes, methodClasses |-> o.methodClasses,
     tier |-> o.tier, basis |-> basis, expires |-> o.expires,
     usageCap |-> o.usageCap, used |-> 0, canDelegate |-> o.canDelegate,
     depth |-> grants[a].depth + 1, maxDepth |-> o.maxDepth,
     revoked |-> "no"]

(* grant_authority *)
GrantAuthority(a, o, basis) ==
    /\ agr < MaxGrants
    /\ MayDelegate(a, o)
    /\ agr' = agr + 1
    /\ grants' = WithGrant(Consumed(a), DelegatedGrant(a, o, basis))
    /\ UNCHANGED now

(* The grant that promote_authority asks grant_authority for: the union of *)
(* the sources' scopes, one tier above the highest of them.                *)
PromotionOffer(a, holder, sources, p) ==
    [holder |-> holder, capabilities |-> p.capabilities,
     claimTypes |-> UNION {grants[i].claimTypes : i \in sources},
     methodClasses |-> UNION {grants[i].methodClasses : i \in sources},
     tier |-> p.tier, expires |-> p.expires, usageCap |-> None,
     canDelegate |-> p.tier \in {Steward, Operator},
     maxDepth |-> IF grants[a].maxDepth <= grants[a].depth + 2
                  THEN grants[a].maxDepth ELSE grants[a].depth + 2,
     label |-> p.label]

(* promote_authority, on the grant table.  The passed audits it also asks  *)
(* for are state of Assurance, which conjoins that condition.              *)
PromoteAuthority(a, holder, sources, p) ==
    /\ ValidateAuthority(a, "grant_authority")
    /\ sources # {}
    /\ \A i \in sources : GrantIsActive(i) /\ grants[i].holder = holder
    /\ \A i \in sources : grants[i].tier <= p.tier - 1
    /\ \E i \in sources : grants[i].tier = p.tier - 1
    /\ GrantAuthority(a, PromotionOffer(a, holder, sources, p),
                      "audited_promotion")

(* S contains every grant issued under one of its members. *)
ClosedUnderIssue(S) == \A i \in Ids : grants[i].issuer \in S => i \in S

(* The ids that the loop of revoke_authority collects from target t: the   *)
(* least set with t that is closed under issue.                            *)
Subtree(t) ==
    {i \in Ids : \A S \in SUBSET Ids :
                    t \in S /\ ClosedUnderIssue(S) => i \in S}

(* Mutant: a peer may revoke a peer. *)
MayRevokePeer(a, t) ==
    /\ ValidateAuthority(a, "revoke_authority")
    /\ t \in Ids /\ grants[t].revoked = "no"
    /\ grants[t].issuer = a \/ grants[a].tier >= grants[t].tier

(* The conditions revoke_authority puts on its actor and its target. *)
MayRevoke(a, t) ==
    /\ ValidateAuthority(a, "revoke_authority")
    /\ t \in Ids /\ grants[t].revoked = "no"
    /\ grants[t].issuer = a \/ grants[a].tier > grants[t].tier

(* The table with the actor's grant metered and the collected ones marked. *)
MarkRevoked(a, revokedIds) ==
    [i \in Ids |-> IF i \in revokedIds
                  THEN [Consumed(a)[i] EXCEPT !.revoked = "authority"]
                  ELSE Consumed(a)[i]]

(* revoke_authority, on the grant table.  RevocationLoop has the loop that *)
(* collects the subtree.                                                   *)
RevokeAuthority(a, t) ==
    /\ MayRevoke(a, t)
    /\ grants' = MarkRevoked(a, Subtree(t))
    /\ UNCHANGED <<agr, now>>

(* _consume_authority, as the handlers of the other components call it:    *)
(* attestations name a claim type and a method class, the registration of  *)
(* a claim its type only, the rest neither.                                *)
UseAuthority(a, capability, claimType, methodClass) ==
    /\ ValidateScoped(a, capability, claimType, methodClass)
    /\ grants' = Consumed(a)
    /\ UNCHANGED <<agr, now>>

(* An approved correction, deletion or withdrawal of subject s: the part   *)
(* of _invalidate_subject_state that revokes the grants s holds.           *)
InvalidateHolder(a, s) ==
    /\ ValidateAuthority(a, "process_privacy")
    /\ grants' = [i \in Ids |->
           IF grants[i].holder = s /\ grants[i].revoked = "no"
           THEN [Consumed(a)[i] EXCEPT !.revoked = "privacy"]
           ELSE Consumed(a)[i]]
    /\ UNCHANGED <<agr, now>>

(* The clock the service reads. *)
Tick == now < MaxTime /\ now' = now + 1 /\ UNCHANGED <<agr, grants>>

(* Capabilities that handlers of other components consume without scope;   *)
(* process_privacy among them for an export and for a rejection.           *)
UnscopedUses ==
    {"introduce_attestor", "select_audit", "decide_audit", "decide_challenge",
     "decide_appeal", "decide_recovery", "process_privacy", "manage_release"}

(* The handlers other than revoke_authority, and the clock. *)
OtherNext ==
    \/ \E s \in Subjects, e \in 1..MaxTime + 1 : BootstrapAuthority(s, e)
    \/ \E a \in Ids, o \in Offers : GrantAuthority(a, o, "delegated")
    \/ \E a \in Ids, s \in Subjects, src \in SUBSET Ids, p \in Promotions :
          PromoteAuthority(a, s, src, p)
    \/ \E a \in Ids, ct \in ClaimTypes, m \in MethodClasses :
          UseAuthority(a, "attest_claim", ct, m)
    \/ \E a \in Ids, ct \in ClaimTypes : UseAuthority(a, "manage_claims", ct, None)
    \/ \E a \in Ids, c \in UnscopedUses : UseAuthority(a, c, None, None)
    \/ \E a \in Ids, s \in Subjects : InvalidateHolder(a, s)
    \/ Tick

AuthorityNext == OtherNext \/ \E a, t \in Ids : RevokeAuthority(a, t)

AuthoritySpec == AuthorityInit /\ [][AuthorityNext]_authorityVars

-----------------------------------------------------------------------------
(* Properties. *)

(* Type invariant: the table holds one well-formed AuthorityGrant per id    *)
(* issued, as _authority_grants does.                                       *)
AuthorityTypeOK ==
    /\ agr \in 0..MaxGrants
    /\ grants \in [Ids -> Grant]
    /\ now \in 0..MaxTime

Attenuates(g, h) ==
    /\ g.capabilities \subseteq h.capabilities
    /\ ScopeSubset(g.claimTypes, h.claimTypes)
    /\ ScopeSubset(g.methodClasses, h.methodClasses)
    /\ g.tier <= h.tier
    /\ g.expires <= h.expires
    /\ g.depth >= h.depth
    /\ g.maxDepth <= h.maxDepth

(* However long the chain of delegations and promotions, a grant never has *)
(* a capability, a scope, a tier, a life or a depth beyond any grant above *)
(* it ("Delegation may only narrow capabilities, scope, tier, expiry, and  *)
(* depth"): grant_authority compares a grant with its issuer only.         *)
DelegationOnlyNarrows ==
    \A j \in Ids : \A i \in Subtree(j) : Attenuates(grants[i], grants[j])

(* Every grant descends from the root grant, at most maxDepth steps below  *)
(* it, so the root's limits bound all authority in the system.             *)
RootedAuthority ==
    \A i \in Ids : i \in Subtree(1) /\ grants[i].depth <= grants[1].maxDepth

(* No capped grant is consumed more often than its cap, whichever handlers *)
(* consume it (_validate_authority checks, _consume_authority increments). *)
UseWithinCap ==
    \A i \in Ids : grants[i].usageCap # None => grants[i].used <= grants[i].usageCap

(* revoke_authority leaves no survivor below the target, then or later:    *)
(* what a revocation revoked has no unrevoked descendant and never gets a  *)
(* new one.                                                                *)
CascadeComplete ==
    \A j \in Ids : grants[j].revoked = "authority" =>
        \A i \in Subtree(j) : grants[i].revoked = "authority"

(* revoke_authority never cuts the branch the actor stands on: the actor's *)
(* own grant and every grant above it keep their revocation state.         *)
RevocationSparesAncestors ==
    [][\A a, t \in Ids : RevokeAuthority(a, t) =>
          \A j \in Ids : a \in Subtree(j) => grants'[j].revoked = grants[j].revoked
      ]_authorityVars

SameTerms(g, h) ==
    /\ h.holder = g.holder /\ h.issuer = g.issuer
    /\ h.capabilities = g.capabilities /\ h.claimTypes = g.claimTypes
    /\ h.methodClasses = g.methodClasses /\ h.tier = g.tier
    /\ h.basis = g.basis /\ h.expires = g.expires
    /\ h.usageCap = g.usageCap /\ h.canDelegate = g.canDelegate
    /\ h.depth = g.depth /\ h.maxDepth = g.maxDepth

(* No step un-revokes a grant, lowers its use count or rewrites its terms. *)
GrantTermsFixed ==
    [][\A i \in Ids :
          /\ i \in Ids'
          /\ grants[i].revoked # "no" => grants'[i].revoked # "no"
          /\ grants'[i].used >= grants[i].used
          /\ SameTerms(grants[i], grants'[i])]_authorityVars

(* What the documentation says of revocation ("Revoking an upstream grant  *)
(* revokes its delegated descendants"): no grant outlives the revocation   *)
(* of the grant it was issued under.  An approved privacy request for the  *)
(* issuer's holder revokes that holder's grants without the cascade.       *)
NoOrphanAuthority ==
    \A i \in Ids : grants[i].issuer # None /\ grants[grants[i].issuer].revoked # "no"
                     => grants[i].revoked # "no"
=============================================================================
