--------------------------- MODULE RevocationLoop ---------------------------
(***************************************************************************)
(* The grant table with revoke_authority taken apart into the loop that    *)
(* collects the grants below its target: a for loop over the table inside  *)
(* a while loop that repeats it until a sweep adds nothing.                *)
(*                                                                         *)
(* The call is one database transaction, so no other handler runs before   *)
(* it ends and its writes (the use of the actor's grant and the marks)     *)
(* show together at its end.  The loop reads the issuers only, which no    *)
(* handler changes.  The table is in the order of the ids: a new grant is  *)
(* last, an update keeps its place, and a snapshot is restored in order.   *)
(***************************************************************************)
EXTENDS Authority

VARIABLES
    actor,       \* the grant the call is made under, None between calls
    target,      \* the grant to revoke, None between calls
    revokedIds,  \* revoked_ids
    changed,     \* changed: this sweep has added a grant
    visited      \* the sweep has passed the grants 1..visited

loopVars == <<actor, target, revokedIds, changed, visited>>
revocationVars == <<agr, grants, now, actor, target, revokedIds, changed, visited>>

Idle == target = None

RevocationInit ==
    /\ AuthorityInit
    /\ actor = None /\ target = None
    /\ revokedIds = {} /\ changed = FALSE /\ visited = 0

(* The checks of revoke_authority, and the first sweep begins. *)
BeginRevocation(a, t) ==
    /\ Idle /\ MayRevoke(a, t)
    /\ actor' = a /\ target' = t
    /\ revokedIds' = {t} /\ changed' = FALSE /\ visited' = 0
    /\ UNCHANGED authorityVars

(* Mutant: the sweep passes over grants that are revoked already, and so   *)
(* never reaches what was issued under them.                               *)
CollectibleUnrevoked(i) ==
    /\ i > visited /\ grants[i].revoked = "no"
    /\ grants[i].issuer \in revokedIds /\ i \notin revokedIds

(* The test that a grant the sweep has still to visit must pass. *)
Collectible(i) ==
    /\ i > visited
    /\ grants[i].issuer \in revokedIds /\ i \notin revokedIds

SweepIsOver == \A i \in Ids : ~Collectible(i)

(* The sweep goes on to the next grant that passes the test and adds it to *)
(* the set that it tests.                                                  *)
CollectGrant(i) ==
    /\ ~Idle
    /\ Collectible(i) /\ \A j \in Ids : j < i => ~Collectible(j)
    /\ revokedIds' = revokedIds \cup {i} /\ changed' = TRUE /\ visited' = i
    /\ UNCHANGED <<authorityVars, actor, target>>

(* A sweep that added a grant is followed by another. *)
SweepAgain ==
    /\ ~Idle /\ SweepIsOver /\ changed
    /\ changed' = FALSE /\ visited' = 0
    /\ UNCHANGED <<authorityVars, actor, target, revokedIds>>

(* Mutant: only the target is marked. *)
RevokeTargetOnly ==
    /\ ~Idle /\ SweepIsOver /\ ~changed
    /\ grants' = MarkRevoked(actor, {target})
    /\ actor' = None /\ target' = None
    /\ revokedIds' = {} /\ changed' = FALSE /\ visited' = 0
    /\ UNCHANGED <<agr, now>>

(* A sweep that added nothing ends the loop: what it collected is marked,  *)
(* and the call ends.                                                      *)
RevokeCollected ==
    /\ ~Idle /\ SweepIsOver /\ ~changed
    /\ grants' = MarkRevoked(actor, revokedIds)
    /\ actor' = None /\ target' = None
    /\ revokedIds' = {} /\ changed' = FALSE /\ visited' = 0
    /\ UNCHANGED <<agr, now>>

RevocationNext ==
    \/ Idle /\ OtherNext /\ UNCHANGED loopVars
    \/ \E a, t \in Ids : BeginRevocation(a, t)
    \/ \E i \in Ids : CollectGrant(i)
    \/ SweepAgain
    \/ RevokeCollected

RevocationSpec ==
    RevocationInit /\ [][RevocationNext]_revocationVars

-----------------------------------------------------------------------------
(* From every target and in every table, the loop ends with exactly the    *)
(* subtree of its target, through grants that a privacy request revoked;   *)
(* and it holds the subtree as soon as a second sweep begins, so it sweeps *)
(* the table at most twice.                                                *)
LoopCollectsSubtree ==
    /\ ~Idle /\ ~changed
    /\ SweepIsOver \/ revokedIds # {target}
    => revokedIds = Subtree(target)
=============================================================================
