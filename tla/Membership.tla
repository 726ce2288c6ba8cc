----------------------------- MODULE Membership -----------------------------
(***************************************************************************)
(* The ordinary-member release of TrustCore (src/src/kyn/service.py):      *)
(* member_snapshot signs the number of eligible members and a digest of    *)
(* them; present_member later computes the eligible members "as of" the    *)
(* time of that snapshot again, from the records of the current state, and *)
(* issues a presentation only if the digest is the same.                   *)
(*                                                                         *)
(* Identity has the handlers without dates; here the records that          *)
(* eligibility depends on carry the dates that the code stamps on them.    *)
(* Every change is a command of DurableService: under the row lock the     *)
(* transition reads the clock and makes the new state (Transition), and    *)
(* later it commits or is rolled back.  member_snapshot reads the          *)
(* committed state without the lock and reads the clock afterwards.        *)
(*                                                                         *)
(* Data.  A digest is the tuple of what it is a digest of.  The consents   *)
(* are those to kyn_campaign_member_ballot.  Of a key it matters only      *)
(* whether the subject has one.  A recovery is its approval; commitments   *)
(* and cases are Identity's.  The clock does not run backwards.            *)
(***************************************************************************)
EXTENDS Integers, Sequences, FiniteSets

CONSTANTS
    Subjects,
    Releases,         \* the [version, notice] of releases operators register
    OrdinaryVersion,  \* "2.0.0"
    Polls,            \* <<audience, determination, manifest>>
    None,
    Window,           \* the eight days that a snapshot is accepted
    Skew,             \* the two minutes that its date may lie ahead
    MaxTime, MaxConsents, MaxReleases, MaxSnapshots, MaxPresentations, \* bounds
    MaxRaced          \* bound on the commits while a snapshot is being made

Notices == {r.notice : r \in Releases}
Versions == {r.version : r \in Releases}

ASSUME MembershipAssumption ==
    /\ Releases \subseteq [version : Versions, notice : Notices]
    /\ {Window, Skew, MaxTime, MaxConsents, MaxReleases,
        MaxSnapshots, MaxPresentations, MaxRaced} \subseteq Nat
    /\ None \notin Nat

VARIABLES
    now,
    core,           \* the committed kyn_state row
    tx,             \* the transaction that holds the row lock, or None
    reader,         \* the core that a snapshot request has loaded, or None
    snapshots,      \* the member snapshots issued
    presentations   \* the member presentations issued

membershipVars == <<now, core, tx, reader, snapshots, presentations>>

Time == 0..MaxTime + 1
Member == [enrolled : BOOLEAN, bound : BOOLEAN, created : Time,
           deleted : Time \cup {None}]
BallotConsent == [subject : Subjects, notice : Notices,
                  granted : Time, withdrawn : Time \cup {None}]
Release == [version : Versions, notice : Notices, activated : Time]
Digest == Versions \X Notices \X SUBSET Subjects
Presentation == [subject : Subjects, poll : Polls, digest : Digest]

NotEnrolled == [enrolled |-> FALSE, bound |-> FALSE, created |-> 0, deleted |-> None]

-----------------------------------------------------------------------------
(* Lookups in a core. *)

Live(c, s) == {i \in DOMAIN c.consents : /\ c.consents[i].subject = s
                                         /\ c.consents[i].withdrawn = None}

(* _has_active_consent for kyn_campaign_member_ballot *)
HasBallotConsent(c, s) == Live(c, s) # {}

(* current_operator_release, which is never lost (Identity) *)
CurrentRelease(c) == c.releases[Len(c.releases)]
MembersAdmitted(c) == CurrentRelease(c).version = OrdinaryVersion

Passed(date, at) == date # None /\ date <= at

(* Mutant: a withdrawal counts whenever it was made. *)
MembersStillThere(c, at) ==
    {s \in Subjects :
        /\ c.members[s].enrolled /\ c.members[s].created <= at
        /\ ~Passed(c.members[s].deleted, at)
        /\ \E i \in DOMAIN c.consents :
              /\ c.consents[i].subject = s
              /\ c.consents[i].granted <= at
              /\ c.consents[i].withdrawn = None}

(* _member_snapshot_values: the subjects eligible at a given time, going   *)
(* by the dates on the records.                                            *)
MembersAt(c, at) ==
    {s \in Subjects :
        /\ c.members[s].enrolled /\ c.members[s].created <= at
        /\ ~Passed(c.members[s].deleted, at)
        /\ \E i \in DOMAIN c.consents :
              /\ c.consents[i].subject = s
              /\ c.consents[i].granted <= at
              /\ ~Passed(c.consents[i].withdrawn, at)}

DigestAt(c, at) ==
    <<CurrentRelease(c).version, CurrentRelease(c).notice, MembersAt(c, at)>>

-----------------------------------------------------------------------------
(* Commands.  A transition under the row lock makes the core that it will  *)
(* commit.  A renewal of consent reads the clock twice: the withdrawals    *)
(* are dated now, the new consent t, and t may be later.                   *)

MembershipInit ==
    /\ now = 0 /\ tx = None /\ reader = None
    /\ snapshots = <<>> /\ presentations = {}
    /\ \E r \in Releases :
          /\ r.version = OrdinaryVersion
          /\ core = [members |-> [s \in Subjects |-> NotEnrolled], consents |-> <<>>,
                     releases |-> <<[version |-> r.version, notice |-> r.notice,
                                     activated |-> 0]>>]

(* execute, up to the end of the transition; subject is whom the command   *)
(* is about and issue the presentation it returns.                         *)
Transition(new, t, subject, issue) ==
    /\ tx = None
    /\ t \in {now, now + 1} /\ t <= MaxTime
    /\ now' = t
    /\ tx' = [core |-> new, from |-> now, subject |-> subject, issue |-> issue]
    /\ UNCHANGED <<core, reader, snapshots, presentations>>

(* The consents of s withdrawn now, in the core of a command *)
WithdrawnNow(s) ==
    [i \in DOMAIN core.consents |->
        IF i \in Live(core, s) THEN [core.consents[i] EXCEPT !.withdrawn = now]
        ELSE core.consents[i]]

(* create_subject *)
CreateSubject(s) ==
    /\ ~core.members[s].enrolled /\ MembersAdmitted(core)
    /\ Transition([core EXCEPT !.members[s] =
                      [enrolled |-> TRUE, bound |-> TRUE, created |-> now, deleted |-> None]],
                  now, s, None)

(* Mutant: the notice is recorded as sent. *)
AcceptAnyNotice(s, notice, t) ==
    /\ core.members[s].enrolled
    /\ Len(core.consents) < MaxConsents
    /\ Transition([core EXCEPT !.consents =
                      Append(WithdrawnNow(s),
                             [subject |-> s, notice |-> notice, granted |-> t,
                              withdrawn |-> None])],
                  t, s, None)

(* accept_consent, signed by s, to purposes with the ballot.  The key was  *)
(* looked up before the transaction: s may have been deleted since.        *)
AcceptConsent(s, notice, t) ==
    /\ core.members[s].enrolled
    /\ Len(core.consents) < MaxConsents
    /\ notice = CurrentRelease(core).notice
    /\ Transition([core EXCEPT !.consents =
                      Append(WithdrawnNow(s),
                             [subject |-> s, notice |-> notice, granted |-> t,
                              withdrawn |-> None])],
                  t, s, None)

(* process_privacy_request, an approved consent withdrawal; a renewal      *)
(* without the ballot leaves the same.                                     *)
WithdrawConsent(s) ==
    /\ Live(core, s) # {}
    /\ Transition([core EXCEPT !.consents = WithdrawnNow(s)], now, s, None)

(* process_privacy_request, an approved deletion that s asked for; a       *)
(* request that an earlier deletion overtook deletes s again.  The         *)
(* tombstone's date is read after the withdrawals'; since eligibility ends *)
(* with the withdrawals, one date stands for both.                         *)
DeleteSubject(s) ==
    /\ core.members[s].enrolled
    /\ Transition([core EXCEPT !.consents = WithdrawnNow(s),
                               !.members[s].bound = FALSE, !.members[s].deleted = now],
                  now, s, None)

(* decide_recovery of a case that was pending when s was deleted *)
RebindDeleted(s) ==
    /\ core.members[s].deleted # None /\ ~core.members[s].bound
    /\ Transition([core EXCEPT !.members[s].bound = TRUE], now, s, None)

(* register_operator_release *)
RegisterRelease(r) ==
    /\ Len(core.releases) < MaxReleases
    /\ CurrentRelease(core).version # r.version
    /\ Transition([core EXCEPT !.releases =
                      Append(@, [version |-> r.version, notice |-> r.notice,
                                 activated |-> now])],
                  now, None, None)

(* Mutant: whoever knows a valid digest may present. *)
PresentWithDigest(s, poll, digest, at) ==
    /\ Cardinality(presentations) < MaxPresentations
    /\ MembersAdmitted(core)
    /\ core.members[s].bound /\ core.members[s].deleted = None
    /\ HasBallotConsent(core, s)
    /\ at <= now + Skew /\ now - at <= Window
    /\ digest = DigestAt(core, at)
    /\ Transition(core, now, s, [subject |-> s, poll |-> poll, digest |-> digest])

(* present_member, signed by s, for a snapshot's digest and date *)
PresentMember(s, poll, digest, at) ==
    /\ Cardinality(presentations) < MaxPresentations
    /\ MembersAdmitted(core)
    /\ core.members[s].bound /\ core.members[s].deleted = None
    /\ HasBallotConsent(core, s)
    /\ at <= now + Skew /\ now - at <= Window
    /\ digest = DigestAt(core, at) /\ s \in MembersAt(core, at)
    /\ Transition(core, now, s, [subject |-> s, poll |-> poll, digest |-> digest])

(* What a commit disturbs in a snapshot: the subject of a command that was *)
(* stamped by the snapshot's time and commits after its core was read, and *)
(* a subject deleted for the second time.  Recorded for FrozenUnlessRaced. *)
Disturbs(at) ==
    {s \in Subjects : s = tx.subject /\
        \/ tx.from <= at
        \/ /\ core.members[s].deleted # None
           /\ core.members[s].deleted # tx.core.members[s].deleted}

(* The transaction commits; its answer carries the presentation. *)
Commit ==
    /\ tx # None
    /\ reader # None => reader.raced < MaxRaced
    /\ core' = tx.core
    /\ tx' = None
    /\ reader' = IF reader = None THEN None
                 ELSE [reader EXCEPT !.missed = @ \cup Disturbs(MaxTime), !.raced = @ + 1]
    /\ snapshots' = [k \in DOMAIN snapshots |->
           [snapshots[k] EXCEPT !.disturbed = @ \cup Disturbs(snapshots[k].at)]]
    /\ presentations' = IF tx.issue = None THEN presentations
                        ELSE presentations \cup {tx.issue}
    /\ UNCHANGED now

(* An error or a crash before the commit *)
Rollback ==
    /\ tx # None
    /\ tx' = None
    /\ UNCHANGED <<now, core, reader, snapshots, presentations>>

-----------------------------------------------------------------------------
(* The snapshot. *)

(* get_member_snapshot: load_core, without a lock *)
LoadCore ==
    /\ reader = None /\ Len(snapshots) < MaxSnapshots
    /\ reader' = [core |-> core, missed |-> {}, raced |-> 0]
    /\ UNCHANGED <<now, core, tx, snapshots, presentations>>

(* Mutant: the date is rounded up. *)
MemberSnapshotAhead ==
    /\ reader # None
    /\ MembersAdmitted(reader.core)
    /\ snapshots' = Append(snapshots,
           [at |-> now + 1, digest |-> DigestAt(reader.core, now + 1),
            disturbed |-> reader.missed])
    /\ reader' = None
    /\ UNCHANGED <<now, core, tx, presentations>>

(* member_snapshot on the core that was loaded *)
MemberSnapshot ==
    /\ reader # None
    /\ MembersAdmitted(reader.core)
    /\ snapshots' = Append(snapshots,
           [at |-> now, digest |-> DigestAt(reader.core, now), disturbed |-> reader.missed])
    /\ reader' = None
    /\ UNCHANGED <<now, core, tx, presentations>>

(* member_snapshot raises: ordinary member enrollment is not active *)
RefuseSnapshot ==
    /\ reader # None
    /\ ~MembersAdmitted(reader.core)
    /\ reader' = None
    /\ UNCHANGED <<now, core, tx, snapshots, presentations>>

Tick ==
    /\ now < MaxTime
    /\ now' = now + 1
    /\ UNCHANGED <<core, tx, reader, snapshots, presentations>>

IssuedDigests == {snapshots[k].digest : k \in DOMAIN snapshots}

MembershipNext ==
    \/ \E s \in Subjects, n \in Notices, t \in Time : AcceptConsent(s, n, t)
    \/ \E s \in Subjects :
          CreateSubject(s) \/ WithdrawConsent(s) \/ DeleteSubject(s) \/ RebindDeleted(s)
    \/ \E r \in Releases : RegisterRelease(r)
    \/ \E s \in Subjects, poll \in Polls, d \in IssuedDigests, at \in Time :
          PresentMember(s, poll, d, at)
    \/ Commit \/ Rollback
    \/ LoadCore \/ MemberSnapshot \/ RefuseSnapshot
    \/ Tick

MembershipSpec == MembershipInit /\ [][MembershipNext]_membershipVars

-----------------------------------------------------------------------------
(* Properties. *)

CoreState ==
    [members : [Subjects -> Member], consents : Seq(BallotConsent),
     releases : Seq(Release)]

(* What the transaction has made under the row lock, and what a snapshot   *)
(* request has read.                                                       *)
TxRecord ==
    [core : CoreState, from : 0..now, subject : Subjects \cup {None},
     issue : Presentation \cup {None}]
ReaderRecord == [core : CoreState, missed : SUBSET Subjects, raced : 0..MaxRaced]

(* Type invariant: records of models.py, at most one transaction holding   *)
(* the row, snapshots dated in the past.                                   *)
MembershipTypeOK ==
    /\ now \in 0..MaxTime
    /\ core \in CoreState
    /\ tx = None \/ tx \in TxRecord
    /\ reader = None \/ reader \in ReaderRecord
    /\ snapshots \in Seq([at : 0..now, digest : Digest, disturbed : SUBSET Subjects])
    /\ presentations \subseteq Presentation

(* A snapshot is frozen: whatever consents, withdrawals, deletions and     *)
(* releases follow it, the members computed again for its date are the     *)
(* ones it was signed for.  The exceptions are the subjects of commands    *)
(* that were stamped by then and committed after the state was read, and   *)
(* subjects that were deleted again.                                       *)
FrozenUnlessRaced ==
    \A k \in DOMAIN snapshots :
        LET signed == snapshots[k].digest[3]
            again == MembersAt(core, snapshots[k].at)
        IN  (signed \ again) \cup (again \ signed) \subseteq snapshots[k].disturbed

(* For no poll and no signed snapshot are there more pairwise subjects     *)
(* with a presentation than the eligible members that were signed, and     *)
(* each is one of them, whatever date the caller claims for the snapshot   *)
(* and however membership changed since: the quorum's denominator holds.   *)
PresentedWithinSnapshot ==
    \A k \in DOMAIN snapshots, poll \in Polls :
        {p.subject : p \in {q \in presentations :
                               q.poll = poll /\ q.digest = snapshots[k].digest}}
            \subseteq snapshots[k].digest[3]

(* A live consent to a notice other than the current one was given before  *)
(* the current release, through every sequence of releases and renewals:   *)
(* the code lets such a consent count on, for claims and for ballots.      *)
OldNoticeOnlyFromBefore ==
    \A s \in Subjects : \A i \in Live(core, s) :
        \/ core.consents[i].notice = CurrentRelease(core).notice
        \/ core.consents[i].granted <= CurrentRelease(core).activated
=============================================================================
