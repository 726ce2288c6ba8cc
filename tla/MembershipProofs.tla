-------------------------- MODULE MembershipProofs --------------------------
(***************************************************************************)
(* Proofs about Membership, for any subjects, releases, polls and bounds.  *)
(*                                                                         *)
(* present_member computes the members of a past date again from current   *)
(* records.  The argument that this gives the members that were signed:    *)
(* a command changes the eligibility of one subject only, and, since what  *)
(* it writes is dated by the clock it reads, only from then on (LocalTo).  *)
(* The invariant states this for the core that an open transaction will    *)
(* commit, and what the reader of a snapshot may have missed for the core  *)
(* it has loaded.                                                          *)
(***************************************************************************)
EXTENDS Membership, SequenceTheorems, TLAPS

(* A core that commands can make: there is a release, no consent is dated  *)
(* after t, and a live consent is to the current notice or from before.    *)
SoundCore(c, t) ==
    /\ c.releases # <<>>
    /\ \A i \in DOMAIN c.consents :
          /\ c.consents[i].granted <= t
          /\ c.consents[i].withdrawn = None =>
                \/ c.consents[i].notice = CurrentRelease(c).notice
                \/ c.consents[i].granted <= CurrentRelease(c).activated

(* Between the committed core and new, eligibility at time at differs only *)
(* for the subject of the command, and for it only from the time that the  *)
(* command read, or when it was deleted before.                            *)
LocalTo(new, from, subject) ==
    \A s \in Subjects, at \in 0..MaxTime :
        \/ s \in MembersAt(new, at) <=> s \in MembersAt(core, at)
        \/ /\ s = subject
           /\ \/ from <= at
              \/ /\ core.members[s].deleted # None
                 /\ core.members[s].deleted # new.members[s].deleted

(* A presentation is made for one of the members of its digest. *)
Eligible(p) == p.subject \in p.digest[3]

CoresInv ==
    /\ SoundCore(core, now)
    /\ tx = None \/ (SoundCore(tx.core, now) /\ LocalTo(tx.core, tx.from, tx.subject))
    /\ reader = None \/ reader.core.releases # <<>>

IssuedInv ==
    /\ \A p \in presentations : Eligible(p)
    /\ tx = None \/ tx.issue = None \/ Eligible(tx.issue)

(* The reader of a snapshot has missed every subject that differs. *)
ReaderInv ==
    reader = None \/ \A s \in Subjects \ reader.missed, at \in 0..MaxTime :
                        s \in MembersAt(reader.core, at) <=> s \in MembersAt(core, at)

MembershipInv ==
    MembershipTypeOK /\ CoresInv /\ IssuedInv /\ ReaderInv /\ FrozenUnlessRaced

-----------------------------------------------------------------------------
(* The operators. *)

(* The current release of a core with one. *)
LEMMA CurrentReleaseType ==
    ASSUME NEW c \in CoreState, c.releases # <<>>
    PROVE  CurrentRelease(c) \in Release
<1>1. c.releases \in Seq(Release)
  BY DEF CoreState
<1>2. Len(c.releases) \in 1..Len(c.releases)
  BY <1>1, EmptySeq, LenProperties
<1>. QED
  BY <1>1, <1>2, ElementOfSeq DEF CurrentRelease

(* A digest of such a core. *)
LEMMA DigestType ==
    ASSUME NEW c \in CoreState, c.releases # <<>>, NEW at
    PROVE  DigestAt(c, at) \in Digest /\ DigestAt(c, at)[3] = MembersAt(c, at)
<1>1. CurrentRelease(c).version \in Versions /\ CurrentRelease(c).notice \in Notices
  BY CurrentReleaseType DEF Release
<1>2. MembersAt(c, at) \in SUBSET Subjects
  BY DEF MembersAt
<1>. QED
  BY <1>1, <1>2 DEF DigestAt, Digest

(* Withdrawing the consents of one subject: the others, and what was       *)
(* withdrawn, stay as they are.                                            *)
LEMMA WithdrawnNowType ==
    ASSUME MembershipTypeOK, NEW s
    PROVE  /\ WithdrawnNow(s) \in Seq(BallotConsent)
           /\ Len(WithdrawnNow(s)) = Len(core.consents)
           /\ DOMAIN WithdrawnNow(s) = DOMAIN core.consents
           /\ \A i \in DOMAIN core.consents :
                 /\ WithdrawnNow(s)[i].subject = core.consents[i].subject
                 /\ WithdrawnNow(s)[i].notice = core.consents[i].notice
                 /\ WithdrawnNow(s)[i].granted = core.consents[i].granted
                 /\ IF i \in Live(core, s)
                    THEN WithdrawnNow(s)[i].withdrawn = now
                    ELSE WithdrawnNow(s)[i] = core.consents[i]
<1>. DEFINE cs == core.consents
<1>1. cs \in Seq(BallotConsent) /\ DOMAIN cs = 1..Len(cs) /\ Len(cs) \in Nat
  BY LenProperties DEF MembershipTypeOK, CoreState
<1>2. \A i \in 1..Len(cs) : cs[i] \in BallotConsent
  BY <1>1, ElementOfSeq
<1>3. now \in Time
  BY MembershipAssumption DEF MembershipTypeOK, Time
<1>4. \A i \in 1..Len(cs) : [cs[i] EXCEPT !.withdrawn = now] \in BallotConsent
  BY <1>2, <1>3 DEF BallotConsent
<1>5. WithdrawnNow(s) = [i \in 1..Len(cs) |->
          IF i \in Live(core, s) THEN [cs[i] EXCEPT !.withdrawn = now] ELSE cs[i]]
  BY <1>1 DEF WithdrawnNow
<1>6. WithdrawnNow(s) \in [1..Len(cs) -> BallotConsent]
  BY <1>2, <1>4, <1>5
<1>7. WithdrawnNow(s) \in Seq(BallotConsent) /\ Len(WithdrawnNow(s)) = Len(cs)
  BY <1>1, <1>6
<1>8. \A i \in 1..Len(cs) :
         /\ [cs[i] EXCEPT !.withdrawn = now].subject = cs[i].subject
         /\ [cs[i] EXCEPT !.withdrawn = now].notice = cs[i].notice
         /\ [cs[i] EXCEPT !.withdrawn = now].granted = cs[i].granted
         /\ [cs[i] EXCEPT !.withdrawn = now].withdrawn = now
  BY <1>2 DEF BallotConsent
<1>. QED
  BY <1>1, <1>5, <1>6, <1>7, <1>8

(* A command that withdraws the consents of s now, may add one to s dated  *)
(* now or later and may delete s now, is local to s.                       *)
LEMMA ChangeIsLocal ==
    ASSUME MembershipTypeOK, NEW s \in Subjects, NEW new \in CoreState,
           \A i \in DOMAIN core.consents :
              i \in DOMAIN new.consents /\ new.consents[i] = WithdrawnNow(s)[i],
           \A i \in DOMAIN new.consents \ DOMAIN core.consents :
              new.consents[i].subject = s /\ new.consents[i].granted >= now,
           \A r \in Subjects :
              /\ new.members[r].enrolled = core.members[r].enrolled
              /\ new.members[r].created = core.members[r].created
              /\ \/ new.members[r].deleted = core.members[r].deleted
                 \/ r = s /\ new.members[r].deleted = now
    PROVE  LocalTo(new, now, s)
<1>. SUFFICES ASSUME NEW r \in Subjects, NEW at \in 0..MaxTime,
                     r = s => /\ at < now
                              /\ \/ core.members[r].deleted = None
                                 \/ core.members[r].deleted = new.members[r].deleted
              PROVE  r \in MembersAt(new, at) <=> r \in MembersAt(core, at)
  <2>1. now \in Int /\ MaxTime \in Int
    BY MembershipAssumption DEF MembershipTypeOK
  <2>. QED
    BY <2>1 DEF LocalTo
<1>1. now \in Nat /\ at \in Nat
  BY MembershipAssumption DEF MembershipTypeOK
<1>2. Passed(new.members[r].deleted, at) <=> Passed(core.members[r].deleted, at)
  BY <1>1, MembershipAssumption DEF Passed
<1>3. /\ core.consents \in Seq(BallotConsent) /\ new.consents \in Seq(BallotConsent)
      /\ \A i \in DOMAIN core.consents : core.consents[i] \in BallotConsent
      /\ \A i \in DOMAIN new.consents : new.consents[i] \in BallotConsent
  BY LenProperties, ElementOfSeq DEF MembershipTypeOK, CoreState
<1>. DEFINE Counts(c, i) == /\ c.consents[i].subject = r
                            /\ c.consents[i].granted <= at
                            /\ ~Passed(c.consents[i].withdrawn, at)
<1>4. ASSUME NEW i \in DOMAIN core.consents
      PROVE  Counts(new, i) <=> Counts(core, i)
  <2>1. /\ new.consents[i].subject = core.consents[i].subject
        /\ new.consents[i].granted = core.consents[i].granted
        /\ IF i \in Live(core, s) THEN new.consents[i].withdrawn = now
           ELSE new.consents[i] = core.consents[i]
    BY <1>4, WithdrawnNowType
  <2>2. CASE i \notin Live(core, s)
    BY <2>1, <2>2
  <2>3. CASE i \in Live(core, s)
    <3>1. core.consents[i].subject = s /\ core.consents[i].withdrawn = None
      BY <2>3 DEF Live
    <3>2. CASE r = s
      BY <1>1, <2>1, <2>3, <3>1, <3>2 DEF Passed
    <3>3. CASE r # s
      BY <2>1, <3>1, <3>3
    <3>. QED
      BY <3>2, <3>3
  <2>. QED
    BY <2>2, <2>3
<1>5. ASSUME NEW i \in DOMAIN new.consents \ DOMAIN core.consents
      PROVE  ~Counts(new, i)
  <2>1. /\ new.consents[i].subject = s /\ new.consents[i].granted >= now
        /\ new.consents[i].granted \in Int
    BY <1>3, MembershipAssumption DEF BallotConsent, Time
  <2>. QED
    BY <1>1, <2>1
<1>6. (\E i \in DOMAIN new.consents : Counts(new, i))
         <=> (\E i \in DOMAIN core.consents : Counts(core, i))
  <2>. HIDE DEF Counts
  <2>. QED
    BY <1>4, <1>5
<1>. QED
  BY <1>2, <1>6 DEF MembersAt

-----------------------------------------------------------------------------
(* The commands. *)

(* What a transition promises of the core and the answer that it makes. *)
CommandOK(new, t, subject, issue) ==
    /\ new \in CoreState
    /\ subject \in Subjects \cup {None}
    /\ issue \in Presentation \cup {None}
    /\ SoundCore(new, t)
    /\ LocalTo(new, now, subject)
    /\ issue = None \/ Eligible(issue)

(* create_subject *)
LEMMA CreateOK ==
    ASSUME MembershipInv, NEW s \in Subjects, CreateSubject(s)
    PROVE  \E new : Transition(new, now, s, None) /\ CommandOK(new, now, s, None)
<1>. DEFINE m == [enrolled |-> TRUE, bound |-> TRUE, created |-> now, deleted |-> None]
            new == [core EXCEPT !.members[s] = m]
<1>. USE DEF MembershipInv
<1>1. core \in CoreState /\ now \in 0..MaxTime
  BY DEF MembershipTypeOK
<1>2. m \in Member
  BY <1>1, MembershipAssumption DEF Member, Time
<1>. HIDE DEF m
<1>3. /\ new \in CoreState
      /\ new.consents = core.consents /\ new.releases = core.releases
      /\ new.members = [core.members EXCEPT ![s] = m]
  BY <1>1, <1>2 DEF CoreState
<1>. HIDE DEF new
<1>4. SoundCore(new, now)
  BY <1>3 DEF CoresInv, SoundCore, CurrentRelease
<1>5. LocalTo(new, now, s)
  <2>. SUFFICES ASSUME NEW r \in Subjects, NEW at \in 0..MaxTime, r = s => at < now
                PROVE  r \in MembersAt(new, at) <=> r \in MembersAt(core, at)
    BY <1>1, MembershipAssumption DEF LocalTo
  <2>1. CASE r # s
    BY <1>1, <1>3, <2>1 DEF MembersAt, CoreState
  <2>2. CASE r = s
    <3>1. r \notin MembersAt(core, at)
      BY <2>2 DEF CreateSubject, MembersAt
    <3>2. ~(now <= at)
      BY <1>1, <2>2, MembershipAssumption
    <3>3. new.members[s] = m
      BY <1>1, <1>3 DEF CoreState
    <3>. QED
      BY <2>2, <3>1, <3>2, <3>3 DEF MembersAt, m
  <2>. QED
    BY <2>1, <2>2
<1>6. Transition(new, now, s, None)
  BY DEF CreateSubject, new, m
<1>. QED
  BY <1>3, <1>4, <1>5, <1>6 DEF CommandOK

(* accept_consent: the new consent is to the current notice. *)
LEMMA AcceptOK ==
    ASSUME MembershipInv, NEW s \in Subjects, NEW notice \in Notices, NEW t \in Time,
           AcceptConsent(s, notice, t)
    PROVE  \E new : Transition(new, t, s, None) /\ CommandOK(new, t, s, None)
<1>. DEFINE given == [subject |-> s, notice |-> notice, granted |-> t, withdrawn |-> None]
            old == WithdrawnNow(s)
            cs == Append(old, given)
            new == [core EXCEPT !.consents = cs]
            len == Len(core.consents)
<1>. USE DEF MembershipInv
<1>1. core \in CoreState /\ now \in Nat /\ t \in Nat /\ t >= now
  BY MembershipAssumption DEF MembershipTypeOK, AcceptConsent, Transition, Time
<1>2. /\ core.consents \in Seq(BallotConsent) /\ DOMAIN core.consents = 1..len
      /\ len \in Nat /\ \A i \in 1..len : core.consents[i] \in BallotConsent
  BY <1>1, LenProperties, ElementOfSeq DEF CoreState
<1>3. /\ old \in Seq(BallotConsent) /\ Len(old) = len
      /\ \A i \in 1..len : /\ old[i].granted = core.consents[i].granted
                           /\ old[i].notice = core.consents[i].notice
                           /\ IF i \in Live(core, s) THEN old[i].withdrawn = now
                              ELSE old[i] = core.consents[i]
  BY <1>2, WithdrawnNowType
<1>4. given \in BallotConsent
  BY DEF BallotConsent
<1>5. given.subject = s /\ given.granted = t /\ given.notice = notice
  OBVIOUS
<1>. HIDE DEF given, old
<1>6. /\ cs \in Seq(BallotConsent) /\ Len(cs) = len + 1 /\ DOMAIN cs = 1..(len + 1)
      /\ cs[len + 1] = given /\ \A i \in 1..len : cs[i] = old[i]
  BY <1>2, <1>3, <1>4, AppendProperties, LenProperties
<1>. HIDE DEF cs
<1>7. /\ new \in CoreState
      /\ new.consents = cs /\ new.releases = core.releases /\ new.members = core.members
  BY <1>1, <1>6 DEF CoreState
<1>8. Transition(new, t, s, None) /\ notice = CurrentRelease(core).notice
  BY DEF AcceptConsent, given, old, cs
<1>. HIDE DEF new
<1>9. CurrentRelease(new) = CurrentRelease(core)
  BY <1>7 DEF CurrentRelease
<1>10. SoundCore(new, t)
  <2>. SUFFICES ASSUME NEW i \in 1..(len + 1)
                PROVE  /\ cs[i].granted <= t
                       /\ cs[i].withdrawn = None =>
                             \/ cs[i].notice = CurrentRelease(core).notice
                             \/ cs[i].granted <= CurrentRelease(core).activated
    BY <1>6, <1>7, <1>9 DEF SoundCore, CoresInv
  <2>1. CASE i = len + 1
    BY <1>1, <1>5, <1>6, <1>8, <2>1
  <2>2. CASE i \in 1..len
    <3>1. /\ core.consents[i].granted <= now
          /\ core.consents[i].withdrawn = None =>
                \/ core.consents[i].notice = CurrentRelease(core).notice
                \/ core.consents[i].granted <= CurrentRelease(core).activated
      BY <1>2, <2>2 DEF CoresInv, SoundCore
    <3>2. core.consents[i].granted \in Int
      <4>1. core.consents[i] \in BallotConsent
        BY <1>2, <2>2
      <4>2. Time \subseteq Int
        BY MembershipAssumption DEF Time
      <4>. QED
        BY <4>1, <4>2 DEF BallotConsent
    <3>3. now # None
      BY <1>1, MembershipAssumption
    <3>. QED
      BY <1>1, <1>3, <1>6, <2>2, <3>1, <3>2, <3>3
  <2>. QED
    BY <1>2, <2>1, <2>2
<1>11. LocalTo(new, now, s)
  <2>1. \A i \in DOMAIN core.consents :
           i \in DOMAIN new.consents /\ new.consents[i] = WithdrawnNow(s)[i]
    BY <1>2, <1>6, <1>7 DEF old
  <2>2. \A i \in DOMAIN new.consents \ DOMAIN core.consents :
           new.consents[i].subject = s /\ new.consents[i].granted >= now
    BY <1>1, <1>2, <1>5, <1>6, <1>7
  <2>. QED
    BY <1>7, <2>1, <2>2, ChangeIsLocal
<1>. QED
  BY <1>7, <1>8, <1>10, <1>11 DEF CommandOK

(* Withdrawing consents leaves a sound core. *)
LEMMA WithdrawnIsSound ==
    ASSUME MembershipInv, NEW s \in Subjects, NEW new \in CoreState,
           new.consents = WithdrawnNow(s), new.releases = core.releases
    PROVE  SoundCore(new, now)
<1>1. CurrentRelease(new) = CurrentRelease(core) /\ now # None
  BY MembershipAssumption DEF CurrentRelease, MembershipInv, MembershipTypeOK
<1>2. /\ DOMAIN new.consents = DOMAIN core.consents
      /\ \A i \in DOMAIN core.consents :
            /\ new.consents[i].granted = core.consents[i].granted
            /\ new.consents[i].notice = core.consents[i].notice
            /\ IF i \in Live(core, s) THEN new.consents[i].withdrawn = now
               ELSE new.consents[i] = core.consents[i]
  BY WithdrawnNowType DEF MembershipInv
<1>. QED
  BY <1>1, <1>2 DEF SoundCore, MembershipInv, CoresInv

(* process_privacy_request, a consent withdrawal *)
LEMMA WithdrawOK ==
    ASSUME MembershipInv, NEW s \in Subjects, WithdrawConsent(s)
    PROVE  \E new : Transition(new, now, s, None) /\ CommandOK(new, now, s, None)
<1>. DEFINE new == [core EXCEPT !.consents = WithdrawnNow(s)]
<1>1. core \in CoreState /\ WithdrawnNow(s) \in Seq(BallotConsent)
      /\ DOMAIN WithdrawnNow(s) = DOMAIN core.consents
  BY WithdrawnNowType DEF MembershipInv, MembershipTypeOK
<1>2. /\ new \in CoreState /\ new.consents = WithdrawnNow(s)
      /\ new.releases = core.releases /\ new.members = core.members
  BY <1>1 DEF CoreState
<1>3. Transition(new, now, s, None)
  BY DEF WithdrawConsent
<1>. HIDE DEF new
<1>4. LocalTo(new, now, s)
  BY <1>1, <1>2, ChangeIsLocal DEF MembershipInv
<1>. QED
  BY <1>2, <1>3, <1>4, WithdrawnIsSound DEF CommandOK

(* process_privacy_request, a deletion *)
LEMMA DeleteOK ==
    ASSUME MembershipInv, NEW s \in Subjects, DeleteSubject(s)
    PROVE  \E new : Transition(new, now, s, None) /\ CommandOK(new, now, s, None)
<1>. DEFINE m == [core.members[s] EXCEPT !.bound = FALSE, !.deleted = now]
            new == [core EXCEPT !.consents = WithdrawnNow(s),
                                !.members[s].bound = FALSE, !.members[s].deleted = now]
<1>1. core \in CoreState /\ WithdrawnNow(s) \in Seq(BallotConsent) /\ now \in Time
      /\ DOMAIN WithdrawnNow(s) = DOMAIN core.consents
  BY WithdrawnNowType, MembershipAssumption DEF MembershipInv, MembershipTypeOK, Time
<1>2. /\ m \in Member /\ m.enrolled = core.members[s].enrolled
      /\ m.created = core.members[s].created /\ m.deleted = now
  BY <1>1 DEF CoreState, Member
<1>3. new = [core EXCEPT !.consents = WithdrawnNow(s),
                         !.members = [core.members EXCEPT ![s] = m]]
  BY <1>1 DEF CoreState, Member
<1>4. Transition(new, now, s, None)
  BY DEF DeleteSubject
<1>. HIDE DEF m, new
<1>5. /\ new \in CoreState /\ new.consents = WithdrawnNow(s)
      /\ new.releases = core.releases /\ new.members = [core.members EXCEPT ![s] = m]
  BY <1>1, <1>2, <1>3 DEF CoreState
<1>6. \A r \in Subjects :
         /\ new.members[r].enrolled = core.members[r].enrolled
         /\ new.members[r].created = core.members[r].created
         /\ \/ new.members[r].deleted = core.members[r].deleted
            \/ r = s /\ new.members[r].deleted = now
  BY <1>1, <1>2, <1>5 DEF CoreState
<1>7. LocalTo(new, now, s)
  BY <1>1, <1>5, <1>6, ChangeIsLocal DEF MembershipInv
<1>. QED
  BY <1>4, <1>5, <1>7, WithdrawnIsSound DEF CommandOK

(* A core with the same consents and releases is as sound; with the same   *)
(* dates on the members, they are members at the same times.               *)
LEMMA SameDates ==
    ASSUME MembershipInv, NEW new \in CoreState, new.consents = core.consents,
           \A r \in Subjects :
              /\ new.members[r].enrolled = core.members[r].enrolled
              /\ new.members[r].created = core.members[r].created
              /\ new.members[r].deleted = core.members[r].deleted
    PROVE  \A subject : LocalTo(new, now, subject)
BY DEF LocalTo, MembersAt

(* decide_recovery of a deleted subject's case *)
LEMMA RebindOK ==
    ASSUME MembershipInv, NEW s \in Subjects, RebindDeleted(s)
    PROVE  \E new : Transition(new, now, s, None) /\ CommandOK(new, now, s, None)
<1>. DEFINE m == [core.members[s] EXCEPT !.bound = TRUE]
            new == [core EXCEPT !.members[s].bound = TRUE]
<1>1. core \in CoreState
  BY DEF MembershipInv, MembershipTypeOK
<1>2. /\ m \in Member /\ m.enrolled = core.members[s].enrolled
      /\ m.created = core.members[s].created /\ m.deleted = core.members[s].deleted
  BY <1>1 DEF CoreState, Member
<1>3. new = [core EXCEPT !.members = [core.members EXCEPT ![s] = m]]
  BY <1>1 DEF CoreState, Member
<1>4. Transition(new, now, s, None)
  BY DEF RebindDeleted
<1>. HIDE DEF m, new
<1>5. /\ new \in CoreState /\ new.consents = core.consents
      /\ new.releases = core.releases /\ new.members = [core.members EXCEPT ![s] = m]
  BY <1>1, <1>2, <1>3 DEF CoreState
<1>6. LocalTo(new, now, s)
  BY <1>1, <1>2, <1>5, SameDates DEF CoreState
<1>7. SoundCore(new, now)
  BY <1>5 DEF MembershipInv, CoresInv, SoundCore, CurrentRelease
<1>. QED
  BY <1>4, <1>5, <1>6, <1>7 DEF CommandOK

(* register_operator_release: every consent is from before the release. *)
LEMMA RegisterOK ==
    ASSUME MembershipInv, NEW r \in Releases, RegisterRelease(r)
    PROVE  \E new : Transition(new, now, None, None) /\ CommandOK(new, now, None, None)
<1>. DEFINE rel == [version |-> r.version, notice |-> r.notice, activated |-> now]
            new == [core EXCEPT !.releases = Append(core.releases, rel)]
<1>1. core \in CoreState /\ now \in Time /\ core.releases \in Seq(Release)
  BY MembershipAssumption DEF MembershipInv, MembershipTypeOK, CoreState, Time
<1>2. rel \in Release /\ rel.activated = now
  BY <1>1, MembershipAssumption DEF Release
<1>3. Transition(new, now, None, None)
  BY DEF RegisterRelease
<1>. HIDE DEF rel
<1>4. /\ Append(core.releases, rel) \in Seq(Release)
      /\ Append(core.releases, rel) # <<>>
      /\ Append(core.releases, rel)[Len(Append(core.releases, rel))] = rel
  BY <1>1, <1>2, AppendProperties
<1>5. /\ new \in CoreState /\ new.consents = core.consents
      /\ new.releases = Append(core.releases, rel) /\ new.members = core.members
  BY <1>1, <1>4 DEF CoreState
<1>. HIDE DEF new
<1>6. CurrentRelease(new) = rel
  BY <1>4, <1>5 DEF CurrentRelease
<1>7. SoundCore(new, now)
  BY <1>2, <1>4, <1>5, <1>6 DEF MembershipInv, CoresInv, SoundCore
<1>8. LocalTo(new, now, None)
  BY <1>5, SameDates
<1>. QED
  BY <1>3, <1>5, <1>7, <1>8 DEF CommandOK

(* present_member: the subject is one of the members of the digest. *)
LEMMA PresentOK ==
    ASSUME MembershipInv, NEW s \in Subjects, NEW poll \in Polls, NEW digest, NEW at,
           PresentMember(s, poll, digest, at)
    PROVE  \E issue : Transition(core, now, s, issue) /\ CommandOK(core, now, s, issue)
<1>. DEFINE issue == [subject |-> s, poll |-> poll, digest |-> digest]
<1>1. core \in CoreState /\ core.releases # <<>> /\ SoundCore(core, now)
  BY DEF MembershipInv, MembershipTypeOK, CoresInv, SoundCore
<1>2. digest = DigestAt(core, at) /\ s \in MembersAt(core, at)
      /\ Transition(core, now, s, issue)
  BY DEF PresentMember
<1>3. digest \in Digest /\ s \in digest[3]
  BY <1>1, <1>2, DigestType
<1>4. issue \in Presentation /\ Eligible(issue)
  BY <1>3 DEF Presentation, Eligible
<1>5. LocalTo(core, now, s)
  BY <1>1, SameDates
<1>. QED
  BY <1>1, <1>2, <1>4, <1>5 DEF CommandOK

-----------------------------------------------------------------------------
(* The invariant. *)

(* A transition that keeps its promises keeps the invariant. *)
LEMMA TransitionInv ==
    ASSUME MembershipInv, NEW new, NEW t, NEW subject, NEW issue,
           Transition(new, t, subject, issue), CommandOK(new, t, subject, issue)
    PROVE  MembershipInv'
<1>1. /\ now \in Nat /\ t \in Nat /\ now <= t /\ now' = t /\ t \in 0..MaxTime
      /\ UNCHANGED <<core, reader, snapshots, presentations>>
      /\ tx' = [core |-> new, from |-> now, subject |-> subject, issue |-> issue]
  BY MembershipAssumption DEF Transition, MembershipInv, MembershipTypeOK
<1>2. tx'.core = new /\ tx'.from = now /\ tx'.subject = subject /\ tx'.issue = issue
  BY <1>1
<1>3. MembershipTypeOK'
  <2>1. tx' \in TxRecord'
    BY <1>1 DEF CommandOK, TxRecord
  <2>2. snapshots \in Seq([at : 0..t, digest : Digest, disturbed : SUBSET Subjects])
    <3>1. [at : 0..now, digest : Digest, disturbed : SUBSET Subjects]
            \subseteq [at : 0..t, digest : Digest, disturbed : SUBSET Subjects]
      BY <1>1
    <3>. QED
      BY <3>1, SeqMonotonic DEF MembershipInv, MembershipTypeOK
  <2>3. ReaderRecord' = ReaderRecord
    BY DEF ReaderRecord
  <2>. QED
    BY <1>1, <2>1, <2>2, <2>3 DEF MembershipInv, MembershipTypeOK
<1>4. SoundCore(core, t)
  <2>. DEFINE cs == core.consents
  <2>1. \A i \in DOMAIN cs : cs[i] \in BallotConsent
    BY LenProperties, ElementOfSeq DEF MembershipInv, MembershipTypeOK, CoreState
  <2>2. Time \subseteq Int
    BY MembershipAssumption DEF Time
  <2>3. \A i \in DOMAIN cs : cs[i].granted \in Int /\ cs[i].granted <= now
    BY <2>1, <2>2 DEF MembershipInv, CoresInv, SoundCore, BallotConsent
  <2>4. \A i \in DOMAIN cs : cs[i].granted <= t
    BY <1>1, <2>3
  <2>. QED
    BY <2>4 DEF MembershipInv, CoresInv, SoundCore
<1>5. CoresInv'
  <2>1. LocalTo(new, now, subject) /\ SoundCore(new, t)
    BY DEF CommandOK
  <2>2. LocalTo(tx.core, tx.from, tx.subject)'
    BY <1>1, <1>2, <2>1 DEF LocalTo
  <2>3. SoundCore(tx.core, now)' /\ SoundCore(core, now)'
    BY <1>1, <1>2, <1>4, <2>1 DEF SoundCore
  <2>. QED
    BY <1>1, <2>2, <2>3 DEF MembershipInv, CoresInv
<1>6. IssuedInv'
  BY <1>1, <1>2 DEF CommandOK, MembershipInv, IssuedInv
<1>7. ReaderInv' /\ FrozenUnlessRaced'
  BY <1>1 DEF MembershipInv, ReaderInv, FrozenUnlessRaced
<1>. QED
  BY <1>3, <1>5, <1>6, <1>7 DEF MembershipInv

(* A commit: what the transaction promised of its core becomes true of the *)
(* committed one, and whoever it disturbs is recorded.                     *)
LEMMA CommitInv ==
    ASSUME MembershipInv, Commit
    PROVE  MembershipInv'
<1>1. /\ tx # None /\ tx \in TxRecord /\ core' = tx.core /\ tx' = None /\ now' = now
      /\ core' \in CoreState /\ tx.from <= MaxTime
  BY MembershipAssumption DEF Commit, MembershipInv, MembershipTypeOK, TxRecord
<1>2. SoundCore(core', now) /\ LocalTo(core', tx.from, tx.subject)
  BY <1>1 DEF MembershipInv, CoresInv
<1>3. ASSUME NEW at \in 0..MaxTime, NEW s \in Subjects \ Disturbs(at)
      PROVE  s \in MembersAt(core', at) <=> s \in MembersAt(core, at)
  BY <1>1, <1>2, <1>3 DEF LocalTo, Disturbs
<1>4. \A at \in 0..MaxTime : Disturbs(at) \subseteq Disturbs(MaxTime)
  BY <1>1 DEF Disturbs
<1>5. \A at : Disturbs(at) \subseteq Subjects
  BY DEF Disturbs
<1>6. reader # None => /\ reader \in ReaderRecord /\ reader.raced < MaxRaced
                       /\ reader' = [reader EXCEPT !.missed = @ \cup Disturbs(MaxTime),
                                                   !.raced = @ + 1]
  BY DEF Commit, MembershipInv, MembershipTypeOK
<1>7. reader # None => /\ reader' \in ReaderRecord /\ reader'.core = reader.core
                       /\ reader'.missed = reader.missed \cup Disturbs(MaxTime)
  <2>. SUFFICES ASSUME reader # None
                PROVE  /\ reader' \in ReaderRecord /\ reader'.core = reader.core
                       /\ reader'.missed = reader.missed \cup Disturbs(MaxTime)
    OBVIOUS
  <2>1. reader.raced + 1 \in 0..MaxRaced
    BY <1>6, MembershipAssumption DEF ReaderRecord
  <2>2. reader.missed \cup Disturbs(MaxTime) \in SUBSET Subjects
    BY <1>5, <1>6 DEF ReaderRecord
  <2>. HIDE DEF Disturbs
  <2>. QED
    BY <1>6, <2>1, <2>2 DEF ReaderRecord
<1>8. reader = None => reader' = None
  BY DEF Commit
<1>. DEFINE S == [at : 0..now, digest : Digest, disturbed : SUBSET Subjects]
<1>9. snapshots \in Seq(S) /\ DOMAIN snapshots = 1..Len(snapshots) /\ Len(snapshots) \in Nat
      /\ \A k \in DOMAIN snapshots : snapshots[k] \in S
  BY LenProperties, ElementOfSeq DEF MembershipInv, MembershipTypeOK
<1>10. snapshots' = [k \in DOMAIN snapshots |->
           [snapshots[k] EXCEPT !.disturbed = @ \cup Disturbs(snapshots[k].at)]]
  BY DEF Commit
<1>11. \A k \in DOMAIN snapshots :
          /\ snapshots'[k] \in S
          /\ snapshots'[k].at = snapshots[k].at
          /\ snapshots'[k].digest = snapshots[k].digest
          /\ snapshots'[k].disturbed = snapshots[k].disturbed \cup Disturbs(snapshots[k].at)
  BY <1>5, <1>9, <1>10
<1>12. snapshots' \in Seq(S)
  <2>1. snapshots' \in [1..Len(snapshots) -> S]
    BY <1>9, <1>10, <1>11
  <2>. QED
    BY <1>9, <2>1
<1>13. MembershipTypeOK'
  <2>1. presentations' \subseteq Presentation
    BY <1>1 DEF Commit, MembershipInv, MembershipTypeOK, TxRecord
  <2>2. reader' = None \/ reader' \in ReaderRecord'
    BY <1>7, <1>8 DEF ReaderRecord
  <2>. QED
    BY <1>1, <1>12, <2>1, <2>2 DEF MembershipInv, MembershipTypeOK
<1>14. CoresInv'
  <2>1. reader' = None \/ reader'.core.releases # <<>>
    BY <1>7, <1>8 DEF MembershipInv, CoresInv
  <2>2. SoundCore(core, now)'
    BY <1>1, <1>2 DEF SoundCore, CurrentRelease
  <2>. QED
    BY <1>1, <2>1, <2>2 DEF CoresInv
<1>15. IssuedInv'
  BY <1>1 DEF Commit, MembershipInv, IssuedInv
<1>16. ReaderInv'
  <2>. SUFFICES ASSUME reader' # None, NEW s \in Subjects \ reader'.missed,
                       NEW at \in 0..MaxTime
                PROVE  s \in MembersAt(reader'.core, at) <=> s \in MembersAt(core', at)
    BY DEF ReaderInv, MembersAt
  <2>1. reader # None /\ reader'.core = reader.core /\ s \notin reader.missed
        /\ s \notin Disturbs(at)
    BY <1>4, <1>7, <1>8
  <2>2. s \in MembersAt(reader.core, at) <=> s \in MembersAt(core, at)
    BY <2>1 DEF MembershipInv, ReaderInv
  <2>. QED
    BY <1>3, <2>1, <2>2
<1>17. FrozenUnlessRaced'
  <2>. SUFFICES ASSUME NEW k \in DOMAIN snapshots, NEW s \in Subjects,
                       s \in snapshots[k].digest[3] <=> s \notin MembersAt(core', snapshots[k].at)
                PROVE  s \in snapshots'[k].disturbed
    <3>1. \A k \in DOMAIN snapshots : snapshots[k].digest[3] \subseteq Subjects
      BY <1>9 DEF Digest
    <3>2. \A k \in DOMAIN snapshots : MembersAt(core', snapshots[k].at) \subseteq Subjects
      BY DEF MembersAt
    <3>3. DOMAIN snapshots' = DOMAIN snapshots
      BY <1>10
    <3>4. \A k \in DOMAIN snapshots, s \in Subjects :
             (s \in snapshots[k].digest[3] <=> s \notin MembersAt(core', snapshots[k].at))
             => s \in snapshots'[k].disturbed
      OBVIOUS
    <3>. QED
      BY <1>11, <3>1, <3>2, <3>3, <3>4 DEF FrozenUnlessRaced, MembersAt
  <2>1. snapshots[k].at \in 0..MaxTime
    BY <1>9, MembershipAssumption DEF MembershipInv, MembershipTypeOK
  <2>2. CASE s \in Disturbs(snapshots[k].at)
    BY <1>11, <2>2
  <2>3. CASE s \notin Disturbs(snapshots[k].at)
    <3>1. s \in snapshots[k].digest[3] <=> s \notin MembersAt(core, snapshots[k].at)
      BY <1>3, <2>1, <2>3
    <3>. QED
      BY <1>11, <3>1 DEF MembershipInv, FrozenUnlessRaced
  <2>. QED
    BY <2>2, <2>3
<1>. QED
  BY <1>13, <1>14, <1>15, <1>16, <1>17 DEF MembershipInv

(* member_snapshot signs the members of the core that was loaded; those of *)
(* the committed core differ only in subjects that the reader missed.      *)
LEMMA SnapshotInv ==
    ASSUME MembershipInv, MemberSnapshot
    PROVE  MembershipInv'
<1>. DEFINE S == [at : 0..now, digest : Digest, disturbed : SUBSET Subjects]
            snap == [at |-> now, digest |-> DigestAt(reader.core, now),
                     disturbed |-> reader.missed]
            len == Len(snapshots)
<1>1. /\ reader \in ReaderRecord /\ reader # None /\ reader' = None
      /\ snapshots' = Append(snapshots, snap)
      /\ UNCHANGED <<now, core, tx, presentations>>
  BY DEF MemberSnapshot, MembershipInv, MembershipTypeOK
<1>2. now \in 0..MaxTime /\ now \in 0..now
  BY MembershipAssumption DEF MembershipInv, MembershipTypeOK
<1>3. /\ reader.core \in CoreState /\ reader.core.releases # <<>>
      /\ reader.missed \subseteq Subjects
  BY <1>1 DEF ReaderRecord, MembershipInv, CoresInv
<1>4. DigestAt(reader.core, now) \in Digest
      /\ DigestAt(reader.core, now)[3] = MembersAt(reader.core, now)
  BY <1>3, DigestType
<1>5. /\ snap \in S /\ snap.at = now /\ snap.disturbed = reader.missed
      /\ snap.digest[3] = MembersAt(reader.core, now)
  BY <1>2, <1>3, <1>4
<1>. HIDE DEF snap
<1>6. snapshots \in Seq(S)
  BY DEF MembershipInv, MembershipTypeOK
<1>. HIDE DEF S
<1>7. /\ snapshots' \in Seq(S) /\ DOMAIN snapshots' = 1..(len + 1) /\ len \in Nat
      /\ DOMAIN snapshots = 1..len
      /\ snapshots'[len + 1] = snap /\ \A k \in 1..len : snapshots'[k] = snapshots[k]
  BY <1>1, <1>5, <1>6, AppendProperties, LenProperties
<1>8. MembershipTypeOK'
  BY <1>1, <1>7 DEF S, MembershipInv, MembershipTypeOK, TxRecord, ReaderRecord
<1>9. CoresInv' /\ IssuedInv' /\ ReaderInv'
  <2>1. SoundCore(core, now)'
    BY <1>1 DEF MembershipInv, CoresInv, SoundCore, CurrentRelease
  <2>2. tx' = None \/ (SoundCore(tx.core, now)' /\ LocalTo(tx.core, tx.from, tx.subject)')
    BY <1>1 DEF MembershipInv, CoresInv, SoundCore, CurrentRelease, LocalTo, MembersAt
  <2>3. CoresInv' /\ ReaderInv'
    BY <1>1, <2>1, <2>2 DEF CoresInv, ReaderInv
  <2>4. IssuedInv'
    BY <1>1 DEF MembershipInv, IssuedInv
  <2>. QED
    BY <2>3, <2>4
<1>10. FrozenUnlessRaced'
  <2>1. ASSUME NEW s \in Subjects \ reader.missed
        PROVE  s \in MembersAt(reader.core, now) <=> s \in MembersAt(core, now)
    BY <1>1, <1>2, <2>1 DEF MembershipInv, ReaderInv
  <2>2. /\ MembersAt(reader.core, now) \subseteq Subjects
        /\ MembersAt(core, now) \subseteq Subjects
    BY DEF MembersAt
  <2>. DEFINE Frozen(k) ==
         (snapshots'[k].digest[3] \ MembersAt(core, snapshots'[k].at))
           \cup (MembersAt(core, snapshots'[k].at) \ snapshots'[k].digest[3])
           \subseteq snapshots'[k].disturbed
  <2>3. Frozen(len + 1)
    BY <1>5, <1>7, <2>1, <2>2
  <2>4. ASSUME NEW k \in 1..len PROVE Frozen(k)
    BY <1>7, <2>4 DEF MembershipInv, FrozenUnlessRaced
  <2>5. \A k \in 1..(len + 1) : Frozen(k)
    <3>. HIDE DEF Frozen
    <3>. QED
      BY <1>7, <2>3, <2>4
  <2>. QED
    BY <1>1, <1>7, <2>5 DEF FrozenUnlessRaced, MembersAt
<1>. QED
  BY <1>8, <1>9, <1>10 DEF MembershipInv

(* The remaining steps move the clock, the reader or the lock only. *)
LEMMA OtherStepsInv ==
    ASSUME MembershipInv,
           Rollback \/ LoadCore \/ RefuseSnapshot \/ Tick \/ UNCHANGED membershipVars
    PROVE  MembershipInv'
<1>1. /\ now \in Nat /\ now' \in now..MaxTime /\ now' \in Nat
      /\ UNCHANGED <<core, snapshots, presentations>>
      /\ tx' = None \/ tx' = tx
      /\ \/ reader' = None \/ reader' = reader
         \/ reader' = [core |-> core, missed |-> {}, raced |-> 0]
  BY MembershipAssumption
  DEF Rollback, LoadCore, RefuseSnapshot, Tick, membershipVars, MembershipInv, MembershipTypeOK
<1>2. MembershipTypeOK'
  <2>1. [at : 0..now, digest : Digest, disturbed : SUBSET Subjects]
          \subseteq [at : 0..now', digest : Digest, disturbed : SUBSET Subjects]
    BY <1>1
  <2>2. snapshots \in Seq([at : 0..now', digest : Digest, disturbed : SUBSET Subjects])
    BY <2>1, SeqMonotonic DEF MembershipInv, MembershipTypeOK
  <2>3. tx' = None \/ tx' \in TxRecord'
    BY <1>1 DEF MembershipInv, MembershipTypeOK, TxRecord
  <2>4. reader' = None \/ reader' \in ReaderRecord'
    BY <1>1, MembershipAssumption DEF MembershipInv, MembershipTypeOK, ReaderRecord
  <2>5. now' \in 0..MaxTime
    BY <1>1, MembershipAssumption
  <2>. QED
    BY <1>1, <2>2, <2>3, <2>4, <2>5 DEF MembershipInv, MembershipTypeOK
<1>3. \A c \in CoreState : SoundCore(c, now) => SoundCore(c, now')
  <2>. SUFFICES ASSUME NEW c \in CoreState, SoundCore(c, now) PROVE SoundCore(c, now')
    OBVIOUS
  <2>1. \A i \in DOMAIN c.consents : c.consents[i] \in BallotConsent
    BY LenProperties, ElementOfSeq DEF CoreState
  <2>2. Time \subseteq Int
    BY MembershipAssumption DEF Time
  <2>3. \A i \in DOMAIN c.consents :
           c.consents[i].granted \in Int /\ c.consents[i].granted <= now
    BY <2>1, <2>2 DEF SoundCore, BallotConsent
  <2>4. \A i \in DOMAIN c.consents : c.consents[i].granted <= now'
    BY <1>1, <2>3
  <2>. QED
    BY <2>4 DEF SoundCore
<1>4. SoundCore(core, now') /\ core.releases # <<>>
  BY <1>3 DEF MembershipInv, MembershipTypeOK, CoresInv, SoundCore
<1>5. CoresInv'
  <2>1. tx' = None \/ SoundCore(tx'.core, now')
    BY <1>1, <1>3 DEF MembershipInv, MembershipTypeOK, CoresInv, TxRecord
  <2>2. tx' = None \/ LocalTo(tx'.core, tx'.from, tx'.subject)
    BY <1>1 DEF MembershipInv, CoresInv
  <2>3. reader' = None \/ reader'.core.releases # <<>>
    BY <1>1, <1>4 DEF MembershipInv, CoresInv
  <2>4. SoundCore(core, now)'
    BY <1>1, <1>4 DEF SoundCore, CurrentRelease
  <2>5. tx' = None \/ SoundCore(tx.core, now)'
    BY <2>1 DEF SoundCore, CurrentRelease
  <2>6. tx' = None \/ LocalTo(tx.core, tx.from, tx.subject)'
    BY <1>1, <2>2 DEF LocalTo, MembersAt
  <2>. QED
    BY <2>3, <2>4, <2>5, <2>6 DEF CoresInv
<1>6. IssuedInv'
  BY <1>1 DEF MembershipInv, IssuedInv
<1>7. ReaderInv' /\ FrozenUnlessRaced'
  BY <1>1 DEF MembershipInv, ReaderInv, FrozenUnlessRaced
<1>. QED
  BY <1>2, <1>5, <1>6, <1>7 DEF MembershipInv

(* Every step keeps the invariant. *)
LEMMA MembershipStep ==
    ASSUME MembershipInv, [MembershipNext]_membershipVars
    PROVE  MembershipInv'
<1>1. ASSUME NEW s \in Subjects, NEW n \in Notices, NEW t \in Time, AcceptConsent(s, n, t)
      PROVE  MembershipInv'
  BY <1>1, AcceptOK, TransitionInv
<1>2. ASSUME NEW s \in Subjects, CreateSubject(s) PROVE MembershipInv'
  BY <1>2, CreateOK, TransitionInv
<1>3. ASSUME NEW s \in Subjects, WithdrawConsent(s) PROVE MembershipInv'
  BY <1>3, WithdrawOK, TransitionInv
<1>4. ASSUME NEW s \in Subjects, DeleteSubject(s) PROVE MembershipInv'
  BY <1>4, DeleteOK, TransitionInv
<1>5. ASSUME NEW s \in Subjects, RebindDeleted(s) PROVE MembershipInv'
  BY <1>5, RebindOK, TransitionInv
<1>6. ASSUME NEW r \in Releases, RegisterRelease(r) PROVE MembershipInv'
  BY <1>6, RegisterOK, TransitionInv
<1>7. ASSUME NEW s \in Subjects, NEW poll \in Polls, NEW d \in IssuedDigests,
             NEW at \in Time, PresentMember(s, poll, d, at)
      PROVE  MembershipInv'
  BY <1>7, PresentOK, TransitionInv
<1>8. CASE Commit
  BY <1>8, CommitInv
<1>9. CASE MemberSnapshot
  BY <1>9, SnapshotInv
<1>10. CASE Rollback \/ LoadCore \/ RefuseSnapshot \/ Tick \/ UNCHANGED membershipVars
  BY <1>10, OtherStepsInv
<1>. QED
  BY <1>1, <1>2, <1>3, <1>4, <1>5, <1>6, <1>7, <1>8, <1>9, <1>10 DEF MembershipNext

(* The first release, no subject and no consent. *)
LEMMA MembershipInitInv ==
    ASSUME MembershipInit
    PROVE  MembershipInv
<1>1. PICK r \in Releases :
        core = [members |-> [s \in Subjects |-> NotEnrolled], consents |-> <<>>,
                releases |-> <<[version |-> r.version, notice |-> r.notice,
                                activated |-> 0]>>]
  BY DEF MembershipInit
<1>. DEFINE rel == [version |-> r.version, notice |-> r.notice, activated |-> 0]
<1>2. rel \in Release /\ 0 \in Time
  BY MembershipAssumption DEF Release, Time
<1>3. NotEnrolled \in Member
  BY <1>2 DEF NotEnrolled, Member
<1>4. core.releases = <<rel>> /\ core.consents = <<>>
      /\ core.members = [s \in Subjects |-> NotEnrolled]
  BY <1>1
<1>. HIDE DEF rel
<1>5. core \in CoreState /\ core.releases # <<>>
  BY <1>1, <1>2, <1>3, <1>4 DEF CoreState, rel
<1>6. MembershipTypeOK
  BY <1>5, MembershipAssumption DEF MembershipInit, MembershipTypeOK
<1>7. SoundCore(core, now)
  BY <1>4, <1>5 DEF SoundCore
<1>8. CoresInv /\ IssuedInv /\ ReaderInv
  BY <1>7 DEF MembershipInit, CoresInv, IssuedInv, ReaderInv
<1>9. FrozenUnlessRaced
  <2>1. DOMAIN snapshots = {}
    BY DEF MembershipInit
  <2>. QED
    BY <2>1 DEF FrozenUnlessRaced
<1>. QED
  BY <1>6, <1>8, <1>9 DEF MembershipInv

-----------------------------------------------------------------------------
(* The theorems. *)

(* MembershipInv is an invariant of every behaviour of the release. *)
THEOREM MembershipInvariant == MembershipSpec => []MembershipInv
<1>1. MembershipInit => MembershipInv
  BY MembershipInitInv
<1>2. MembershipInv /\ [MembershipNext]_membershipVars => MembershipInv'
  BY MembershipStep
<1>. QED
  BY <1>1, <1>2, PTL DEF MembershipSpec

(* Records, snapshots and presentations have their types. *)
THEOREM MembershipTypeCorrect == MembershipSpec => []MembershipTypeOK
BY MembershipInvariant, PTL DEF MembershipInv

(* The members computed again for the date of a snapshot are the members   *)
(* it was signed for, but for subjects of commands that raced with it and  *)
(* subjects deleted twice, however long the release lives.                 *)
THEOREM SnapshotsAreFrozen == MembershipSpec => []FrozenUnlessRaced
BY MembershipInvariant, PTL DEF MembershipInv

(* Whoever has a presentation for a signed snapshot is one of the members  *)
(* that it was signed for, for any number of subjects and polls.           *)
THEOREM PresentationsAreEligible == MembershipSpec => []PresentedWithinSnapshot
<1>1. MembershipInv => PresentedWithinSnapshot
  BY DEF MembershipInv, IssuedInv, Eligible, PresentedWithinSnapshot
<1>. QED
  BY <1>1, MembershipInvariant, PTL

(* A live consent to an old notice is from before the current release,     *)
(* after any sequence of releases, renewals and withdrawals.               *)
THEOREM OldNoticesAreOld == MembershipSpec => []OldNoticeOnlyFromBefore
<1>1. MembershipInv => OldNoticeOnlyFromBefore
  BY DEF MembershipInv, CoresInv, SoundCore, OldNoticeOnlyFromBefore, Live
<1>. QED
  BY <1>1, MembershipInvariant, PTL
=============================================================================
