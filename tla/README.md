# TLA+ verification of the KYN trust core

KYN (`src/src/kyn`) is a service that records who may vouch for whom, derives
credentials from attestations, audits and challenges, and runs every change as
a signed, replay-safe command against PostgreSQL. This directory models its core
in TLA+, checks it with TLC on small instances and proves the central properties
with TLAPS for every instance.

## 1. The system

| component | state | operations | interacts with |
|---|---|---|---|
| authority grants (`service.py`, 390–637, 1765–1905) | `_authority_grants`, the `agr` counter | bootstrap, grant, promote, revoke with cascade, metered use | every privileged handler consumes a grant; a privacy request revokes a holder's grants |
| claims, attestations, credentials (`service.py`, 173–189, 639–665, 831–1288, 1611–1697) | claims, requests, invitations, introductions, attestations, audits, challenges, credentials | register, request, invite, introduce, attest, audit, challenge, respond, decide, appeal, status, present | reads grants; `_recalculate` derives the credential after each change |
| enrolment, release, consent, recovery, privacy (`service.py`, 191–388, 667–735, 1699–1739) | subjects with their keys, releases, consents, recovery commitments and cases, privacy requests | enrol, activate, release, consent, commit, request and decide recovery, open and process privacy requests | the key binding decides who can sign; a privacy request reaches into grants, attestations and credentials |
| durable execution (`persistence.py`, `api.py`, `auth.py`) | the `kyn_state` row, the `kyn_commands` table | look up key, verify proof, check replay, lock, transition, commit, answer | runs every operation above, concurrently, and may crash |
| member snapshot (`service.py`, 1290–1425) | none of its own; the dates on subjects, consents and releases | freeze and present eligibility as of an earlier time | reads consents, releases, subjects, the snapshot without the row lock |
| secret provisioning (`provision.py`, `config.py`) | the files of the secret directory | create once, repair, verify | the service reads the files when it starts; the rotation script runs the tool |
| activation client (`activation.py`) | prepared requests, evidence files | prepare, submit, record | reads the token file, calls `activate_bootstrap` |
| deployment scripts (`src/deploy`) | the live and the rollback directories, restic snapshots, evidence of rotation and restore, the backup timer | rotate with rollback, back up, restore-test | stop, move and start what the client and the service use |
| migration (`migrate.py`), legacy verifier grants | schema version; in-memory grants | apply pinned files; grant and revoke | see section 5 |

What is hard in it, each listed with its line under `hazards` in `PROJECT.json`:

* long sequences of legal calls over shared tables (delegate, promote, revoke,
  delete; attest, audit, challenge, appeal; commit, request, reject, delete,
  approve) where each handler checks a few records only;
* derived state that must follow every change (`_recalculate`);
* values checked in one command and used in a later one (replacement key, stored
  credential state) or read outside the transaction (participant key);
* concurrent deliveries, retries, a first row that does not exist yet, crashes
  between commit and answer;
* a past state computed again from current records, while commands dated before it
  may still commit;
* operator tools made of many fallible commands, which other tools and the service
  run beside, and which leave evidence that others rely on.

The properties that make each component correct are the ones of section 3.

## 2. The modules

| module | models | built on |
|---|---|---|
| `Authority` | the grant table; the handlers of other components appear as `UseAuthority` and `InvalidateHolder` | |
| `RevocationLoop` | the grant table with `revoke_authority` taken apart into its loop: the checks, the sweeps over the table, the marks | refines `Authority` |
| `Assurance` | claims, invitations, introductions, attestations, audits, challenges, credentials; each privileged handler conjoins the action of `Authority` that it performs | `Authority` |
| `Identity` | enrolment, release, consent, recovery and privacy; adds them to the handlers of `Assurance`, so `IdentityNext` is the whole core | `Assurance` |
| `CommandLog` | abstract: what clients are promised | |
| `DurableService` | one signed command through key lookup, proof, replay check, lock, commit and answer, interleaved | refines `CommandLog` |
| `Membership` | the records that eligibility depends on, with their dates; commands that stamp, then commit or roll back; snapshot and presentation | |
| `Provisioning` | `kyn-provision-secrets`, system call by system call | |
| `Activation` | the activation client, the wire, the bootstrap endpoint | `Provisioning` |
| `Deployment` | `docker compose up`, the rotation script with its trap, backup and restore test, composed with the two above | `Activation` |
| `AuthorityProofs`, `RevocationLoopProofs`, `AssuranceProofs`, `IdentityProofs`, `DurableProofs`, `MembershipProofs`, `DeploymentProofs` | theorems and proofs about the module of that name (`CommandLog` holds its own one); `RevocationLoopProofs` and `AssuranceProofs` extend `AuthorityProofs`, and `IdentityProofs` extends `AssuranceProofs` | the module of that name |
| `MCAuthority`, `MCAssurance`, `MCIdentity`, `MCDurable`, `MCMembership`, `MCDeployment` | instances for TLC | |

The transition of an operation of the core is one atomic action: `execute` runs it
inside one transaction and a `TrustCoreError` rolls it back, so a refused call changes
nothing. That this is justified although deliveries interleave is what
`DurableService` is about. `PROJECT.json` maps every definition to its lines.

The participant key is not part of that transaction. A handler looks it up through
`load_core`, verifies the proof with it and only then calls `execute`, whose transition
asks no more than that the subject exists (`api.py`, 667–676). A deletion may commit in
between. `DurableService` has the lookup as a step of its own. In `Identity` and
`Membership` a request of a subject that was enrolled may commit even if he has no key
any more (`Authorized`), and in `Assurance` the handlers that consume no grant of the
signer ask for no key; those that consume one find it revoked by the deletion, inside
the transaction.

Data are abstracted to what the properties tell apart. Ids are positions in the
tables; dates are small numbers and `Tick` is the clock; a signature is the key
that made it; an independence path is the introducer it is a keyed hash of; a
revocation records only which operation made it; the snapshot in
`DurableService` is the history of commands that made it plus the key bindings.
Events and receipts are left out except for the receipt of a command.
`CredentialStatus` stores what it recalculates, as the method does on a core that
is kept; the HTTP handler calls it on a copy, which is a behaviour without that
step. The models assume the policy that `main.py` sets: authority and
release enforced, consent required. Under it the HTTP API issues only peer
attestations with an introduction and the root's bootstrap voucher.

`Membership` splits a command where that matters to it: the transition reads the
clock under the row lock and the commit comes later, so a snapshot request can
load the state and read the clock in between. A digest is the tuple it is a digest
of. Consents are those to the ballot, so a renewal without it is a withdrawal.
Its initial state is the one after an activation with the ordinary release.

In `Deployment` each command of a script is a step, which may fail or be the last before
a kill. The content of a secret is the run of the tool that made it, so a rotated secret
differs from the one before and a URL matches a database by the password it was made
with; a database is its password and its commands. A request is its draft and its nonce,
and is fresh or stale. A restore test compares counts, as the script does, and records
whether the snapshot really held the commands. A draft is made once a restore has
passed, since it cites that evidence. Left out: two runs of the tool at once, a `down`
that fails inside the rollback, secrets of the same kind as the token, and the timer's
effect, since a backup may also be started by hand at any time. `raced`, `newborn`,
`undone`, `missed`, `disturbed` and `overtaken` are history that the properties read; no
guard does, but for `MaxRaced`, which bounds the commits that race one snapshot.

Definitions whose comment begins with "Mutant" are variants of the definition
below them with a plausible bug. No specification uses them; `PROJECT.json`
names, for every property of a passing run, the variant that TLC must catch.

## 3. What the runs check

Passing runs:

| run | properties | bounds |
|---|---|---|
| `authority` | `DelegationOnlyNarrows`, `RootedAuthority`, `UseWithinCap`, `CascadeComplete`, `LoopCollectsSubtree`, `RevocationSparesAncestors`, `GrantTermsFixed` | 2 holders, 4 grants (root, two levels, a sibling or a promotion), clock 0..1, three kinds of offer, every revocation by its loop; 177 000 states |
| `disputes` | `CredentialsFollowEvidence`, `NoSelfCorroboration`, `OnlyAppealRestores`, `DeletedCannotCorroborate`, `CredentialNeverSoftens` | seeded with a claim, two invited and introduced verifiers; 2 attestations, 2 challenges, a verifier's deletion and a clock that lapses attestations; 438 000 states |
| `journey` | `AttestationsMetered`, `AuthoritySpec` | from the empty core: bootstrap, delegation with cap 1, claim, attestation, audit, promotion, deletion; 206 000 states |
| `identity` | `CommitmentsSingleUse`, `PendingRecoveryIsBacked`, `SharedKeyIsRecovered`, `ReleaseNeverLost`, `ConsentEndsWithBinding` | 2 subjects, 3 keys, 2 releases, 2 consents, a claim, 2 commitments, 2 cases, 1 privacy request; 1 300 000 states |
| `durable` | `EffectsOnce`, `OneReceiptPerCommand`, `FailureMeansNoEffect`, `SnapshotMatchesCommands`, `EffectsUnderKnownKey`, `ImplementsCommandLog`, `RequestsEnd` | 3 deliveries, 8 messages (two enrolments, an act, a reused nonce, a recovery request under the replacement key, its approval, an act under the new key, a deletion), a crash, no symmetry; 195 000 states |
| `membership` | `FrozenUnlessRaced`, `PresentedWithinSnapshot`, `OldNoticeOnlyFromBefore` | 2 subjects, clock 0..2, 2 consents, 2 releases with different notices, a snapshot, a presentation, at most one commit while a snapshot is made; 4 610 000 states |
| `deployment` | `ProvisionedIsUsable`, `RotationEvidenceIsTrue`, `EvidenceStaysTrue`, `ActivationSurvives`, `RestorePassedIsSound` | 2 runs of the provisioning tool over an empty directory or one file the operator made (good, short or empty), 2 prepared requests, 2 submissions, 2 evidence paths, a rotation, 2 databases, any number of backups and restore tests; 3 700 000 states |

Each module's type invariant is checked in its first run. Two attestations are
the fewest with which duplicates, order dependence and thresholds arise; two
challenges on one attestation are the fewest for an appeal of one while the other
stands; two cases allow rejection, a further request and approval under one
commitment, and with two commitments two recoveries; three deliveries allow a
retry, a competing command and a crash at once, or an enrolment, a recovery and a
command authenticated under the old key before it. For a snapshot, two consents
with a clock of three values allow a member who consents, withdraws or is deleted
before, at and after its date, and a deletion that is repeated; two runs of
the tool are one that is killed and its repetition, or one before and one within a
rotation; two prepared requests with two submissions allow a retry of a request and
a second request for the same draft. Runs with a bound in every
counter stop when the bounds are reached, so deadlock is not an error in them;
that the service itself does not block is `RequestsEnd`.

Fairness. `DurableSpec` assumes weak fairness of `Progress(d)` for each delivery: the
event loop resumes a request whose database call has returned, and the database performs
a statement that does not wait. A delivery that waits for the row lock is not assumed to
get it by strong fairness; a finite number of deliveries each release the lock, so a
waiting one stays enabled at last. Sending and crashing are not fair. The faults are
crashes of the process: an acknowledgement of `COMMIT` that is lost while the process
goes on, after which a client is told of a failure and the command took effect, is
outside the model, and `FailureMeansNoEffect` says nothing of it. The core's own modules
state no liveness property: a handler is a single step and nothing in the code forces a
person to call one.

Runs that find a disagreement between the code and what the repository says of
it; `findings` in `PROJECT.json` quotes the lines:

| run | what TLC finds |
|---|---|
| `authority_orphans` | a privacy request leaves grants alive below the ones it revokes |
| `duplicate_verifier` | attest, lose a challenge, attest again, win the appeal: one verifier counts twice |
| `stale_presentation` | a credential is presented as active after its evidence expired |
| `deletion_final` | a pending recovery re-binds a deleted subject |
| `exact_retry` | an overlapping exact retry is failed instead of replayed |

Some properties of the passing runs are weaker than a reader might expect, because the
code does not do more; each states the exception it needs. `SharedKeyIsRecovered`: a
replacement key may be enrolled by someone else while the recovery is pending, and its
approval then binds one key to two subjects. `EffectsUnderKnownKey`: an enrolment and a
recovery request are signed with a key that is bound to nobody yet, the one their
payload names, and a command authenticated before a recovery or a deletion commits still
takes effect after it, under the old key. `ConsentEndsWithBinding`: so does a consent,
and one that a deletion overtakes between its key lookup and its commit stays live for a
subject without a key. `OnlyAppealRestores`: one reversed appeal restores an attestation
even when a failed audit or another sustained challenge stands.
`DeletedCannotCorroborate` is about verifiers: the credential of a deleted claimant can
become valid again through an open invitation or an appeal. That deletion of a verifier
also invalidates what others attested later on the same request, and not what they
attested earlier, since the loop of `_invalidate_subject_state` tests a set that it
extends; `LostWith` models it so. `FrozenUnlessRaced`: a command stamped by the
snapshot's date that commits after the state was read changes the eligible members of
that date, and so does deleting a subject again, which moves `deleted_at`; the digest
then matches no more and presentations are refused. `PresentedWithinSnapshot` has no
exception. `OldNoticeOnlyFromBefore`: consents to an earlier notice count on after a
release with a new one, as they are compared with the notice only when they are given.
The documents speak of current and of exact-version consent (`MEM-001`, `KYN-000C`),
which may be read as asking for more; none says that an older consent lapses.
`RotationEvidenceIsTrue`: the script writes `latest-rotation.json` before it clears its
flag. When `chmod`, the one command between, fails, the trap undoes the rotation and the
file goes on saying that it passed and that the old state was kept. `EvidenceStaysTrue`
and `ActivationSurvives`: the rotation script counts the commands some steps before it
takes the service down, so an activation can commit in between; it is then kept, but in
the rollback directory, and the evidence file tells of an activation that the live
database has not. One that commits to the database a rotation has just started is lost
when a later command of the script fails and the trap removes the new directories.
`RestorePassedIsSound`: when a rotation replaces the database between dump and count,
equal counts say nothing. After `fail` the rotation is neither rolled back nor the timer
started, as `exit` does not run an `ERR` trap. And when the answer to an activation is
lost and its proof ages out, no evidence can be written any more: a newly prepared
request is refused because a root exists. No property relates the method an attestation
used to the one its claim definition states, since the handlers do not.

## 4. What is proved

Every invariant that a passing run checks is also a theorem, for every value of the
constants; so are the action properties and the refinements. The runs show them on a
small instance and that they can fail (the mutants); the theorems show that they do not
depend on the instance. Each inductive invariant below was checked by TLC on the run's
instance first, the host's also with two rotations and three runs of the tool.

**`AuthorityProofs`**, from the assumptions that the inputs are well-formed and `None`
is not a number: type correctness, `DelegationOnlyNarrows`, `RootedAuthority`,
`UseWithinCap`, `CascadeComplete`, `RevocationSparesAncestors` and the action property
`GrantTermsFixed`. These speak of whole subtrees, while a handler compares a grant with
its issuer. The inductive invariant `AuthorityInv` is therefore about a grant and its
issuer: issuers come earlier in the table (`IssuerOK`), a grant is within its issuer's
terms (`DirectNarrows`), a child of a grant that `revoke_authority` revoked is revoked
(`DirectCascade`), every grant is below the root. The step to subtrees uses that
`Subtree(t)` is the least set with `t` that is closed under issue: any closed set with
`t` contains it, so no induction is needed. That revocation spares the actor's branch
follows from narrowing (nothing below the target outranks it) and from ids that grow
along a chain.

**`RevocationLoopProofs`**: `LoopCollectsSubtree`, and that `RevocationLoop` implements
`AuthoritySpec`, whose `revoke_authority` marks the subtree at once, so that all of the
above holds with the loop. `LoopInv` says of a call in progress: its checks hold
(nothing writes the table meanwhile), what is collected contains the target and is
within its subtree, the grants that the sweep has passed are collected if their issuer
is, and a repeated sweep starts from a closed set. A sweep that adds nothing then shows
that the collected set is closed under issue, and the subtree is the least such set with
the target: this does not depend on the order of the table. That the second sweep never
adds anything does: a grant comes after its issuer (`IssuerOK`), so a grant that is
added concerns only those still to be visited. The `while` loop therefore ends after at
most two passes, a bound that is a safety property and needs no fairness.

**`AssuranceProofs`**: that `Assurance` implements `AuthoritySpec`, since every handler
performs one action of `Authority` or none, so that `AuthorityInv` holds here as well;
type correctness; `NoSelfCorroboration`, `AttestationsMetered`, `OnlyAppealRestores`,
`DeletedCannotCorroborate`, `CredentialsFollowEvidence` and the action property
`CredentialNeverSoftens`. `AssuranceInv` adds where evidence comes from: invitations and
introductions keep what they were checked for (`ReferredInv`), an attestation is under a
grant of its verifier, which a deletion revokes for good (`VerifierInv`), an appeal is
decided once (`ChallengesInv`), a credential depends on attestations of its own request
(`DepsInv`). For `CredentialsFollowEvidence`, a handler is seen as a step at fixed time
that touches the evidence of a set of requests and recalculates at least those
(`LocalStep`): whatever it touched, the credentials follow afterwards, because
`Recalculated` is idempotent and reads only the evidence of its request. Only `Tick`
lapses evidence without recalculating, which is the exception that the property makes.
Besides well-formed inputs it assumes that `None` is none of the verdicts: an open
challenge has no decision.

**`IdentityProofs`**: the whole core still implements `AuthoritySpec`, type correctness,
`ReleaseNeverLost`, `CommitmentsSingleUse`, `PendingRecoveryIsBacked`,
`SharedKeyIsRecovered` and `ConsentEndsWithBinding`. The properties count rows;
`IdentityInv` says "at most one" and "exactly one" of the rows themselves and the
theorems go back to cardinalities at the end. Two clauses carry the recovery: a pending
case is under an open commitment of its own subject, and there is one of each per
subject, so approval consumes the commitment of the only case that could use it.
`CoreKeepsAssurance` and `CoreKeepsAuthority` carry the properties of the two modules
below over to the whole core, where subjects enrol, recover to other keys, are deleted
and come back: `AssuranceInv` is part of `IdentityInv`, and only the assurance handlers,
a claim and a processed privacy request write a credential.

**`DurableProofs`**, for any deliveries, messages and number of crashes: type
correctness, `SnapshotMatchesCommands`, `FailureMeansNoEffect`, `EffectsUnderKnownKey`,
and that the service implements `CommandLog`, from which `EffectsOnce` and
`OneReceiptPerCommand` follow with `LogIsSerial`. The invariant says in addition what
makes a commit safe: a delivery past the lock with a row read holds the lock and read
the current row; one that read no row commits only if there is none yet. A key that a
delivery has looked up, unless its payload names it, was bound by a command in the
history, which only grows, so that the command it authorizes comes after. Three more
theorems say what the other modules and the clients may rely on. `TransitionsAreSerial`:
the row changes only by an accepted transition of the row committed last, which is why
the transition of a handler is one action elsewhere; it does not cover the key lookup
before the transaction. `LockIsNeverOrphaned`: the lock is held only by a transaction
that has nothing to wait for, the safety part of `RequestsEnd`. `LateRetriesReplay`: the
part of "an exact retry returns the stored result" that the code keeps, next to the run
`exact_retry` that shows the part it does not.

**`MembershipProofs`**: type correctness, `FrozenUnlessRaced`, `PresentedWithinSnapshot`
and `OldNoticeOnlyFromBefore`. `present_member` computes the members of a past date
again from current records; the argument that it finds those that were signed is that a
command changes the eligibility of its one subject only, and, since it dates what it
writes by the clock it reads, only from then on (`LocalTo`, stated of the core that an
open transaction will commit). `ReaderInv` says what the reader of a snapshot may have
missed.

**`DeploymentProofs`**, for any number of files, runs, requests, submissions, rotations
and databases: type correctness, `ProvisionedIsUsable`, `RotationEvidenceIsTrue`,
`EvidenceStaysTrue`, `ActivationSurvives` and `RestorePassedIsSound`. `HostInv` has a
part for each: the files that the current run has taken are good and name one password
(`ProvisionInv`); where the rotation script is determines whether the service, the live
database and the rollback directory are there (`ScriptInv`); contents are of runs that
were started, and from the move of the secrets on the live ones are of the rotation's
run (`RotationInv`); a run of the tool parts the secrets in the rollback directory that
the evidence tells of from the live ones and from those of every later rotation, which
is what a later rollback can put back (`EvidenceInv`); what a database holds was
committed, and an unraced activation keeps every rotation from starting (`CommitInv`);
what the client was answered was committed for its request (`ClientInv`); since a dump,
the database only gained commands unless a rotation has begun (`BackupInv`), so that
equal counts mean equal tables: this needs only that the command table grows, not that
the modelled databases hold at most one command, the activation. `ActivationSurvives`
then follows from how a step moves databases (`Moves`): none is removed but by a
rollback, and that one holds only activations that committed to it. The assumptions are
that the file names are distinct and include the token, that the operator's files are of
the kinds that the tool distinguishes, and that `None`, `Absent`, `Empty` and `Short`
are no data.

Only model-checked: `RequestsEnd`, since fairness is out of the prover's reach. The
invariants behind the theorems that no run lists (`LoopInv`, `LockHolderRuns`,
`SerialTransitions`, `LateRetryReplays`, the refinement of `Authority` by the loop) were
checked by TLC on the same instances, the loop's with three grants, before they were
proved.

## 5. What is not modelled

* Legacy verifier grants (`grant_verifier`, `revoke_verifier_grant`): the HTTP
  service enforces authority and never creates one.
* Schema migration: one transaction over digest-pinned files, with no state beyond
  the database's own.
* Encodings, canonical JSON, signatures and the encrypted key file: data and library
  calls. A signature is the key that made it.
* Input patterns, read-only endpoints, settings other than the secrets.
* The installer of the backup, the provisioning of the remote repository.

`components` in `PROJECT.json` gives the reason for each.

## 6. Plan

Done, in this order: `Authority`, `Assurance`, `Identity`, `CommandLog`,
`DurableService`, `Membership`, `Provisioning`, `Activation`, `Deployment`, then the
proofs about each, the loop of `revoke_authority` and its refinement of `Authority`.
What is left is to give `DurableService` the transitions of `Identity` in place of a
history and key bindings, so that `TransitionsAreSerial` and `IdentitySpec` become one
refinement.

Zero thresholds, which the API accepts and the runs leave out, need a decision of
the maintainers on what they mean before a property can be stated.
