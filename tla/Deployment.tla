----------------------------- MODULE Deployment -----------------------------
(***************************************************************************)
(* The host of a deployment: the secret directory and its tool             *)
(* (Provisioning), the service with its database and the activation client *)
(* (Activation), and the scripts of src/deploy that work on them at the    *)
(* same time: kyn-rotate-preactivation, kyn-backup-run, kyn-restore-test.  *)
(* Each command of a script is a step; it may fail, and a script may be    *)
(* killed.                                                                 *)
(*                                                                         *)
(* Docker, PostgreSQL and Restic are external: `up` starts the database,   *)
(* which takes its password from the secret directory when it is new, and  *)
(* the service, which runs if it can read its secrets and its URL has the  *)
(* password of the database.  `mv` is a rename.  `down` in a rollback      *)
(* succeeds.                                                               *)
(***************************************************************************)
EXTENDS Activation

CONSTANTS MaxDatabases, MaxRotations   \* bounds

ASSUME DeploymentAssumption == {MaxDatabases, MaxRotations} \subseteq Nat

VARIABLES
    databases,   \* how many databases were made
    rot,         \* where the rotation script is
    archive,     \* the rollback directory of each rotation
    rotated,     \* latest-rotation.json: Empty, or the rotation that it says
                 \* passed and whether the script undid it after; or None
    timer,       \* whether kyn-backup.timer runs
    backup,      \* the backup script
    snapshot,    \* the latest snapshot in the repository, or None
    restored     \* latest-restore.json: whether the snapshot that passed is
                 \* sound; or None

scriptVars == <<rot, archive, rotated, timer>>
backupVars == <<backup, snapshot, restored>>
deploymentVars == <<provisionVars, activationVars, databases, scriptVars, backupVars>>

Database == [id : 1..MaxDatabases, password : Contents, commands : SUBSET Command]
Archived == [database : Database \cup {None}, secrets : Directory \cup {None}]
Snapshot == [dumped : Nat, counted : Nat, sound : BOOLEAN]

ASSUME NoneAssumption == None \notin Nat \cup Database \cup Directory \cup Snapshot

NoBackup == [pc |-> "idle", dump |-> None, rotations |-> None]

DeploymentInit ==
    /\ ProvisionInit /\ ClientInit
    /\ service = None /\ database = None /\ databases = 0
    /\ rot = "idle" /\ archive = <<>> /\ rotated = None /\ timer = TRUE
    /\ backup = NoBackup /\ snapshot = None /\ restored = None

-----------------------------------------------------------------------------
(* docker compose up *)

StartedDatabase ==
    IF database # None THEN database
    ELSE IF secrets["password"].content \in {Absent, Empty} \/ ~secrets["password"].owned
         THEN None
         ELSE [id |-> databases + 1, password |-> secrets["password"].content,
               commands |-> {}]

(* main.py: the service reads its secrets and connects. *)
StartedService(db) ==
    IF db # None /\ Readable(secrets) /\ secrets["url"].content = db.password
    THEN secrets["token"].content ELSE None

ComposeUp ==
    /\ service = None
    /\ database # None \/ databases < MaxDatabases
    /\ database' = StartedDatabase
    /\ databases' = IF database' = database THEN databases ELSE databases + 1
    /\ service' = StartedService(StartedDatabase)

(* The operator deploys, at first and after a script has left the service  *)
(* down.                                                                   *)
Provision ==
    /\ rot = "idle"
    /\ StartProvision
    /\ UNCHANGED <<activationVars, databases, scriptVars, backupVars>>

Up ==
    /\ rot = "idle" /\ prov.pc = "done"
    /\ ComposeUp
    /\ UNCHANGED <<provisionVars, clientVars, activations, scriptVars, backupVars>>

-----------------------------------------------------------------------------
(* kyn-rotate-preactivation *)

Last == Len(archive)
Others == <<clientVars, activations, backupVars>>
Outside == <<rotated, Others>>

(* Mutant: the database is not looked at. *)
RotateUnchecked ==
    /\ rot = "idle" /\ ~Running /\ Len(archive) < MaxRotations
    /\ restored # None /\ service # None
    /\ rot' = "checked" /\ timer' = FALSE
    /\ archive' = Append(archive, [database |-> None, secrets |-> None])
    /\ UNCHANGED <<provisionVars, service, database, databases, Outside>>

(* The preconditions hold; the script makes a rollback directory and stops *)
(* the timer.                                                              *)
RotateCheck ==
    /\ rot = "idle" /\ ~Running /\ Len(archive) < MaxRotations
    /\ restored # None /\ service # None
    /\ database.commands = {}
    /\ rot' = "checked" /\ timer' = FALSE
    /\ archive' = Append(archive, [database |-> None, secrets |-> None])
    /\ UNCHANGED <<provisionVars, service, database, databases, Outside>>

(* Mutant: the containers stay up. *)
RotateWithoutDown ==
    /\ rot = "checked"
    /\ rot' = "down"
    /\ UNCHANGED <<provisionVars, service, database, databases, archive, timer, Outside>>

RotateDown ==
    /\ rot = "checked"
    /\ service' = None
    /\ rot' = "down"
    /\ UNCHANGED <<provisionVars, database, databases, archive, timer, Outside>>

RotateMoveState ==
    /\ rot = "down"
    /\ archive' = [archive EXCEPT ![Last].database = database]
    /\ database' = None
    /\ rot' = "stateMoved"
    /\ UNCHANGED <<provisionVars, service, databases, timer, Outside>>

(* Mutant: the secrets stay where they are. *)
RotateLeaveSecrets ==
    /\ rot = "stateMoved"
    /\ archive' = [archive EXCEPT ![Last].secrets = secrets]
    /\ prov' = [prov EXCEPT !.pc = "idle"]
    /\ rot' = "rotated"
    /\ UNCHANGED <<secrets, service, database, databases, timer, Outside>>

(* From here on the script's flag `rotated` is true. *)
RotateMoveSecrets ==
    /\ rot = "stateMoved"
    /\ archive' = [archive EXCEPT ![Last].secrets = secrets]
    /\ secrets' = NoSecrets
    /\ prov' = [prov EXCEPT !.pc = "idle"]
    /\ rot' = "rotated"
    /\ UNCHANGED <<service, database, databases, timer, Outside>>

(* Mutant: the flag is set before the directories are moved. *)
RotateAbortAsRotated ==
    /\ rot \in {"checked", "down", "stateMoved"}
    /\ service' = None
    /\ rot' = "rollback"
    /\ UNCHANGED <<provisionVars, database, databases, archive, timer, Outside>>

(* A command fails before the flag is set: the trap only starts the timer. *)
RotateAbort ==
    /\ rot \in {"checked", "down", "stateMoved"}
    /\ timer' = TRUE
    /\ rot' = "idle"
    /\ UNCHANGED <<provisionVars, service, database, databases, archive, Outside>>

RotateProvision ==
    /\ rot = "rotated"
    /\ StartProvision
    /\ rot' = "provisioning"
    /\ UNCHANGED <<service, database, databases, archive, timer, Outside>>

RotateUp ==
    /\ rot = "provisioning" /\ prov.pc = "done"
    /\ ComposeUp
    /\ rot' = "up"
    /\ UNCHANGED <<provisionVars, archive, timer, Outside>>

(* The service is healthy in time, dark and empty. *)
RotateVerify ==
    /\ rot = "up"
    /\ service # None /\ database.commands = {}
    /\ rot' = "verified"
    /\ UNCHANGED <<provisionVars, service, database, databases, archive, timer, Outside>>

(* fail: it is not.  `exit` does not run the trap: no rollback, no timer. *)
RotateFail ==
    /\ rot = "up"
    /\ rot' = "idle"
    /\ UNCHANGED <<provisionVars, service, database, databases, archive, timer, Outside>>

(* The redirection truncates the file, ... *)
RotateOpen ==
    /\ rot = "verified"
    /\ rotated' = Empty
    /\ rot' = "opened"
    /\ UNCHANGED <<provisionVars, service, database, databases, archive, timer, Others>>

(* ... jq writes to it that the rotation passed, ... *)
RotateRecord ==
    /\ rot = "opened"
    /\ rotated' = [rotation |-> Last, undone |-> FALSE]
    /\ rot' = "recorded"
    /\ UNCHANGED <<provisionVars, service, database, databases, archive, timer, Others>>

(* ... chmod succeeds: the flag is cleared and the trap removed.  Only now *)
(* can no failure undo the rotation.                                       *)
RotateKeep ==
    /\ rot = "recorded"
    /\ rot' = "kept"
    /\ UNCHANGED <<provisionVars, service, database, databases, archive, timer, Outside>>

RotateTimer ==
    /\ rot = "kept"
    /\ timer' = TRUE
    /\ rot' = "idle"
    /\ UNCHANGED <<provisionVars, service, database, databases, archive, Outside>>

(* A command fails after the flag was set: the trap takes the service down, *)
(* removes the new directories and moves the old ones back.  If that is     *)
(* chmod, latest-rotation.json goes on saying that the rotation passed.     *)
RotateError ==
    /\ rot \in {"rotated", "provisioning", "up", "verified", "opened", "recorded"}
    /\ ~Running
    /\ service' = None
    /\ rotated' = IF rot = "recorded" THEN [rotated EXCEPT !.undone = TRUE] ELSE rotated
    /\ rot' = "rollback"
    /\ UNCHANGED <<provisionVars, database, databases, archive, timer, Others>>

RollbackRemove ==
    /\ rot = "rollback"
    /\ database' = None /\ secrets' = NoSecrets
    /\ prov' = [prov EXCEPT !.pc = "idle"]
    /\ rot' = "removed"
    /\ UNCHANGED <<service, databases, archive, timer, Outside>>

(* mv ... || true *)
RollbackState ==
    /\ rot = "removed"
    /\ rot' = "stateBack"
    /\ \/ /\ archive[Last].database # None
          /\ database' = archive[Last].database
          /\ archive' = [archive EXCEPT ![Last].database = None]
       \/ UNCHANGED <<database, archive>>
    /\ UNCHANGED <<provisionVars, service, databases, timer, Outside>>

RollbackSecrets ==
    /\ rot = "stateBack"
    /\ rot' = "secretsBack"
    /\ \/ /\ archive[Last].secrets # None
          /\ secrets' = archive[Last].secrets
          /\ archive' = [archive EXCEPT ![Last].secrets = None]
       \/ UNCHANGED <<secrets, archive>>
    /\ UNCHANGED <<prov, service, database, databases, timer, Outside>>

(* up ... || true, and the timer *)
RollbackUp ==
    /\ rot = "secretsBack"
    /\ rot' = "idle" /\ timer' = TRUE
    /\ ComposeUp \/ UNCHANGED <<service, database, databases>>
    /\ UNCHANGED <<provisionVars, archive, Outside>>

(* The script is killed, or the timer does not start after the trap was    *)
(* removed.                                                                *)
RotateKilled ==
    /\ rot # "idle"
    /\ rot' = "idle"
    /\ UNCHANGED <<provisionVars, service, database, databases, archive, timer, Outside>>

Rotate ==
    \/ RotateCheck \/ RotateDown \/ RotateMoveState \/ RotateMoveSecrets \/ RotateAbort
    \/ RotateProvision \/ RotateUp \/ RotateVerify \/ RotateFail
    \/ RotateOpen \/ RotateRecord \/ RotateKeep \/ RotateTimer
    \/ RotateError \/ RollbackRemove \/ RollbackState \/ RollbackSecrets \/ RollbackUp
    \/ RotateKilled

-----------------------------------------------------------------------------
(* kyn-backup-run and kyn-restore-test *)

Elsewhere == <<provisionVars, activationVars, databases, scriptVars>>

(* pg_dump, under the lock of the script; the secrets are read after it.   *)
BackupDump ==
    /\ backup.pc = "idle"
    /\ service # None
    /\ backup' = [pc |-> "dumped", dump |-> database.commands,
                  rotations |-> IF rot = "idle" THEN Len(archive) ELSE None]
    /\ UNCHANGED <<snapshot, restored, Elsewhere>>

(* A backup with which no rotation has raced is sound if it holds what the *)
(* database had when it was counted.                                       *)
Sound ==
    rot = "idle" /\ backup.rotations = Len(archive) => backup.dump = database.commands

(* The counts of the live database make the manifest; restic stores it. *)
BackupStore ==
    /\ backup.pc = "dumped" /\ service # None
    /\ snapshot' = [dumped |-> Cardinality(backup.dump),
                    counted |-> Cardinality(database.commands), sound |-> Sound]
    /\ backup' = NoBackup
    /\ UNCHANGED <<restored, Elsewhere>>

BackupFails ==
    /\ backup.pc # "idle"
    /\ backup' = NoBackup
    /\ UNCHANGED <<snapshot, restored, Elsewhere>>

(* Mutant: the counts are not compared. *)
RestoreUncompared ==
    /\ snapshot # None
    /\ restored' = snapshot.sound
    /\ UNCHANGED <<backup, snapshot, Elsewhere>>

(* kyn-restore-latest passes: the restored counts are the manifest's. *)
RestoreTest ==
    /\ snapshot # None
    /\ snapshot.dumped = snapshot.counted
    /\ restored' = snapshot.sound
    /\ UNCHANGED <<backup, snapshot, Elsewhere>>

Backup ==
    \/ BackupDump \/ BackupStore \/ BackupFails
    \/ RestoreTest

-----------------------------------------------------------------------------
(* The client against the service of the host.  A draft has the hash of    *)
(* evidence that a restore passed.                                         *)

(* What commits now goes with the new database if the trap still runs. *)
NewDatabaseUp == rot \in {"up", "verified", "opened", "recorded"}

Activate ==
    /\ \/ restored # None /\ \E d \in Drafts : PrepareActivation(d)
       \/ ClientStep
       \/ \E m \in wire : ServerActivate(m, rot # "idle", NewDatabaseUp)
    /\ UNCHANGED <<provisionVars, databases, scriptVars, backupVars>>

DeploymentNext ==
    \/ Provision \/ Up
    \/ ProvisionStep /\ UNCHANGED <<activationVars, databases, scriptVars, backupVars>>
    \/ Rotate
    \/ Backup
    \/ Activate

DeploymentSpec == DeploymentInit /\ [][DeploymentNext]_deploymentVars

-----------------------------------------------------------------------------
(* Properties. *)

Kept == {database} \cup {archive[i].database : i \in DOMAIN archive}
KeptActivations == UNION {db.commands : db \in Kept \ {None}}

RotationSteps ==
    {"idle", "checked", "down", "stateMoved", "rotated", "provisioning", "up", "verified",
     "opened", "recorded", "kept", "rollback", "removed", "stateBack", "secretsBack"}

(* Type invariant; the service runs only on a database whose password its  *)
(* URL had.                                                                *)
DeploymentTypeOK ==
    /\ ProvisionTypeOK /\ ClientTypeOK
    /\ database \in Database \cup {None}
    /\ service # None => database # None
    /\ databases \in 0..MaxDatabases
    /\ rot \in RotationSteps
    /\ archive \in Seq(Archived) /\ Len(archive) <= MaxRotations
    /\ \A db \in Kept \ {None} : db.id <= databases
    /\ timer \in BOOLEAN
    /\ backup \in [pc : {"idle", "dumped"}, dump : (SUBSET Command) \cup {None},
                   rotations : 0..MaxRotations \cup {None}]
    /\ snapshot \in Snapshot \cup {None}
    /\ restored # None => snapshot # None

(* What latest-rotation.json says stays true, through later deployments,   *)
(* rotations, failures and rollbacks: every credential was replaced when   *)
(* the script wrote it, none of the values from before is in the live      *)
(* directory again, and the state and the secrets from before are in the   *)
(* rollback directory.  The exception is the window between the write and  *)
(* the cleared flag: when chmod fails there, the trap undoes the rotation  *)
(* and the file still says that it passed.                                 *)
RotationEvidenceIsTrue ==
    rotated \notin {None, Empty} /\ ~rotated.undone =>
        LET before == archive[rotated.rotation]
        IN  /\ before.database # None /\ before.secrets # None
            /\ \A n \in Names :
                  /\ secrets[n].content # before.secrets[n].content
                     \/ secrets[n].content \in {Absent, Empty}
                  /\ rot \in {"recorded", "kept"} =>
                        secrets[n].content \notin {Absent, Empty, Short}

(* An evidence file tells of an activation that the service committed for  *)
(* exactly that request, and one that did not commit during a rotation is  *)
(* in the live database ever after, whatever scripts run, fail or are      *)
(* killed.                                                                 *)
EvidenceStaysTrue ==
    \A p \in EvidencePaths : evidence[p] \notin {Absent, Empty} =>
        \E c \in activations :
            /\ c.nonce = evidence[p].nonce /\ c.draft = evidence[p].draft
            /\ ~c.raced => database # None /\ c \in database.commands

(* No script destroys an activation: each is in the live database or in a  *)
(* rollback directory.  The exception is one that commits to the database  *)
(* a rotation has just made, which a late failure of that script removes.  *)
ActivationSurvives ==
    \A c \in activations : ~c.newborn => c \in KeptActivations

(* A snapshot whose restore test passed holds every command that the       *)
(* database had when it was counted, unless a rotation ran during the      *)
(* backup: a command that commits between the dump and the count, which    *)
(* the script takes apart, makes the test fail.                            *)
RestorePassedIsSound == restored # None => restored
=============================================================================
