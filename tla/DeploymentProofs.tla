-------------------------- MODULE DeploymentProofs --------------------------
(***************************************************************************)
(* Proofs about the host of a deployment: what the provisioning tool, the  *)
(* rotation script, the backup and the activation client leave behind, for *)
(* any number of files, runs, rotations, requests and submissions.         *)
(***************************************************************************)
EXTENDS Deployment, FiniteSetTheorems, SequenceTheorems, TLAPS

(* The tool has taken the file at position i: it is as main.py needs it.   *)
Taken(i) ==
    LET f == secrets[Order[i]]
    IN  /\ f.owned /\ f.content \notin {Absent, Empty}
        /\ IF Order[i] \in {"password", "url"} THEN f.content = prov.password
           ELSE f.content # Short

ProvisionInv ==
    Running \/ prov.pc = "done" =>
        /\ \A i \in DOMAIN Order : i < prov.next \/ prov.pc = "done" => Taken(i)
        /\ prov.pc = "written" => Content = NewValue

(* Where the rotation script is, the service, the database and the         *)
(* rollback directory are as its earlier commands left them.               *)
ScriptInv ==
    /\ rot # "idle" => archive # <<>>
    /\ rot \notin {"idle", "checked", "up", "verified", "opened", "recorded", "kept"} =>
          service = None
    /\ rot \in {"checked", "down"} => database # None /\ archive[Last].database = None
    /\ rot \in {"stateMoved", "rotated", "provisioning", "removed"} => database = None
    /\ rot \in {"up", "verified", "opened", "recorded", "rollback"} /\ database # None =>
          \A c \in database.commands : c.newborn
    /\ rot \in {"removed", "stateBack", "secretsBack"} => prov.pc = "idle"

(* Every content in a directory was there at first or is of a run that was *)
(* started.                                                                *)
Dated(directory, run) ==
    \A n \in Names : directory[n].content \in {Absent, Empty, Short} \cup 0..run

(* The run of a rotation has made every file that there is. *)
MadeByRun ==
    /\ prov.pc \in {"check", "created", "written", "done"}
    /\ \A i \in DOMAIN Order :
          /\ i < prov.next \/ prov.pc = "done" => secrets[Order[i]].content = prov.run
          /\ i > prov.next \/ (i = prov.next /\ prov.pc = "check") =>
                secrets[Order[i]].content = Absent

RotationInv ==
    /\ Dated(secrets, prov.run)
    /\ \A k \in DOMAIN archive :
          archive[k].secrets # None => Dated(archive[k].secrets, prov.run)
    /\ rot \in {"stateMoved", "rotated", "provisioning", "up", "verified", "opened",
                "recorded", "kept"} => archive[Last].database # None
    /\ rot \in {"rotated", "provisioning", "up", "verified", "opened", "recorded", "kept"} =>
          archive[Last].secrets # None
    /\ rot = "rotated" => secrets = NoSecrets /\ prov.pc = "idle"
    /\ rot \in {"provisioning", "up", "verified", "opened", "recorded", "kept"} =>
          /\ prov.run > 0 /\ Dated(archive[Last].secrets, prov.run - 1)
          /\ prov.pc # "failed" => MadeByRun
    /\ rot \in {"up", "verified", "opened", "recorded", "kept"} => prov.pc = "done"

(* The values in a directory are of this run or later ones. *)
MadeSince(directory, run) ==
    \A n \in Names : directory[n].content \in {Absent, Empty} \cup {i \in Nat : i >= run}

(* A run parts the secrets in the rollback directory of rotation r from    *)
(* all that came after them: the live ones and those of later rotations.   *)
Parted(r) ==
    \E run \in 1..prov.run :
        /\ Dated(archive[r].secrets, run - 1) /\ MadeSince(secrets, run)
        /\ \A j \in DOMAIN archive :
              j > r /\ archive[j].secrets # None => MadeSince(archive[j].secrets, run)

(* The rotation that latest-rotation.json tells of was undone, or its      *)
(* rollback directory is whole and no later failure reaches it.            *)
EvidenceInv ==
    /\ rot = "recorded" => rotated \in [rotation : DOMAIN archive, undone : BOOLEAN]
    /\ rotated \notin {None, Empty} =>
          /\ rotated \in [rotation : DOMAIN archive, undone : BOOLEAN]
          /\ ~rotated.undone =>
                /\ rotated.rotation = Last => rot \in {"idle", "recorded", "kept"}
                /\ archive[rotated.rotation].database # None
                /\ archive[rotated.rotation].secrets # None
                /\ Parted(rotated.rotation)

(* Databases hold finitely many commands, all of them committed, and no    *)
(* unraced activation is there while a rotation runs.                      *)
Committed(db) ==
    db # None => db.commands \subseteq activations /\ IsFiniteSet(db.commands)

CommitInv ==
    /\ Committed(database) /\ \A k \in DOMAIN archive : Committed(archive[k].database)
    /\ rot # "idle" => \A c \in activations : c.raced
    /\ \A c \in activations : ~c.raced => database # None /\ c \in database.commands

(* What the client knows of its request was committed for that request.    *)
ClientInv ==
    /\ \A c \in activations : /\ c.nonce \in DOMAIN prepared
                              /\ c.draft = prepared[c.nonce].draft
    /\ \A m \in wire : /\ m.submit <= client.submits
                       /\ client.pc # "idle" /\ m.submit = client.submits =>
                             m.nonce = client.nonce
    /\ client.pc \in {"answered", "created"} =>
          \E c \in activations : c.nonce = client.nonce
    /\ \A p \in EvidencePaths : evidence[p] \notin {Absent, Empty} =>
          \E c \in activations : /\ c.nonce = evidence[p].nonce
                                 /\ c.draft = evidence[p].draft

(* While no rotation has begun since the dump, the database has what was   *)
(* dumped.                                                                 *)
BackupInv ==
    /\ backup.rotations # None => backup.rotations <= Len(archive)
    /\ backup.pc = "dumped" /\ backup.rotations = Len(archive) =>
          rot = "idle" /\ database # None /\ backup.dump \subseteq database.commands
    /\ backup.pc = "dumped" =>
          backup.dump \in SUBSET Command /\ IsFiniteSet(backup.dump)
    /\ snapshot # None /\ snapshot.dumped = snapshot.counted => snapshot.sound
    /\ RestorePassedIsSound

HostInv ==
    /\ DeploymentTypeOK /\ ProvisionInv /\ ScriptInv
    /\ RotationInv /\ EvidenceInv
    /\ CommitInv /\ ActivationSurvives /\ ClientInv /\ BackupInv

-----------------------------------------------------------------------------
(* The order of the files. *)

(* A sequence of three elements in front of another one. *)
LEMMA AfterThree ==
    ASSUME NEW S, NEW a \in Seq(S), NEW s \in Seq(S), Len(a) = 3
    PROVE  /\ a \o s \in Seq(S) /\ Len(a \o s) = 3 + Len(s)
           /\ \A i \in 1..3 : (a \o s)[i] = a[i]
           /\ \A i \in 1..Len(s) : (a \o s)[3 + i] = s[i]
<1> DEFINE t == a \o s
<1>1. Len(s) \in Nat
    OBVIOUS
<1>2. /\ t \in Seq(S) /\ Len(t) = Len(a) + Len(s)
      /\ \A i \in 1..Len(a) + Len(s) :
            t[i] = IF i <= Len(a) THEN a[i] ELSE s[i - Len(a)]
    BY ConcatProperties, Zenon
<1>3. /\ t \in Seq(S) /\ Len(t) = 3 + Len(s)
      /\ \A i \in 1..3 + Len(s) : t[i] = IF i <= 3 THEN a[i] ELSE s[i - 3]
    BY <1>2, Zenon
<1> HIDE DEF t
<1>4. \A i \in 1..3 : t[i] = a[i]
    BY <1>1, <1>3
<1>5. ASSUME NEW i \in 1..Len(s) PROVE t[3 + i] = s[i]
  <2>1. 3 + i \in 1..3 + Len(s) /\ ~(3 + i <= 3) /\ (3 + i) - 3 = i
    BY <1>1
  <2> QED
    BY <2>1, <1>3
<1> QED
    BY <1>3, <1>4, <1>5 DEF t

(* The three files with checks of their own come first, and the token is   *)
(* one of the others.                                                      *)
LEMMA OrderFacts ==
    /\ DOMAIN Order = 1..Len(Order) /\ Len(Order) \in Nat /\ Len(Order) >= 4
    /\ Order[1] = "password" /\ Order[2] = "url" /\ Order[3] = "seed"
    /\ {"password", "url", "seed", "token"} \subseteq Names
<1> DEFINE first == <<"password", "url", "seed">>
           S == {"password", "url", "seed"} \cup {Plain[i] : i \in DOMAIN Plain}
<1>1. Plain \in Seq(STRING)
    BY SecretsAssumption
<1>2. Len(Plain) \in Nat /\ DOMAIN Plain = 1..Len(Plain)
    BY <1>1
<1>3. Plain \in [1..Len(Plain) -> S]
    BY <1>1, <1>2
<1>4. /\ first \in Seq(S) /\ Len(first) = 3
      /\ first[1] = "password" /\ first[2] = "url" /\ first[3] = "seed"
    OBVIOUS
<1>5. Order = first \o Plain
    BY DEF Order
<1> HIDE DEF first, S
<1>6. /\ Order \in Seq(S) /\ Len(Order) = 3 + Len(Plain)
      /\ \A i \in 1..3 : Order[i] = first[i]
      /\ \A i \in 1..Len(Plain) : Order[3 + i] = Plain[i]
  <2>1. Plain \in Seq(S)
    BY <1>2, <1>3
  <2> QED
    BY <2>1, <1>4, <1>5, AfterThree
<1>7. PICK k \in DOMAIN Plain : Plain[k] = "token"
    BY ActivationAssumption
<1>8. DOMAIN Order = 1..Len(Order) /\ Len(Order) \in Nat /\ Len(Order) >= 4
    BY <1>2, <1>6, <1>7
<1>9. Order[1] = "password" /\ Order[2] = "url" /\ Order[3] = "seed"
    BY <1>4, <1>6
<1>10. Order[3 + k] = "token" /\ 3 + k \in DOMAIN Order
    BY <1>2, <1>6, <1>7, <1>8
<1> QED
    BY <1>8, <1>9, <1>10 DEF Names

(* Positions and names correspond. *)
LEMMA NameFacts ==
    /\ \A i \in DOMAIN Order : Order[i] \in Names
    /\ \A n \in Names : \E i \in DOMAIN Order : n = Order[i]
    /\ \A i, j \in DOMAIN Order : Order[i] = Order[j] => i = j
    BY SecretsAssumption DEF Names

(* A directory without files. *)
LEMMA NoSecretsFacts ==
    /\ NoSecrets \in Directory
    /\ \A n \in Names : NoSecrets[n].content = Absent /\ ~NoSecrets[n].owned
    BY DEF NoSecrets, Directory, Contents

-----------------------------------------------------------------------------
(* The provisioning tool. *)

(* The file under work is one of the directory. *)
LEMMA FileFacts ==
    ASSUME ProvisionTypeOK
    PROVE  /\ File \in Names /\ Content \in Contents /\ NewValue \in Contents
           /\ \A i \in DOMAIN Order : i # prov.next => Order[i] # File
           /\ prov.next \in 1..Len(Order)
           /\ secrets[File] \in [content : Contents, owned : BOOLEAN]
    BY OrderFacts, NameFacts DEF ProvisionTypeOK, File, Content, NewValue, Directory, Contents

(* Once the password was taken it is a value, so what the run writes to a  *)
(* file is one.                                                            *)
LEMMA NewValueFacts ==
    ASSUME ProvisionTypeOK, ProvisionInv, Running
    PROVE  /\ NewValue \notin {Absent, Empty}
           /\ File # "url" => NewValue \in Nat /\ NewValue # Short
<1>1. prov.run \in Nat /\ prov.run \notin {Absent, Empty, Short}
    BY ProvisioningAssumption DEF ProvisionTypeOK
<1>2. CASE File = "url"
  <2>1. prov.next # 1 /\ prov.next \in 1..Len(Order)
    BY <1>2, OrderFacts, FileFacts DEF File
  <2>2. 1 \in DOMAIN Order /\ 1 < prov.next
    BY <2>1, OrderFacts
  <2>3. Taken(1)
    BY <2>2 DEF ProvisionInv
  <2>4. prov.password \notin {Absent, Empty}
    BY <2>3, OrderFacts DEF Taken
  <2> QED
    BY <1>2, <2>4 DEF NewValue
<1>3. CASE File # "url"
    BY <1>1, <1>3 DEF NewValue
<1> QED
    BY <1>2, <1>3

(* _write_once returns a value from a file that it leaves owned: either    *)
(* the run ends with an error or the file is taken and the next one is up. *)
LEMMA ReturnedStep ==
    ASSUME ProvisionTypeOK, ProvisionInv, Running,
           NEW c \in Contents \ {Absent, Empty},
           prov' = Returned(c),
           secrets' = [secrets EXCEPT ![File].owned = TRUE],
           Content = c
    PROVE  ProvisionTypeOK' /\ ProvisionInv'
<1>1. ProvisionTypeOK'
  <2>1. secrets' \in Directory
    BY FileFacts DEF ProvisionTypeOK, Directory
  <2>2. CASE ~Accepted(File, c)
    BY <2>1, <2>2 DEF ProvisionTypeOK, Returned
  <2>3. CASE Accepted(File, c) /\ prov.next = Len(Order)
    BY <2>1, <2>3 DEF ProvisionTypeOK, Returned
  <2>4. CASE Accepted(File, c) /\ prov.next # Len(Order)
    <3>1. prov.next + 1 \in DOMAIN Order
      BY <2>4, FileFacts, OrderFacts
    <3> QED
      BY <2>1, <2>4, <3>1 DEF ProvisionTypeOK, Returned
  <2> QED
    BY <2>2, <2>3, <2>4
<1>2. CASE ~Accepted(File, c)
  <2>1. prov'.pc = "failed"
    BY <1>2 DEF ProvisionTypeOK, Returned
  <2> QED
    BY <1>1, <2>1 DEF ProvisionInv, Running
<1>3. CASE Accepted(File, c)
  <2>1. prov'.pc \in {"check", "done"}
    BY <1>3 DEF ProvisionTypeOK, Returned
  <2>2. prov'.password = IF File = "password" THEN c ELSE prov.password
    BY <1>3 DEF ProvisionTypeOK, Returned
  <2>3. ASSUME NEW i \in DOMAIN Order, i < prov'.next \/ prov'.pc = "done"
        PROVE  i <= prov.next
    BY <1>3, <2>3, FileFacts, OrderFacts DEF ProvisionTypeOK, Returned
  <2>4. ASSUME NEW i \in DOMAIN Order, i < prov.next PROVE Taken(i)'
    <3>1. Taken(i) /\ Order[i] # File /\ Order[i] \in Names
      BY <2>4, FileFacts, NameFacts, OrderFacts DEF ProvisionInv
    <3>2. secrets'[Order[i]] = secrets[Order[i]]
      BY <3>1 DEF ProvisionTypeOK, Directory
    <3>3. prov'.password = prov.password
      <4>1. 1 < prov.next /\ prov.next \in DOMAIN Order /\ 1 \in DOMAIN Order
        BY <2>4, FileFacts, OrderFacts
      <4>2. File # "password"
        BY <4>1, OrderFacts, NameFacts DEF File
      <4> QED
        BY <4>2, <2>2
    <3> QED
      BY <3>1, <3>2, <3>3 DEF Taken
  <2>5. ASSUME NEW i \in DOMAIN Order, i = prov.next PROVE Taken(i)'
    <3>1. secrets'[File].owned /\ secrets'[File].content = c
      BY FileFacts DEF ProvisionTypeOK, Directory, Content
    <3>2. Order[i] = File
      BY <2>5 DEF File
    <3>3. File = "url" => c = prov'.password
      BY <1>3, <2>2 DEF Accepted
    <3>4. File \notin {"password", "url"} => c # Short
      BY <1>3 DEF Accepted
    <3> QED
      BY <3>1, <3>2, <3>3, <3>4, <2>2 DEF Taken
  <2>6. ASSUME NEW i \in DOMAIN Order, i < prov'.next \/ prov'.pc = "done"
        PROVE  Taken(i)'
    <3>1. i < prov.next \/ i = prov.next
      BY <2>3, <2>6, FileFacts, OrderFacts
    <3> QED
      BY <3>1, <2>4, <2>5
  <2> QED
    BY <1>1, <2>1, <2>6 DEF ProvisionInv
<1> QED
    BY <1>2, <1>3, <1>1

(* Each step of the tool keeps the invariant; a run that was killed leaves *)
(* nothing to rely on, and the next one starts over.                       *)
LEMMA ToolKeeps ==
    ASSUME ProvisionTypeOK, ProvisionInv, StartProvision \/ ProvisionStep
    PROVE  ProvisionTypeOK' /\ ProvisionInv'
<1>1. CASE StartProvision
  <2>1. ProvisionTypeOK'
    BY <1>1, OrderFacts, ProvisioningAssumption DEF StartProvision, ProvisionTypeOK, Contents
  <2>2. \A i \in DOMAIN Order : ~(i < prov'.next) /\ prov'.pc = "check"
    BY <1>1, OrderFacts DEF StartProvision
  <2>3. prov'.pc = "check"
    BY <1>1 DEF StartProvision
  <2> QED
    BY <2>1, <2>2, <2>3 DEF ProvisionInv
<1>2. CASE KeepSecret
  <2>1. Running /\ Content \in Contents \ {Absent, Empty}
    BY <1>2, FileFacts DEF KeepSecret, Running
  <2> QED
    BY <1>2, <2>1, ReturnedStep DEF KeepSecret
<1>3. CASE OwnSecret
  <2>1. Running /\ Content = NewValue
    BY <1>3 DEF OwnSecret, Running, ProvisionInv
  <2>2. NewValue \in Contents \ {Absent, Empty}
    BY <2>1, FileFacts, NewValueFacts
  <2> QED
    BY <1>3, <2>1, <2>2, ReturnedStep DEF OwnSecret
<1>4. CASE RefuseEmpty \/ CrashProvision
  <2>1. ProvisionTypeOK' /\ prov'.pc = "failed"
    BY <1>4 DEF RefuseEmpty, CrashProvision, ProvisionTypeOK
  <2> QED
    BY <2>1 DEF ProvisionInv, Running
<1>5. CASE CreateSecret \/ WriteSecret
  <2>1. PICK f \in [content : Contents, owned : BOOLEAN] :
            secrets' = [secrets EXCEPT ![File] = f]
    <3>1. CASE CreateSecret
      <4>1. [content |-> Empty, owned |-> FALSE] \in [content : Contents, owned : BOOLEAN]
        BY DEF Contents
      <4> QED
        BY <3>1, <4>1 DEF CreateSecret
    <3>2. CASE WriteSecret
      <4>1. [secrets[File] EXCEPT !.content = NewValue] \in [content : Contents, owned : BOOLEAN]
        BY FileFacts
      <4>2. secrets' = [secrets EXCEPT ![File] = [secrets[File] EXCEPT !.content = NewValue]]
        BY <3>2, FileFacts DEF WriteSecret, ProvisionTypeOK, Directory
      <4> QED
        BY <4>1, <4>2
    <3> QED
      BY <1>5, <3>1, <3>2
  <2>2. /\ Running /\ prov.pc # "done"
        /\ prov' = [prov EXCEPT !.pc = prov'.pc] /\ prov'.pc \in {"created", "written"}
    BY <1>5 DEF CreateSecret, WriteSecret, Running, ProvisionTypeOK
  <2>3. ProvisionTypeOK'
    <3>1. secrets' \in Directory
      BY <2>1, FileFacts DEF ProvisionTypeOK, Directory
    <3> QED
      BY <3>1, <2>2 DEF ProvisionTypeOK
  <2>4. prov'.next = prov.next /\ prov'.password = prov.password /\ prov'.run = prov.run
    BY <2>2 DEF ProvisionTypeOK
  <2>5. ASSUME NEW i \in DOMAIN Order, i < prov'.next PROVE Taken(i)'
    <3>1. Taken(i) /\ Order[i] # File /\ Order[i] \in Names
      BY <2>2, <2>4, <2>5, FileFacts, NameFacts, OrderFacts DEF ProvisionInv
    <3>2. secrets'[Order[i]] = secrets[Order[i]]
      BY <2>1, <3>1 DEF ProvisionTypeOK, Directory
    <3> QED
      BY <3>1, <3>2, <2>4 DEF Taken
  <2>6. File' = File /\ NewValue' = NewValue
    BY <2>4 DEF File, NewValue
  <2>7. prov'.pc = "written" => Content' = NewValue'
    <3>1. CASE WriteSecret
      <4>1. secrets'[File].content = NewValue
        BY <3>1, FileFacts DEF WriteSecret, ProvisionTypeOK, Directory
      <4> QED
        BY <4>1, <2>6 DEF Content
    <3>2. CASE CreateSecret
      BY <3>2 DEF CreateSecret, ProvisionTypeOK
    <3> QED
      BY <1>5, <3>1, <3>2
  <2> QED
    BY <2>2, <2>3, <2>5, <2>7 DEF ProvisionInv
<1> QED
    BY <1>1, <1>2, <1>3, <1>4, <1>5 DEF ProvisionStep

-----------------------------------------------------------------------------
(* What the steps of the host touch. *)

Emptied == secrets' = NoSecrets /\ prov' = [prov EXCEPT !.pc = "idle"]
PutBack ==
    /\ rot = "stateBack" /\ archive[Last].secrets # None
    /\ secrets' = archive[Last].secrets /\ prov' = prov

(* The secret directory changes by a step of the tool, when a rotation     *)
(* moves or removes it and when a rollback puts it back.                   *)
LEMMA SecretSteps ==
    ASSUME DeploymentNext
    PROVE  StartProvision \/ ProvisionStep \/ Emptied \/ PutBack \/ UNCHANGED <<secrets, prov>>
<1>1. CASE Provision \/ ProvisionStep
    BY <1>1 DEF Provision
<1>2. CASE Up \/ Backup \/ Activate
    BY <1>2 DEF Up, Backup, BackupDump, BackupStore, BackupFails, RestoreTest, Elsewhere,
                Activate, provisionVars
<1>3. CASE Rotate
  <2>1. CASE RotateProvision
    BY <2>1 DEF RotateProvision
  <2>2. CASE RotateMoveSecrets \/ RollbackRemove
    BY <2>2 DEF RotateMoveSecrets, RollbackRemove, Emptied
  <2>3. CASE RollbackSecrets
    BY <2>3 DEF RollbackSecrets, PutBack
  <2>4. CASE \/ RotateCheck \/ RotateDown \/ RotateMoveState \/ RotateAbort \/ RotateUp
             \/ RotateVerify \/ RotateFail \/ RotateOpen \/ RotateRecord
             \/ RotateKeep \/ RotateTimer \/ RotateError
             \/ RollbackState \/ RollbackUp \/ RotateKilled
    BY <2>4 DEF RotateCheck, RotateDown, RotateMoveState, RotateAbort, RotateUp,
                RotateVerify, RotateFail, RotateOpen, RotateRecord,
                RotateKeep, RotateTimer, RotateError,
                RollbackState, RollbackUp, RotateKilled, provisionVars
  <2> QED
    BY <1>3, <2>1, <2>2, <2>3, <2>4 DEF Rotate
<1> QED
    BY <1>1, <1>2, <1>3 DEF DeploymentNext

(* The client, the wire, the evidence files and the commits change only    *)
(* with a step of the client or the endpoint, which leaves the scripts,    *)
(* the tool and the backup alone.                                          *)
LEMMA ClientSteps ==
    ASSUME DeploymentNext
    PROVE  \/ UNCHANGED <<prepared, client, wire, evidence, activations>>
           \/ Activate /\ UNCHANGED <<secrets, prov, databases, rot, archive, rotated, timer,
                                      backup, snapshot, restored>>
<1>1. CASE Provision \/ Up \/ (ProvisionStep /\ UNCHANGED <<activationVars, databases, scriptVars, backupVars>>)
    BY <1>1 DEF Provision, Up, activationVars, clientVars
<1>2. CASE Backup
    BY <1>2 DEF Backup, BackupDump, BackupStore, BackupFails, RestoreTest, Elsewhere,
                activationVars, clientVars
<1>3. CASE Activate
    BY <1>3 DEF Activate, provisionVars, scriptVars, backupVars
<1>4. CASE Rotate
    BY <1>4 DEF Rotate, RotateCheck, RotateDown, RotateMoveState, RotateAbort, RotateUp,
                RotateVerify, RotateFail, RotateOpen, RotateRecord,
                RotateKeep, RotateTimer, RotateError,
                RollbackState, RollbackUp, RotateKilled, RotateProvision, RotateMoveSecrets,
                RollbackRemove, RollbackSecrets, Outside, Others, clientVars
<1> QED
    BY <1>1, <1>2, <1>3, <1>4 DEF DeploymentNext

(* The backup changes only with its own steps. *)
LEMMA BackupSteps ==
    ASSUME DeploymentNext
    PROVE  \/ UNCHANGED <<backup, snapshot, restored>>
           \/ Backup /\ UNCHANGED <<secrets, prov, service, database, databases, prepared, client,
                                    wire, evidence, activations, rot, archive, rotated, timer>>
<1>1. CASE Provision \/ Up \/ (ProvisionStep /\ UNCHANGED <<activationVars, databases, scriptVars, backupVars>>)
    BY <1>1 DEF Provision, Up, backupVars
<1>2. CASE Backup
    BY <1>2 DEF Backup, BackupDump, BackupStore, BackupFails, RestoreTest, Elsewhere,
                activationVars, clientVars, provisionVars, scriptVars
<1>3. CASE Activate
    BY <1>3 DEF Activate, backupVars
<1>4. CASE Rotate
    BY <1>4 DEF Rotate, RotateCheck, RotateDown, RotateMoveState, RotateAbort, RotateUp,
                RotateVerify, RotateFail, RotateOpen, RotateRecord,
                RotateKeep, RotateTimer, RotateError,
                RollbackState, RollbackUp, RotateKilled, RotateProvision, RotateMoveSecrets,
                RollbackRemove, RollbackSecrets, Outside, Others, backupVars
<1> QED
    BY <1>1, <1>2, <1>3, <1>4 DEF DeploymentNext

-----------------------------------------------------------------------------
(* The type invariant, and the invariant of the tool on the host. *)

(* The rollback directory of the latest rotation. *)
LEMMA LastFacts ==
    ASSUME DeploymentTypeOK, archive # <<>>
    PROVE  /\ Last \in DOMAIN archive /\ DOMAIN archive = 1..Last /\ Last \in Nat
           /\ archive[Last] \in Archived
    BY DEF DeploymentTypeOK, Last

LEMMA SecretsKept ==
    ASSUME DeploymentTypeOK, ProvisionInv, ScriptInv, DeploymentNext
    PROVE  ProvisionTypeOK' /\ ProvisionInv'
<1>0. ProvisionTypeOK
    BY DEF DeploymentTypeOK
<1>1. CASE StartProvision \/ ProvisionStep
    BY <1>0, <1>1, ToolKeeps
<1>2. CASE Emptied
    BY <1>0, <1>2, NoSecretsFacts DEF Emptied, ProvisionTypeOK, ProvisionInv, Running
<1>3. CASE PutBack
  <2>1. prov.pc = "idle"
    BY <1>3 DEF PutBack, ScriptInv
  <2>2. archive # <<>>
    BY <1>3 DEF PutBack, ScriptInv
  <2>3. secrets' \in Directory
    BY <1>3, <2>2, LastFacts DEF PutBack, Archived
  <2> QED
    BY <1>0, <1>3, <2>1, <2>3 DEF PutBack, ProvisionTypeOK, ProvisionInv, Running
<1>4. CASE UNCHANGED <<secrets, prov>>
    BY <1>0, <1>4 DEF ProvisionTypeOK, ProvisionInv, Running, Content, NewValue, File, Taken
<1> QED
    BY <1>1, <1>2, <1>3, <1>4, SecretSteps

LEMMA PreparedFacts ==
    ASSUME ClientTypeOK, NEW k \in DOMAIN prepared
    PROVE  /\ k \in 1..MaxPrepared /\ k \in Nat
           /\ prepared[k] \in [draft : Drafts, fresh : BOOLEAN]
           /\ prepared[k].draft \in Drafts
<1> DEFINE R == [draft : Drafts, fresh : BOOLEAN]
<1>1. prepared \in Seq(R) /\ Len(prepared) <= MaxPrepared /\ MaxPrepared \in Nat
    BY ActivationAssumption DEF ClientTypeOK
<1> HIDE DEF R
<1>2. Len(prepared) \in Nat /\ k \in 1..Len(prepared) /\ prepared[k] \in R
    BY <1>1
<1> QED
    BY <1>1, <1>2 DEF R

LEMMA CommandFacts ==
    ASSUME ClientTypeOK, NEW k \in DOMAIN prepared, NEW raced \in BOOLEAN, NEW newborn \in BOOLEAN
    PROVE  [nonce |-> k, draft |-> prepared[k].draft, raced |-> raced, newborn |-> newborn]
               \in Command
    BY PreparedFacts DEF Command

LEMMA ClientTypeKept ==
    ASSUME DeploymentTypeOK, ClientInv, DeploymentNext
    PROVE  ClientTypeOK'
<1>0. ClientTypeOK /\ ProvisionTypeOK
    BY DEF DeploymentTypeOK
<1>1. CASE UNCHANGED <<prepared, client, wire, evidence, activations>>
    BY <1>0, <1>1 DEF ClientTypeOK
<1>2. ASSUME NEW d \in Drafts, PrepareActivation(d) PROVE ClientTypeOK'
  <2> DEFINE r == [draft |-> d, fresh |-> TRUE]
  <2>1. /\ prepared \in Seq([draft : Drafts, fresh : BOOLEAN])
        /\ r \in [draft : Drafts, fresh : BOOLEAN] /\ prepared' = Append(prepared, r)
    BY <1>0, <1>2 DEF PrepareActivation, ClientTypeOK
  <2> HIDE DEF r
  <2>2. /\ prepared' \in Seq([draft : Drafts, fresh : BOOLEAN])
        /\ Len(prepared') = Len(prepared) + 1 /\ DOMAIN prepared \subseteq DOMAIN prepared'
    BY <2>1
  <2>3. Len(prepared') <= MaxPrepared
    BY <1>0, <1>2, <2>1, <2>2, ActivationAssumption DEF PrepareActivation, ClientTypeOK
  <2> QED
    BY <1>0, <1>2, <2>2, <2>3 DEF PrepareActivation, ClientTypeOK
<1>3. ASSUME NEW k \in DOMAIN prepared, Age(k) PROVE ClientTypeOK'
  <2> DEFINE R == [draft : Drafts, fresh : BOOLEAN]
             r == [prepared[k] EXCEPT !.fresh = FALSE]
  <2>1. r \in R /\ prepared \in Seq(R)
    BY <1>0, PreparedFacts DEF ClientTypeOK
  <2>2. prepared' = [prepared EXCEPT ![k] = r]
    BY <1>3 DEF Age
  <2> HIDE DEF R, r
  <2>3. /\ prepared' \in Seq(R)
        /\ Len(prepared') = Len(prepared) /\ DOMAIN prepared' = DOMAIN prepared
    BY <2>1, <2>2
  <2> QED
    BY <1>0, <1>3, <2>3 DEF Age, ClientTypeOK, R
<1>4. ASSUME NEW k \in DOMAIN prepared, NEW p \in EvidencePaths, SubmitActivation(k, p)
      PROVE  ClientTypeOK'
  <2>1. k \in 1..MaxPrepared
    BY <1>0, ActivationAssumption DEF ClientTypeOK
  <2>2. client.submits + 1 \in 1..MaxSubmits
    BY <1>0, <1>4, ActivationAssumption DEF SubmitActivation, ClientTypeOK
  <2>3. secrets["token"].content \in Contents
    BY <1>0, OrderFacts DEF ProvisionTypeOK, Directory
  <2>4. wire' \subseteq [submit : 1..MaxSubmits, nonce : DOMAIN prepared, token : Contents]
    BY <1>0, <1>4, <2>2, <2>3 DEF SubmitActivation, ClientTypeOK
  <2>5. client' \in [pc : {"idle", "posted", "answered", "created"},
                     nonce : 1..MaxPrepared \cup {None},
                     path : EvidencePaths \cup {None}, submits : 0..MaxSubmits]
    BY <1>4, <2>1, <2>2 DEF SubmitActivation
  <2> QED
    BY <1>0, <1>4, <2>4, <2>5 DEF SubmitActivation, ClientTypeOK
<1>5. CASE CreateEvidence
    BY <1>0, <1>5 DEF CreateEvidence, ClientTypeOK
<1>6. CASE WriteEvidence
  <2>1. client.nonce \in DOMAIN prepared
    BY <1>0, <1>6 DEF WriteEvidence, ClientTypeOK
  <2>2. [nonce |-> client.nonce, draft |-> prepared[client.nonce].draft] \in Evidence
    BY <1>0, <2>1, PreparedFacts DEF Evidence
  <2>3. client' \in [pc : {"idle", "posted", "answered", "created"},
                     nonce : 1..MaxPrepared \cup {None},
                     path : EvidencePaths \cup {None}, submits : 0..MaxSubmits]
    BY <1>0, <1>6 DEF WriteEvidence, Idle, ClientTypeOK
  <2>4. evidence' \in [EvidencePaths -> Evidence \cup {Absent, Empty}]
    BY <1>0, <1>6, <2>2 DEF WriteEvidence, ClientTypeOK
  <2> QED
    BY <1>0, <1>6, <2>3, <2>4 DEF WriteEvidence, Idle, ClientTypeOK
<1>7. CASE ClientStops
    BY <1>0, <1>7 DEF ClientStops, Idle, ClientTypeOK
<1>8. ASSUME NEW m \in wire, LoseRequest(m) \/ ServerRefuse(m) PROVE ClientTypeOK'
    BY <1>0, <1>8 DEF LoseRequest, ServerRefuse, ClientTypeOK
<1>9. ASSUME NEW m \in wire, ServerReplay(m) PROVE ClientTypeOK'
    BY <1>0, <1>9 DEF ServerReplay, Answer, ClientTypeOK
<1>10. ASSUME NEW m \in wire, ServerActivate(m, rot # "idle", NewDatabaseUp) PROVE ClientTypeOK'
  <2> DEFINE c == [nonce |-> m.nonce, draft |-> prepared[m.nonce].draft,
                   raced |-> rot # "idle", newborn |-> NewDatabaseUp]
  <2>1. m.nonce \in DOMAIN prepared /\ (rot # "idle") \in BOOLEAN /\ NewDatabaseUp \in BOOLEAN
    BY <1>0 DEF ClientTypeOK, NewDatabaseUp
  <2>2. c \in Command
    BY <1>0, <2>1, CommandFacts
  <2>3. activations' = activations \cup {c} /\ wire' = wire \ {m} /\ Answer(m)
        /\ UNCHANGED <<prepared, evidence>>
    BY <1>10 DEF ServerActivate
  <2> HIDE DEF c
  <2> QED
    BY <1>0, <2>2, <2>3 DEF Answer, ClientTypeOK
<1> QED
    BY <1>1, <1>2, <1>3, <1>4, <1>5, <1>6, <1>7, <1>8, <1>9, <1>10, ClientSteps
    DEF Activate, ClientStep

(* docker compose up keeps a database that is there; a new one is empty.   *)
LEMMA ComposeFacts ==
    ASSUME DeploymentTypeOK, ComposeUp
    PROVE  /\ database' \in Database \cup {None}
           /\ service' # None => database' # None
           /\ databases' \in 0..MaxDatabases /\ databases' >= databases
           /\ database # None => database' = database
           /\ database = None /\ database' # None => database'.commands = {}
           /\ database' # None => database'.id <= databases'
<1> DEFINE new == [id |-> databases + 1, password |-> secrets["password"].content,
                   commands |-> {}]
<1>1. /\ databases \in Nat /\ MaxDatabases \in Nat /\ databases <= MaxDatabases
      /\ database \in Database \cup {None}
    BY DeploymentAssumption DEF DeploymentTypeOK
<1>2. service' # None => database' # None
    BY DEF ComposeUp, StartedService
<1>3. CASE database # None
  <2>1. database' = database /\ databases' = databases
    BY <1>3 DEF ComposeUp, StartedDatabase
  <2>2. database.id <= databases
    BY <1>3 DEF DeploymentTypeOK, Kept
  <2> QED
    BY <1>1, <1>2, <1>3, <2>1, <2>2
<1>4. CASE database = None /\ database' = None
    BY <1>1, <1>2, <1>4 DEF ComposeUp
<1>5. CASE database = None /\ database' # None
  <2>1. database' = new /\ databases' = databases + 1 /\ databases < MaxDatabases
    BY <1>5 DEF ComposeUp, StartedDatabase
  <2>2. secrets["password"].content \in Contents
    BY OrderFacts DEF DeploymentTypeOK, ProvisionTypeOK, Directory
  <2>3. databases + 1 \in 1..MaxDatabases
    BY <1>1, <2>1
  <2>4. new \in Database
    BY <2>2, <2>3 DEF Database
  <2> QED
    BY <1>1, <1>2, <1>5, <2>1, <2>3, <2>4
<1> QED
    BY <1>3, <1>4, <1>5

(* The rollback directories. *)
LEMMA ArchiveAppend ==
    ASSUME DeploymentTypeOK, archive' = Append(archive, [database |-> None, secrets |-> None])
    PROVE  /\ archive' \in Seq(Archived) /\ archive' # <<>> /\ Len(archive') = Len(archive) + 1
           /\ Last' = Last + 1 /\ DOMAIN archive \subseteq DOMAIN archive'
           /\ \A k \in DOMAIN archive' : k \in DOMAIN archive \/ k = Last'
           /\ \A k \in DOMAIN archive : archive'[k] = archive[k]
           /\ archive'[Last'].database = None /\ archive'[Last'].secrets = None
<1> DEFINE r == [database |-> None, secrets |-> None]
<1>1. r \in Archived /\ archive \in Seq(Archived) /\ r.database = None /\ r.secrets = None
    BY DEF DeploymentTypeOK, Archived
<1>2. archive' = Append(archive, r)
    OBVIOUS
<1> HIDE DEF r
<1> QED
    BY <1>1, <1>2 DEF Last

LEMMA ArchiveDatabase ==
    ASSUME DeploymentTypeOK, archive # <<>>, NEW d \in Database \cup {None},
           archive' = [archive EXCEPT ![Last].database = d]
    PROVE  /\ archive' \in Seq(Archived) /\ archive' # <<>> /\ Len(archive') = Len(archive)
           /\ Last' = Last /\ DOMAIN archive' = DOMAIN archive
           /\ \A k \in DOMAIN archive : k # Last => archive'[k] = archive[k]
           /\ archive'[Last].database = d /\ archive'[Last].secrets = archive[Last].secrets
<1> DEFINE r == [archive[Last] EXCEPT !.database = d]
<1>1. r \in Archived /\ archive \in Seq(Archived) /\ r.database = d
      /\ r.secrets = archive[Last].secrets /\ Last \in DOMAIN archive
    BY LastFacts DEF DeploymentTypeOK, Archived
<1>2. archive' = [archive EXCEPT ![Last] = r]
    OBVIOUS
<1> HIDE DEF r
<1>3. Len(archive') = Len(archive) /\ archive' \in Seq(Archived) /\ DOMAIN archive' = DOMAIN archive
    BY <1>1, <1>2
<1> QED
    BY <1>1, <1>2, <1>3 DEF Last

LEMMA ArchiveSecrets ==
    ASSUME DeploymentTypeOK, archive # <<>>, NEW d \in Directory \cup {None},
           archive' = [archive EXCEPT ![Last].secrets = d]
    PROVE  /\ archive' \in Seq(Archived) /\ archive' # <<>> /\ Len(archive') = Len(archive)
           /\ Last' = Last /\ DOMAIN archive' = DOMAIN archive
           /\ \A k \in DOMAIN archive : k # Last => archive'[k] = archive[k]
           /\ archive'[Last].secrets = d /\ archive'[Last].database = archive[Last].database
<1> DEFINE r == [archive[Last] EXCEPT !.secrets = d]
<1>1. r \in Archived /\ archive \in Seq(Archived) /\ r.secrets = d
      /\ r.database = archive[Last].database /\ Last \in DOMAIN archive
    BY LastFacts DEF DeploymentTypeOK, Archived
<1>2. archive' = [archive EXCEPT ![Last] = r]
    OBVIOUS
<1> HIDE DEF r
<1>3. Len(archive') = Len(archive) /\ archive' \in Seq(Archived) /\ DOMAIN archive' = DOMAIN archive
    BY <1>1, <1>2
<1> QED
    BY <1>1, <1>2, <1>3 DEF Last

(* The part of the type invariant about the service and the scripts. *)
StateTypeOK ==
    /\ database \in Database \cup {None}
    /\ service # None => database # None
    /\ databases \in 0..MaxDatabases
    /\ rot \in RotationSteps
    /\ archive \in Seq(Archived) /\ Len(archive) <= MaxRotations
    /\ timer \in BOOLEAN

IdsOK ==
    /\ database # None => database.id <= databases
    /\ \A k \in DOMAIN archive : archive[k].database # None => archive[k].database.id <= databases

LEMMA TypeParts ==
    DeploymentTypeOK <=>
        /\ ProvisionTypeOK /\ ClientTypeOK /\ StateTypeOK /\ IdsOK
        /\ backup \in [pc : {"idle", "dumped"}, dump : (SUBSET Command) \cup {None},
                       rotations : 0..MaxRotations \cup {None}]
        /\ snapshot \in Snapshot \cup {None}
        /\ restored # None => snapshot # None
<1>1. (\A db \in Kept \ {None} : db.id <= databases) <=> IdsOK
    BY Zenon DEF Kept, IdsOK
<1> QED
    BY <1>1 DEF DeploymentTypeOK, StateTypeOK

LEMMA TypePartsNext ==
    DeploymentTypeOK' <=>
        /\ ProvisionTypeOK' /\ ClientTypeOK' /\ StateTypeOK' /\ IdsOK'
        /\ (backup \in [pc : {"idle", "dumped"}, dump : (SUBSET Command) \cup {None},
                        rotations : 0..MaxRotations \cup {None}])'
        /\ (snapshot \in Snapshot \cup {None})'
        /\ (restored # None => snapshot # None)'
<1>1. (\A db \in Kept' \ {None} : db.id <= databases') <=> IdsOK'
    BY Zenon DEF Kept, IdsOK
<1> QED
    BY <1>1 DEF DeploymentTypeOK, StateTypeOK

(* The steps that leave the service, the database and the rotation alone,  *)
(* those of the endpoint apart.                                            *)
LEMMA QuietSteps ==
    ASSUME DeploymentNext
    PROVE  \/ UNCHANGED <<service, database, databases, rot, archive, timer>>
           \/ Up \/ Rotate
           \/ \E m \in wire : /\ ServerActivate(m, rot # "idle", NewDatabaseUp)
                              /\ UNCHANGED <<databases, rot, archive, timer>>
<1>1. CASE Provision \/ (ProvisionStep /\ UNCHANGED <<activationVars, databases, scriptVars, backupVars>>)
    BY <1>1 DEF Provision, activationVars, scriptVars
<1>2. CASE Backup
    BY <1>2 DEF Backup, BackupDump, BackupStore, BackupFails, RestoreTest, Elsewhere,
                activationVars, scriptVars
<1>3. CASE Activate
    BY <1>3 DEF Activate, ClientStep, PrepareActivation, Age, SubmitActivation, CreateEvidence,
                WriteEvidence, ClientStops, LoseRequest, ServerReplay, ServerRefuse, scriptVars
<1> QED
    BY <1>1, <1>2, <1>3 DEF DeploymentNext

(* The commit of an activation. *)
LEMMA CommitFacts ==
    ASSUME DeploymentTypeOK, NEW m \in wire,
           ServerActivate(m, rot # "idle", NewDatabaseUp)
    PROVE  \E c \in Command :
              /\ c.nonce = m.nonce /\ c.draft = prepared[m.nonce].draft
              /\ c.raced = (rot # "idle") /\ c.newborn = NewDatabaseUp
              /\ m.nonce \in DOMAIN prepared
              /\ service # None /\ database \in Database /\ database # None
              /\ database.commands = {} /\ database' \in Database
              /\ database'.commands = {c} /\ database'.id = database.id
              /\ activations' = activations \cup {c}
              /\ service' = service
<1> DEFINE c == [nonce |-> m.nonce, draft |-> prepared[m.nonce].draft,
                 raced |-> rot # "idle", newborn |-> NewDatabaseUp]
<1>1. m.nonce \in DOMAIN prepared /\ (rot # "idle") \in BOOLEAN /\ NewDatabaseUp \in BOOLEAN
    BY DEF DeploymentTypeOK, ClientTypeOK, NewDatabaseUp
<1>2. c \in Command
    BY <1>1, CommandFacts DEF DeploymentTypeOK
<1>3. /\ c.nonce = m.nonce /\ c.draft = prepared[m.nonce].draft
      /\ c.raced = (rot # "idle") /\ c.newborn = NewDatabaseUp
    OBVIOUS
<1>4. /\ service # None /\ database # None /\ database.commands = {}
      /\ database' = [database EXCEPT !.commands = {c}]
      /\ activations' = activations \cup {c} /\ service' = service
    BY DEF ServerActivate, Authorized, DeploymentTypeOK
<1> HIDE DEF c
<1>5. database \in Database
    BY <1>4 DEF DeploymentTypeOK
<1>6. database' \in Database /\ database'.commands = {c} /\ database'.id = database.id
    BY <1>2, <1>4, <1>5 DEF Database
<1> QED
    BY <1>1, <1>2, <1>3, <1>4, <1>5, <1>6

(* A start of the containers keeps the numbers of the databases. *)
LEMMA ComposeIds ==
    ASSUME DeploymentTypeOK, ComposeUp, archive' = archive
    PROVE  IdsOK'
<1>1. IdsOK /\ databases \in Nat /\ databases' \in Nat /\ databases <= databases'
    BY TypeParts, ComposeFacts, DeploymentAssumption DEF StateTypeOK
<1>2. database' # None => database'.id <= databases'
    BY ComposeFacts
<1>3. ASSUME NEW k \in DOMAIN archive, archive[k].database # None
      PROVE  archive[k].database.id <= databases'
  <2>1. archive[k] \in Archived
    BY DEF DeploymentTypeOK
  <2>2. archive[k].database \in Database
    BY <1>3, <2>1 DEF Archived
  <2>3. archive[k].database.id \in Nat
    BY <2>2, DeploymentAssumption DEF Database
  <2>4. archive[k].database.id <= databases
    BY <1>1, <1>3 DEF IdsOK
  <2> QED
    BY <1>1, <2>3, <2>4
<1> QED
    BY <1>2, <1>3 DEF IdsOK

LEMMA ComposeType ==
    ASSUME DeploymentTypeOK, ComposeUp, archive' = archive,
           timer' \in BOOLEAN, rot' \in RotationSteps
    PROVE  StateTypeOK' /\ IdsOK'
<1>1. IdsOK'
    BY ComposeIds
<1>2. archive' \in Seq(Archived) /\ Len(archive') <= MaxRotations
    BY DEF DeploymentTypeOK
<1>3. /\ database' \in Database \cup {None}
      /\ service' # None => database' # None
      /\ databases' \in 0..MaxDatabases
    BY ComposeFacts
<1> QED
    BY <1>1, <1>2, <1>3 DEF StateTypeOK

LEMMA StateTypeKept ==
    ASSUME DeploymentTypeOK, ScriptInv, DeploymentNext
    PROVE  StateTypeOK' /\ IdsOK'
<1>0. StateTypeOK /\ IdsOK
    BY TypeParts
<1>1. CASE UNCHANGED <<service, database, databases, rot, archive, timer>>
    BY <1>0, <1>1 DEF StateTypeOK, IdsOK
<1>2. ASSUME NEW m \in wire, ServerActivate(m, rot # "idle", NewDatabaseUp),
             UNCHANGED <<databases, rot, archive, timer>>
      PROVE  StateTypeOK' /\ IdsOK'
  <2>1. /\ database' \in Database /\ database'.id = database.id /\ database # None
    BY <1>2, CommitFacts
  <2>2. database' # None /\ database.id <= databases
    BY <2>1, <1>0, NoneAssumption DEF IdsOK
  <2>3. StateTypeOK'
    BY <1>0, <1>2, <2>1, <2>2 DEF StateTypeOK
  <2> QED
    BY <1>0, <1>2, <2>1, <2>2, <2>3 DEF IdsOK
<1>3. CASE Up
  <2>1. ComposeUp /\ archive' = archive /\ timer' \in BOOLEAN /\ rot' \in RotationSteps
    BY <1>0, <1>3 DEF Up, scriptVars, StateTypeOK
  <2> QED
    BY <2>1, ComposeType
<1>4. CASE Rotate
  <2>1. CASE RotateCheck
    <3>1. Len(archive) + 1 <= MaxRotations
      BY <2>1, <1>0, DeploymentAssumption DEF RotateCheck, StateTypeOK
    <3> QED
      BY <2>1, <3>1, <1>0, ArchiveAppend DEF RotateCheck, StateTypeOK, IdsOK, RotationSteps
  <2>2. CASE RotateDown \/ RotateAbort \/ RotateVerify \/ RotateFail \/ RotateOpen \/ RotateRecord
             \/ RotateKeep \/ RotateTimer \/ RotateError \/ RotateKilled
    BY <2>2, <1>0 DEF RotateDown, RotateAbort, RotateVerify, RotateFail, RotateOpen, RotateRecord,
                RotateKeep, RotateTimer, RotateError,
                      RotateKilled, StateTypeOK, IdsOK, RotationSteps
  <2>3. CASE RotateMoveState
    <3>1. archive # <<>> /\ service = None /\ database \in Database \cup {None}
      BY <2>3, <1>0 DEF RotateMoveState, ScriptInv, StateTypeOK
    <3>2. archive' = [archive EXCEPT ![Last].database = database] /\ database' = None
          /\ rot' = "stateMoved" /\ UNCHANGED <<service, databases, timer>>
      BY <2>3 DEF RotateMoveState
    <3>3. StateTypeOK'
      BY <3>1, <3>2, <1>0, ArchiveDatabase DEF StateTypeOK, RotationSteps
    <3>4. IdsOK'
      BY <3>1, <3>2, <1>0, ArchiveDatabase DEF IdsOK
    <3> QED
      BY <3>3, <3>4
  <2>4. CASE RotateMoveSecrets
    <3>1. archive # <<>> /\ secrets \in Directory \cup {None}
      BY <2>4 DEF RotateMoveSecrets, ScriptInv, DeploymentTypeOK, ProvisionTypeOK
    <3>2. archive' = [archive EXCEPT ![Last].secrets = secrets]
          /\ rot' = "rotated" /\ UNCHANGED <<service, database, databases, timer>>
      BY <2>4 DEF RotateMoveSecrets
    <3>3. StateTypeOK'
      BY <3>1, <3>2, <1>0, ArchiveSecrets DEF StateTypeOK, RotationSteps
    <3>4. IdsOK'
      BY <3>1, <3>2, <1>0, ArchiveSecrets DEF IdsOK
    <3> QED
      BY <3>3, <3>4
  <2>5. CASE RotateProvision
    BY <2>5, <1>0 DEF RotateProvision, StateTypeOK, IdsOK, RotationSteps
  <2>6. CASE RotateUp
    <3>1. ComposeUp /\ archive' = archive /\ timer' \in BOOLEAN /\ rot' \in RotationSteps
      BY <1>0, <2>6 DEF RotateUp, StateTypeOK, RotationSteps
    <3> QED
      BY <3>1, ComposeType
  <2>7. CASE RollbackRemove
    BY <1>0, <2>7 DEF RollbackRemove, StateTypeOK, IdsOK, RotationSteps, ScriptInv
  <2>8. CASE RollbackState
    <3>1. rot' = "stateBack" /\ UNCHANGED <<service, databases, timer>> /\ archive # <<>> /\ service = None
      BY <2>8 DEF RollbackState, ScriptInv
    <3>2. CASE UNCHANGED <<database, archive>>
      BY <3>1, <3>2, <1>0 DEF StateTypeOK, IdsOK, RotationSteps
    <3>3. CASE /\ archive[Last].database # None /\ database' = archive[Last].database
               /\ archive' = [archive EXCEPT ![Last].database = None]
      <4>1. database' \in Database \cup {None} /\ database'.id <= databases
        BY <3>1, <3>3, <1>0, LastFacts DEF Archived, IdsOK
      <4>2. /\ archive' \in Seq(Archived) /\ Len(archive') = Len(archive)
            /\ DOMAIN archive' = DOMAIN archive /\ archive'[Last].database = None
            /\ \A k \in DOMAIN archive : k # Last => archive'[k] = archive[k]
        BY <3>1, <3>3, ArchiveDatabase
      <4>3. StateTypeOK'
        BY <3>1, <4>1, <4>2, <1>0 DEF StateTypeOK, RotationSteps
      <4>4. IdsOK'
        BY <3>1, <4>1, <4>2, <1>0 DEF IdsOK
      <4> QED
        BY <4>3, <4>4
    <3> QED
      BY <2>8, <3>2, <3>3 DEF RollbackState
  <2>9. CASE RollbackSecrets
    <3>1. rot' = "secretsBack" /\ UNCHANGED <<service, database, databases, timer>> /\ archive # <<>>
      BY <2>9 DEF RollbackSecrets, ScriptInv
    <3>2. CASE archive' = archive
      BY <3>1, <3>2, <1>0 DEF StateTypeOK, IdsOK, RotationSteps
    <3>3. CASE archive' = [archive EXCEPT ![Last].secrets = None]
      <4>1. /\ archive' \in Seq(Archived) /\ Len(archive') = Len(archive)
            /\ DOMAIN archive' = DOMAIN archive /\ archive'[Last].database = archive[Last].database
            /\ \A k \in DOMAIN archive : k # Last => archive'[k] = archive[k]
        BY <3>1, <3>3, ArchiveSecrets
      <4> QED
        BY <3>1, <4>1, <1>0 DEF StateTypeOK, IdsOK, RotationSteps
    <3> QED
      BY <2>9, <3>2, <3>3 DEF RollbackSecrets
  <2>10. CASE RollbackUp
    <3>1. /\ rot' \in RotationSteps /\ timer' \in BOOLEAN /\ archive' = archive
          /\ ComposeUp \/ UNCHANGED <<service, database, databases>>
      BY <2>10 DEF RollbackUp, RotationSteps
    <3>2. CASE ComposeUp
      BY <3>1, <3>2, ComposeType
    <3>3. CASE UNCHANGED <<service, database, databases>>
      BY <3>1, <3>3, <1>0 DEF StateTypeOK, IdsOK
    <3> QED
      BY <3>1, <3>2, <3>3
  <2> QED
    BY <1>4, <2>1, <2>2, <2>3, <2>4, <2>5, <2>6, <2>7, <2>8, <2>9, <2>10 DEF Rotate
<1> QED
    BY <1>1, <1>2, <1>3, <1>4, QuietSteps

-----------------------------------------------------------------------------
(* Where the rotation script is. *)

LEMMA ScriptKept ==
    ASSUME DeploymentTypeOK, ScriptInv, DeploymentNext
    PROVE  ScriptInv'
<1>0. rot' = "idle" => ScriptInv'
    BY DEF ScriptInv
<1>1. CASE UNCHANGED <<service, database, databases, rot, archive, timer>>
  <2>1. rot \in {"removed", "stateBack", "secretsBack"} => prov'.pc = "idle"
    <3>1. CASE StartProvision
      <4>1. CASE Rotate
        BY <1>1, <4>1 DEF Rotate, RotateCheck, RotateDown, RotateMoveState, RotateAbort, RotateUp,
                RotateVerify, RotateFail, RotateOpen, RotateRecord,
                RotateKeep, RotateTimer, RotateError,
                RollbackState, RollbackUp, RotateKilled, RotateProvision, RotateMoveSecrets,
                RollbackRemove, RollbackSecrets
      <4>2. CASE Provision
        BY <4>2 DEF Provision
      <4>3. CASE Up \/ Backup \/ Activate
        BY <4>3 DEF Up, Backup, BackupDump, BackupStore, BackupFails, RestoreTest, Elsewhere,
                    Activate, provisionVars, ScriptInv
      <4>4. CASE ProvisionStep
        BY <4>4 DEF ProvisionStep, KeepSecret, RefuseEmpty, CreateSecret, WriteSecret, OwnSecret,
                    CrashProvision, Running, ScriptInv
      <4> QED
        BY <4>1, <4>2, <4>3, <4>4 DEF DeploymentNext
    <3>2. CASE ProvisionStep
      BY <3>2 DEF ProvisionStep, KeepSecret, RefuseEmpty, CreateSecret, WriteSecret, OwnSecret,
                  CrashProvision, Running, ScriptInv
    <3>3. CASE Emptied
      BY <3>3 DEF Emptied, DeploymentTypeOK, ProvisionTypeOK
    <3>4. CASE PutBack \/ UNCHANGED <<secrets, prov>>
      BY <3>4 DEF PutBack, ScriptInv
    <3> QED
      BY <3>1, <3>2, <3>3, <3>4, SecretSteps
  <2> QED
    BY <1>1, <2>1 DEF ScriptInv, Last
<1>2. ASSUME NEW m \in wire, ServerActivate(m, rot # "idle", NewDatabaseUp),
             UNCHANGED <<databases, rot, archive, timer>>
      PROVE  ScriptInv'
  <2>1. PICK c \in Command :
            /\ c.newborn = NewDatabaseUp /\ service # None /\ service' = service
            /\ database' \in Database /\ database'.commands = {c}
    BY <1>2, CommitFacts
  <2>2. database' # None
    BY <2>1, NoneAssumption
  <2>3. rot \in {"idle", "checked", "up", "verified", "opened", "recorded", "kept"}
    BY <2>1 DEF ScriptInv
  <2> QED
    BY <1>2, <2>1, <2>2, <2>3 DEF ScriptInv, NewDatabaseUp, Last
<1>3. CASE Up
    BY <1>0, <1>3 DEF Up, scriptVars
<1>4. CASE Rotate
  <2>1. CASE RotateCheck
    <3>1. database # None /\ database' = database /\ rot' = "checked"
      BY <2>1 DEF RotateCheck, DeploymentTypeOK
    <3>2. archive' # <<>> /\ archive'[Last'].database = None
      BY <2>1, ArchiveAppend DEF RotateCheck
    <3> QED
      BY <3>1, <3>2 DEF ScriptInv
  <2>2. CASE RotateDown
    BY <2>2 DEF RotateDown, ScriptInv, Last
  <2>3. CASE RotateMoveState
    <3>1. archive # <<>> /\ service' = None /\ database' = None /\ rot' = "stateMoved"
      BY <2>3 DEF RotateMoveState, ScriptInv
    <3>2. archive' # <<>>
      BY <2>3, <3>1, ArchiveDatabase DEF RotateMoveState, DeploymentTypeOK
    <3> QED
      BY <3>1, <3>2 DEF ScriptInv
  <2>4. CASE RotateMoveSecrets
    <3>1. archive # <<>> /\ service' = None /\ database' = None /\ rot' = "rotated"
      BY <2>4 DEF RotateMoveSecrets, ScriptInv
    <3>2. archive' # <<>>
      BY <2>4, <3>1, ArchiveSecrets DEF RotateMoveSecrets, DeploymentTypeOK, ProvisionTypeOK
    <3> QED
      BY <3>1, <3>2 DEF ScriptInv
  <2>5. CASE RotateAbort \/ RotateFail \/ RotateTimer \/ RotateKilled \/ RollbackUp
    BY <1>0, <2>5 DEF RotateAbort, RotateFail, RotateTimer, RotateKilled, RollbackUp
  <2>6. CASE RotateProvision
    BY <2>6 DEF RotateProvision, ScriptInv
  <2>7. CASE RotateUp
    <3>1. /\ database = None /\ archive # <<>> /\ archive' = archive /\ rot' = "up" /\ ComposeUp
      BY <2>7 DEF RotateUp, ScriptInv
    <3>2. database' # None => database'.commands = {}
      BY <3>1, ComposeFacts
    <3> QED
      BY <3>1, <3>2 DEF ScriptInv
  <2>8. CASE RotateVerify \/ RotateOpen \/ RotateRecord \/ RotateKeep
    BY <2>8 DEF RotateVerify, RotateOpen, RotateRecord, RotateKeep, ScriptInv
  <2>9. CASE RotateError
    BY <2>9 DEF RotateError, ScriptInv
  <2>10. CASE RollbackRemove
    BY <2>10 DEF RollbackRemove, ScriptInv, DeploymentTypeOK, ProvisionTypeOK
  <2>11. CASE RollbackState
    <3>1. archive # <<>> /\ service' = None /\ rot' = "stateBack" /\ prov'.pc = "idle"
      BY <2>11 DEF RollbackState, ScriptInv, provisionVars
    <3>2. archive' # <<>>
      BY <2>11, <3>1, ArchiveDatabase DEF RollbackState
    <3> QED
      BY <3>1, <3>2 DEF ScriptInv
  <2>12. CASE RollbackSecrets
    <3>1. archive # <<>> /\ service' = None /\ rot' = "secretsBack" /\ prov'.pc = "idle"
      BY <2>12 DEF RollbackSecrets, ScriptInv
    <3>2. archive' # <<>>
      BY <2>12, <3>1, ArchiveSecrets DEF RollbackSecrets
    <3> QED
      BY <3>1, <3>2 DEF ScriptInv
  <2> QED
    BY <1>4, <2>1, <2>2, <2>3, <2>4, <2>5, <2>6, <2>7, <2>8, <2>9, <2>10, <2>11, <2>12 DEF Rotate
<1> QED
    BY <1>1, <1>2, <1>3, <1>4, QuietSteps

-----------------------------------------------------------------------------
(* What a rotation replaces. *)

(* The tool's counter does not change but when a run starts. *)
LEMMA RunFacts ==
    ASSUME ProvisionTypeOK, ProvisionStep
    PROVE  prov'.run = prov.run /\ prov'.pc # "idle" /\ Running
    BY DEF ProvisionStep, KeepSecret, RefuseEmpty, CreateSecret, WriteSecret, OwnSecret,
           CrashProvision, Running, Returned, ProvisionTypeOK

(* Only the file under work changes, to a value of this run or an earlier  *)
(* one, or to an empty one.                                                *)
LEMMA FileChange ==
    ASSUME ProvisionTypeOK, ProvisionInv, ProvisionStep
    PROVE  /\ \A n \in Names : n # File => secrets'[n] = secrets[n]
           /\ secrets'[File].content \in {Content, Empty, NewValue}
           /\ CreateSecret => secrets'[File].content = Empty
           /\ WriteSecret => secrets'[File].content = NewValue
           /\ ~CreateSecret /\ ~WriteSecret => secrets'[File].content = Content
<1>0. File \in Names /\ secrets \in Directory /\ secrets[File] \in [content : Contents, owned : BOOLEAN]
    BY FileFacts DEF ProvisionTypeOK
<1>1. CASE KeepSecret \/ OwnSecret
  <2>1. secrets' = [secrets EXCEPT ![File].owned = TRUE]
    BY <1>1 DEF KeepSecret, OwnSecret
  <2>2. /\ \A n \in Names : n # File => secrets'[n] = secrets[n]
        /\ secrets'[File].content = Content
    BY <1>0, <2>1 DEF Directory, Content
  <2>3. ~CreateSecret /\ ~WriteSecret
    BY <1>1 DEF KeepSecret, OwnSecret, CreateSecret, WriteSecret
  <2> QED
    BY <2>2, <2>3
<1>2. CASE RefuseEmpty \/ CrashProvision
  <2>1. secrets' = secrets /\ prov'.pc = "failed"
    BY <1>2 DEF RefuseEmpty, CrashProvision, ProvisionTypeOK
  <2>2. ~CreateSecret /\ ~WriteSecret
    BY <2>1 DEF CreateSecret, WriteSecret, ProvisionTypeOK
  <2> QED
    BY <2>1, <2>2 DEF Content
<1>3. CASE CreateSecret
  <2>1. /\ \A n \in Names : n # File => secrets'[n] = secrets[n]
        /\ secrets'[File].content = Empty
    BY <1>0, <1>3 DEF CreateSecret, Directory
  <2>2. ~WriteSecret
    BY <1>3 DEF CreateSecret, WriteSecret
  <2> QED
    BY <1>3, <2>1, <2>2
<1>4. CASE WriteSecret
  <2>1. /\ \A n \in Names : n # File => secrets'[n] = secrets[n]
        /\ secrets'[File].content = NewValue
    BY <1>0, <1>4 DEF WriteSecret, Directory
  <2>2. ~CreateSecret
    BY <1>4 DEF CreateSecret, WriteSecret
  <2> QED
    BY <1>4, <2>1, <2>2
<1> QED
    BY <1>1, <1>2, <1>3, <1>4 DEF ProvisionStep

(* What a run writes is of a run that was started. *)
LEMMA NewValueDated ==
    ASSUME ProvisionTypeOK, ProvisionInv, Running, Dated(secrets, prov.run)
    PROVE  NewValue \in {Absent, Empty, Short} \cup 0..prov.run
<1>1. prov.run \in 0..prov.run
    BY ProvisioningAssumption DEF ProvisionTypeOK
<1>2. CASE File = "url"
  <2>1. prov.next # 1 /\ prov.next \in 1..Len(Order)
    BY <1>2, OrderFacts, FileFacts DEF File
  <2>2. 1 \in DOMAIN Order /\ 1 < prov.next
    BY <2>1, OrderFacts
  <2>3. Taken(1)
    BY <2>2 DEF ProvisionInv
  <2>4. prov.password = secrets["password"].content
    BY <2>3, OrderFacts DEF Taken
  <2> QED
    BY <1>2, <2>4, OrderFacts DEF NewValue, Dated
<1>3. CASE File # "url"
    BY <1>1, <1>3 DEF NewValue
<1> QED
    BY <1>2, <1>3

(* A file that a rotation's run has written holds the number of that run,  *)
(* the URL by way of the password.                                         *)
LEMMA MadeKept ==
    ASSUME ProvisionTypeOK, ProvisionInv, MadeByRun, ProvisionStep
    PROVE  prov'.pc # "failed" => MadeByRun'
<1>0. Running /\ prov'.run = prov.run /\ prov.pc # "done" /\ prov.next \in 1..Len(Order)
    BY RunFacts, FileFacts DEF Running
<1>1. NewValue = prov.run
  <2>1. CASE File = "url"
    <3>1. prov.next # 1
      BY <2>1, OrderFacts DEF File
    <3>2. 1 \in DOMAIN Order /\ 1 < prov.next
      BY <3>1, <1>0, OrderFacts
    <3>3. Taken(1) /\ secrets["password"].content = prov.run
      BY <3>2, <1>0, OrderFacts DEF ProvisionInv, MadeByRun
    <3>4. prov.password = secrets["password"].content
      BY <3>3, OrderFacts DEF Taken
    <3> QED
      BY <2>1, <3>3, <3>4 DEF NewValue
  <2>2. CASE File # "url"
    BY <2>2 DEF NewValue
  <2> QED
    BY <2>1, <2>2
<1>2. ASSUME NEW i \in DOMAIN Order, i # prov.next PROVE secrets'[Order[i]] = secrets[Order[i]]
    BY <1>2, FileFacts, FileChange, NameFacts
<1>3. ~KeepSecret
  <2>1. prov.pc = "check" => Content = Absent
    BY <1>0, OrderFacts DEF MadeByRun, Content, File
  <2> QED
    BY <2>1 DEF KeepSecret
<1>4. CASE RefuseEmpty \/ CrashProvision
    BY <1>4 DEF RefuseEmpty, CrashProvision, ProvisionTypeOK
<1>5. CASE CreateSecret \/ WriteSecret
  <2>1. prov'.next = prov.next /\ prov'.pc \in {"created", "written"}
    BY <1>5 DEF CreateSecret, WriteSecret, ProvisionTypeOK
  <2>2. ASSUME NEW i \in DOMAIN Order
        PROVE  /\ i < prov.next => secrets'[Order[i]].content = prov.run
               /\ i > prov.next => secrets'[Order[i]].content = Absent
    BY <1>0, <1>2, OrderFacts DEF MadeByRun
  <2> QED
    BY <1>0, <2>1, <2>2 DEF MadeByRun
<1>6. CASE OwnSecret
  <2>1. prov.pc = "written" /\ Content = prov.run /\ prov' = Returned(NewValue)
    BY <1>1, <1>6 DEF OwnSecret, ProvisionInv, Running
  <2>2. secrets'[File].content = prov.run
    BY <1>6, <2>1, FileChange DEF OwnSecret, CreateSecret, WriteSecret
  <2>3. ASSUME NEW i \in DOMAIN Order
        PROVE  /\ i <= prov.next => secrets'[Order[i]].content = prov.run
               /\ i > prov.next => secrets'[Order[i]].content = Absent
    BY <1>0, <1>2, <2>2, OrderFacts DEF MadeByRun, File
  <2>4. CASE ~Accepted(File, NewValue)
    BY <2>1, <2>4 DEF Returned, ProvisionTypeOK
  <2>5. CASE Accepted(File, NewValue) /\ prov.next = Len(Order)
    <3>1. prov'.pc = "done" /\ prov'.next = prov.next
      BY <2>1, <2>5 DEF Returned, ProvisionTypeOK
    <3> QED
      BY <3>1, <1>0, <2>3, <2>5, OrderFacts DEF MadeByRun
  <2>6. CASE Accepted(File, NewValue) /\ prov.next # Len(Order)
    <3>1. prov'.pc = "check" /\ prov'.next = prov.next + 1
      BY <2>1, <2>6 DEF Returned, ProvisionTypeOK
    <3> QED
      BY <3>1, <1>0, <2>3, OrderFacts DEF MadeByRun
  <2> QED
    BY <2>4, <2>5, <2>6
<1> QED
    BY <1>3, <1>4, <1>5, <1>6 DEF ProvisionStep

(* No content is of a run that was not started. *)
LEMMA DatedKept ==
    ASSUME DeploymentTypeOK, ProvisionInv, ScriptInv, RotationInv, DeploymentNext
    PROVE  /\ Dated(secrets', prov'.run)
           /\ \A k \in DOMAIN archive' :
                 archive'[k].secrets # None => Dated(archive'[k].secrets, prov'.run)
           /\ prov'.run \in Nat /\ prov.run <= prov'.run
<1>0. ProvisionTypeOK /\ prov.run \in Nat /\ Dated(secrets, prov.run)
    BY ProvisioningAssumption DEF DeploymentTypeOK, ProvisionTypeOK, RotationInv
<1>1. prov'.run \in Nat /\ prov.run <= prov'.run
    BY <1>0, SecretSteps, RunFacts DEF StartProvision, Emptied, PutBack, ProvisionTypeOK
<1>2. ASSUME NEW d, Dated(d, prov.run) PROVE Dated(d, prov'.run)
    BY <1>0, <1>1, <1>2 DEF Dated
<1>3. Dated(secrets', prov'.run)
  <2>1. CASE secrets' = secrets
    BY <1>0, <1>2, <2>1
  <2>2. CASE ProvisionStep
    <3>1. Running /\ prov'.run = prov.run /\ File \in Names
      BY <1>0, <2>2, RunFacts, FileFacts
    <3>2. secrets'[File].content \in {Absent, Empty, Short} \cup 0..prov.run
      BY <1>0, <2>2, <3>1, FileChange, NewValueDated DEF Dated, Content
    <3>3. \A n \in Names : n # File => secrets'[n] = secrets[n]
      BY <1>0, <2>2, FileChange
    <3> QED
      BY <1>0, <3>1, <3>2, <3>3 DEF Dated
  <2>3. CASE Emptied
    BY <2>3, NoSecretsFacts DEF Emptied, Dated
  <2>4. CASE PutBack
    <3>1. archive # <<>>
      BY <2>4 DEF PutBack, ScriptInv
    <3>2. Dated(archive[Last].secrets, prov.run)
      BY <2>4, <3>1, LastFacts DEF PutBack, RotationInv
    <3> QED
      BY <1>2, <2>4, <3>2 DEF PutBack
  <2> QED
    BY <2>1, <2>2, <2>3, <2>4, SecretSteps DEF StartProvision
<1>4. ASSUME NEW k \in DOMAIN archive', archive'[k].secrets # None
      PROVE  Dated(archive'[k].secrets, prov'.run)
  <2>0. ASSUME NEW j \in DOMAIN archive, archive[j].secrets # None
        PROVE  Dated(archive[j].secrets, prov'.run)
    BY <1>2, <2>0 DEF RotationInv
  <2>1. CASE archive' = archive
    BY <1>4, <2>0, <2>1
  <2>2. CASE RotateCheck
    BY <1>4, <2>0, <2>2, ArchiveAppend DEF RotateCheck
  <2>3. CASE RotateMoveState
    <3>1. archive # <<>> /\ database \in Database \cup {None}
      BY <2>3 DEF RotateMoveState, ScriptInv, DeploymentTypeOK
    <3> QED
      BY <1>4, <2>0, <2>3, <3>1, ArchiveDatabase DEF RotateMoveState
  <2>4. CASE RotateMoveSecrets
    <3>1. archive # <<>> /\ secrets \in Directory \cup {None}
      BY <2>4, <1>0 DEF RotateMoveSecrets, ScriptInv, ProvisionTypeOK
    <3>2. Dated(secrets, prov'.run)
      BY <1>0, <1>2
    <3> QED
      BY <1>4, <2>0, <2>4, <3>1, <3>2, ArchiveSecrets DEF RotateMoveSecrets
  <2>5. CASE RollbackState
    <3>1. archive # <<>>
      BY <2>5 DEF RollbackState, ScriptInv
    <3> QED
      BY <1>4, <2>0, <2>1, <2>5, <3>1, ArchiveDatabase DEF RollbackState
  <2>6. CASE RollbackSecrets
    <3>1. archive # <<>>
      BY <2>6 DEF RollbackSecrets, ScriptInv
    <3> QED
      BY <1>4, <2>0, <2>1, <2>6, <3>1, ArchiveSecrets DEF RollbackSecrets
  <2>7. CASE \/ RotateDown \/ RotateAbort \/ RotateUp \/ RotateProvision \/ RollbackRemove
             \/ RotateVerify \/ RotateFail \/ RotateOpen \/ RotateRecord
             \/ RotateKeep \/ RotateTimer \/ RotateError
             \/ RollbackUp \/ RotateKilled \/ Up
    <3>1. archive' = archive
      BY <2>7 DEF RotateDown, RotateAbort, RotateUp, RotateProvision, RollbackRemove,
                  RotateVerify, RotateFail, RotateOpen, RotateRecord,
                RotateKeep, RotateTimer, RotateError, RollbackUp, RotateKilled,
                  Up, scriptVars
    <3> QED
      BY <3>1, <2>1
  <2> QED
    BY <2>1, <2>2, <2>3, <2>4, <2>5, <2>6, <2>7, QuietSteps DEF Rotate
<1> QED
    BY <1>1, <1>3, <1>4

(* While the script waits the secrets change by steps of the tool only. *)
LEMMA QuietSecrets ==
    ASSUME DeploymentNext, rot' = rot, rot # "idle"
    PROVE  ProvisionStep \/ UNCHANGED <<secrets, prov>>
<1>1. ~Rotate
    BY DEF Rotate, RotateCheck, RotateDown, RotateMoveState, RotateAbort, RotateUp,
           RotateVerify, RotateFail, RotateOpen, RotateRecord,
                RotateKeep, RotateTimer, RotateError,
           RollbackState, RollbackUp, RotateKilled, RotateProvision, RotateMoveSecrets,
           RollbackRemove, RollbackSecrets
<1>2. ~Provision /\ ~Up
    BY DEF Provision, Up
<1>3. CASE Backup \/ Activate
    BY <1>3 DEF Backup, BackupDump, BackupStore, BackupFails, RestoreTest, Elsewhere,
                Activate, provisionVars
<1> QED
    BY <1>1, <1>2, <1>3 DEF DeploymentNext

(* From the moment the old secrets are in the rollback directory until the *)
(* evidence is written, what is in the live directory was made by the run  *)
(* of this rotation.                                                       *)
LEMMA RotationKept ==
    ASSUME DeploymentTypeOK, ProvisionInv, ScriptInv, RotationInv, DeploymentNext
    PROVE  RotationInv'
<1>0. /\ ProvisionTypeOK /\ prov.run \in Nat
      /\ Dated(secrets, prov.run)' /\ prov'.run \in Nat
      /\ (\A k \in DOMAIN archive :
            archive[k].secrets # None => Dated(archive[k].secrets, prov.run))'
    BY DatedKept, ProvisioningAssumption DEF DeploymentTypeOK, ProvisionTypeOK
<1>1. rot' \notin {"stateMoved", "rotated", "provisioning", "up", "verified", "opened",
                   "recorded", "kept"} => RotationInv'
    BY <1>0 DEF RotationInv
<1>2. CASE rot' = rot /\ archive' = archive /\ rot # "idle"
  <2>1. CASE UNCHANGED <<secrets, prov>>
    BY <1>0, <1>2, <2>1 DEF RotationInv, MadeByRun, Last
  <2>2. CASE ProvisionStep
    <3>1. Running /\ prov'.run = prov.run /\ prov'.pc # "idle"
      BY <1>0, <2>2, RunFacts
    <3>2. rot \notin {"rotated", "up", "verified", "opened", "recorded", "kept"}
      BY <3>1 DEF Running, RotationInv
    <3>3. CASE rot = "provisioning"
      <4>1. MadeByRun
        BY <3>1, <3>3 DEF RotationInv, Running
      <4>2. prov'.pc # "failed" => MadeByRun'
        BY <1>0, <2>2, <4>1, MadeKept
      <4> QED
        BY <1>0, <1>2, <3>1, <3>3, <4>2 DEF RotationInv, Last
    <3>4. CASE rot # "provisioning"
      BY <1>0, <1>2, <3>2, <3>4 DEF RotationInv, Last
    <3> QED
      BY <3>3, <3>4
  <2> QED
    BY <1>2, <2>1, <2>2, QuietSecrets
<1>3. CASE Rotate
  <2>1. CASE RotateCheck \/ RotateDown \/ RotateAbort \/ RotateFail \/ RotateTimer \/ RotateError
             \/ RollbackRemove \/ RollbackState \/ RollbackSecrets \/ RollbackUp \/ RotateKilled
    <3>1. rot' \in {"checked", "down", "idle", "rollback", "removed", "stateBack", "secretsBack"}
      BY <2>1 DEF RotateCheck, RotateDown, RotateAbort, RotateFail, RotateTimer, RotateError,
             RollbackRemove, RollbackState, RollbackSecrets, RollbackUp, RotateKilled
    <3> QED
      BY <3>1, <1>1
  <2>2. CASE RotateMoveState
    <3>1. archive # <<>> /\ database # None /\ database \in Database \cup {None} /\ rot' = "stateMoved"
      BY <2>2 DEF RotateMoveState, ScriptInv, DeploymentTypeOK
    <3>2. archive'[Last'].database # None
      BY <2>2, <3>1, ArchiveDatabase DEF RotateMoveState
    <3> QED
      BY <1>0, <3>1, <3>2 DEF RotationInv
  <2>3. CASE RotateMoveSecrets
    <3>1. archive # <<>> /\ secrets \in Directory /\ rot' = "rotated"
      BY <2>3, <1>0 DEF RotateMoveSecrets, ScriptInv, ProvisionTypeOK
    <3>2. archive'[Last'].database # None /\ archive'[Last'].secrets = secrets
      BY <2>3, <3>1, ArchiveSecrets DEF RotateMoveSecrets, RotationInv
    <3>3. secrets # None
      BY <3>1, NoneAssumption
    <3>4. secrets' = NoSecrets /\ prov'.pc = "idle"
      BY <2>3, <1>0 DEF RotateMoveSecrets, ProvisionTypeOK
    <3> QED
      BY <1>0, <3>1, <3>2, <3>3, <3>4 DEF RotationInv
  <2>4. CASE RotateProvision
    <3>1. /\ secrets' = NoSecrets /\ archive' = archive /\ rot' = "provisioning"
          /\ prov'.pc = "check" /\ prov'.next = 1 /\ prov'.run = prov.run + 1
          /\ archive[Last].database # None /\ archive[Last].secrets # None
      BY <2>4 DEF RotateProvision, StartProvision, RotationInv
    <3>2. Dated(archive[Last].secrets, prov.run)
      <4>1. archive # <<>>
        BY <2>4 DEF RotateProvision, ScriptInv
      <4> QED
        BY <3>1, <4>1, LastFacts DEF RotationInv
    <3>3. prov'.run > 0 /\ prov'.run - 1 = prov.run
      BY <1>0, <3>1
    <3>4. MadeByRun'
      <4>1. ASSUME NEW i \in DOMAIN Order
            PROVE  secrets'[Order[i]].content = Absent /\ ~(i < prov'.next)
        BY <3>1, NoSecretsFacts, NameFacts, OrderFacts
      <4> QED
        BY <3>1, <4>1 DEF MadeByRun
    <3>5. Last' = Last
      BY <3>1 DEF Last
    <3> QED
      BY <1>0, <3>1, <3>2, <3>3, <3>4, <3>5 DEF RotationInv
  <2>5. CASE RotateUp \/ RotateVerify \/ RotateOpen \/ RotateRecord \/ RotateKeep
    <3>1. /\ UNCHANGED <<secrets, prov, archive>>
          /\ rot \in {"provisioning", "up", "verified", "opened", "recorded"}
          /\ rot' \in {"up", "verified", "opened", "recorded", "kept"} /\ prov.pc = "done"
      BY <2>5 DEF RotateUp, RotateVerify, RotateOpen, RotateRecord, RotateKeep, provisionVars,
                  RotationInv
    <3> QED
      BY <1>0, <3>1 DEF RotationInv, MadeByRun, Last
  <2> QED
    BY <1>3, <2>1, <2>2, <2>3, <2>4, <2>5 DEF Rotate
<1>4. CASE rot' = "idle"
    BY <1>1, <1>4
<1>5. ASSUME ~Rotate PROVE rot' = rot /\ archive' = archive
    BY <1>5, QuietSteps DEF Up, scriptVars
<1> QED
    BY <1>2, <1>3, <1>4, <1>5

(* The secrets in a rollback directory were live before; those of a        *)
(* rotation that is over stay.                                             *)
LEMMA ArchiveSteps ==
    ASSUME DeploymentTypeOK, ScriptInv, DeploymentNext
    PROVE  /\ \A k \in DOMAIN archive' :
                 \/ archive'[k].secrets \in {None, secrets}
                 \/ k \in DOMAIN archive /\ archive'[k].secrets = archive[k].secrets
           /\ \A k \in DOMAIN archive :
                 k \in DOMAIN archive' /\ (k # Last => archive'[k] = archive[k])
<1>1. CASE archive' = archive
    BY <1>1
<1>2. CASE RotateCheck
    BY <1>2, ArchiveAppend DEF RotateCheck
<1>3. CASE RotateMoveState
  <2>1. archive # <<>> /\ database \in Database \cup {None}
    BY <1>3 DEF RotateMoveState, ScriptInv, DeploymentTypeOK
  <2> QED
    BY <1>3, <2>1, ArchiveDatabase DEF RotateMoveState
<1>4. CASE RotateMoveSecrets
  <2>1. archive # <<>> /\ secrets \in Directory \cup {None}
    BY <1>4 DEF RotateMoveSecrets, ScriptInv, DeploymentTypeOK, ProvisionTypeOK
  <2> QED
    BY <1>4, <2>1, ArchiveSecrets DEF RotateMoveSecrets
<1>5. CASE RollbackState
  <2>1. archive # <<>>
    BY <1>5 DEF RollbackState, ScriptInv
  <2> QED
    BY <1>1, <1>5, <2>1, ArchiveDatabase DEF RollbackState
<1>6. CASE RollbackSecrets
  <2>1. archive # <<>>
    BY <1>6 DEF RollbackSecrets, ScriptInv
  <2> QED
    BY <1>1, <1>6, <2>1, ArchiveSecrets DEF RollbackSecrets
<1>7. CASE \/ RotateDown \/ RotateAbort \/ RotateUp \/ RotateProvision \/ RollbackRemove
           \/ RotateVerify \/ RotateFail \/ RotateOpen \/ RotateRecord \/ RotateKeep
           \/ RotateTimer \/ RotateError \/ RollbackUp \/ RotateKilled \/ Up
  <2>1. archive' = archive
    BY <1>7 DEF RotateDown, RotateAbort, RotateUp, RotateProvision, RollbackRemove,
                RotateVerify, RotateFail, RotateOpen, RotateRecord, RotateKeep,
                RotateTimer, RotateError, RollbackUp, RotateKilled, Up, scriptVars
  <2> QED
    BY <2>1, <1>1
<1> QED
    BY <1>1, <1>2, <1>3, <1>4, <1>5, <1>6, <1>7, QuietSteps DEF Rotate

(* Between rotations, and when the evidence is written, only a new         *)
(* rotation or the trap moves anything.                                    *)
LEMMA RestingSteps ==
    ASSUME DeploymentNext, rot \in {"idle", "recorded", "kept"}
    PROVE  \/ RotateCheck
           \/ RotateError /\ rot = "recorded"
           \/ rot' \in {"idle", "recorded", "kept"} /\ archive' = archive
<1>1. CASE Rotate
    BY <1>1 DEF Rotate, RotateDown, RotateMoveState, RotateAbort, RotateUp,
           RotateVerify, RotateFail, RotateOpen, RotateRecord, RotateKeep, RotateTimer, RotateError,
           RollbackState, RollbackUp, RotateKilled, RotateProvision, RotateMoveSecrets,
           RollbackRemove, RollbackSecrets
<1>2. CASE ~Rotate
    BY <1>2, QuietSteps DEF Up, scriptVars
<1> QED
    BY <1>1, <1>2

(* What a run writes is of that run, or the password that it found. *)
LEMMA NewValueSince ==
    ASSUME ProvisionTypeOK, ProvisionInv, Running, NEW run \in 1..prov.run, MadeSince(secrets, run)
    PROVE  NewValue \in {Absent, Empty} \cup {i \in Nat : i >= run}
<1>1. prov.run \in Nat /\ prov.run >= run
    BY ProvisioningAssumption DEF ProvisionTypeOK
<1>2. CASE File = "url"
  <2>1. prov.next # 1 /\ prov.next \in 1..Len(Order)
    BY <1>2, OrderFacts, FileFacts DEF File
  <2>2. 1 \in DOMAIN Order /\ 1 < prov.next
    BY <2>1, OrderFacts
  <2>3. Taken(1)
    BY <2>2 DEF ProvisionInv
  <2>4. prov.password = secrets["password"].content
    BY <2>3, OrderFacts DEF Taken
  <2> QED
    BY <1>2, <2>4, OrderFacts DEF NewValue, MadeSince
<1>3. CASE File # "url"
    BY <1>1, <1>3 DEF NewValue
<1> QED
    BY <1>2, <1>3

(* A rotation that is over stays parted from what comes after it: later    *)
(* runs write later values, and a rollback puts back the secrets of a      *)
(* later rotation.                                                         *)
LEMMA PartedKept ==
    ASSUME DeploymentTypeOK, ProvisionInv, ScriptInv, RotationInv, DeploymentNext,
           NEW r \in DOMAIN archive, Parted(r),
           r = Last => rot \in {"idle", "recorded", "kept"},
           archive'[r].secrets = archive[r].secrets
    PROVE  Parted(r)'
<1>0. /\ ProvisionTypeOK /\ prov.run \in Nat /\ prov'.run \in Nat /\ prov.run <= prov'.run
    BY DatedKept, ProvisioningAssumption DEF DeploymentTypeOK, ProvisionTypeOK
<1>1. PICK run \in 1..prov.run :
        /\ Dated(archive[r].secrets, run - 1) /\ MadeSince(secrets, run)
        /\ \A j \in DOMAIN archive :
              j > r /\ archive[j].secrets # None => MadeSince(archive[j].secrets, run)
    BY DEF Parted
<1>2. run \in 1..prov'.run
    BY <1>0
<1>3. MadeSince(secrets', run)
  <2>1. CASE secrets' = secrets
    BY <1>1, <2>1
  <2>2. CASE ProvisionStep
    <3>1. Running /\ File \in Names
      BY <1>0, <2>2, RunFacts, FileFacts
    <3>2. secrets'[File].content \in {Absent, Empty} \cup {i \in Nat : i >= run}
      BY <1>0, <1>1, <2>2, <3>1, FileChange, NewValueSince DEF MadeSince, Content
    <3>3. \A n \in Names : n # File => secrets'[n] = secrets[n]
      BY <1>0, <2>2, FileChange
    <3> QED
      BY <1>1, <3>1, <3>2, <3>3 DEF MadeSince
  <2>3. CASE Emptied
    BY <2>3, NoSecretsFacts DEF Emptied, MadeSince
  <2>4. CASE PutBack
    <3>1. archive # <<>> /\ r # Last
      BY <2>4 DEF PutBack, ScriptInv
    <3>2. Last \in DOMAIN archive /\ Last > r
      BY <3>1, LastFacts
    <3> QED
      BY <1>1, <2>4, <3>2 DEF PutBack
  <2> QED
    BY <2>1, <2>2, <2>3, <2>4, SecretSteps DEF StartProvision
<1>4. ASSUME NEW j \in DOMAIN archive', j > r, archive'[j].secrets # None
      PROVE  MadeSince(archive'[j].secrets, run)
    BY <1>1, <1>4, ArchiveSteps
<1> QED
    BY <1>1, <1>2, <1>3, <1>4 DEF Parted

(* Only a new rotation makes a rollback directory. *)
LEMMA LastSame ==
    ASSUME DeploymentTypeOK, ScriptInv, DeploymentNext, ~RotateCheck
    PROVE  Last' = Last
<1>1. CASE archive' = archive
    BY <1>1 DEF Last
<1>2. CASE RotateMoveState \/ RollbackState
  <2>1. archive # <<>> /\ database \in Database \cup {None}
    BY <1>2 DEF RotateMoveState, RollbackState, ScriptInv, DeploymentTypeOK
  <2> QED
    BY <1>1, <1>2, <2>1, ArchiveDatabase DEF RotateMoveState, RollbackState
<1>3. CASE RotateMoveSecrets \/ RollbackSecrets
  <2>1. archive # <<>> /\ secrets \in Directory \cup {None}
    BY <1>3 DEF RotateMoveSecrets, RollbackSecrets, ScriptInv, DeploymentTypeOK, ProvisionTypeOK
  <2> QED
    BY <1>1, <1>3, <2>1, ArchiveSecrets DEF RotateMoveSecrets, RollbackSecrets
<1>4. CASE \/ RotateDown \/ RotateAbort \/ RotateUp \/ RotateProvision \/ RollbackRemove
           \/ RotateVerify \/ RotateFail \/ RotateOpen \/ RotateRecord \/ RotateKeep
           \/ RotateTimer \/ RotateError \/ RollbackUp \/ RotateKilled \/ Up
  <2>1. archive' = archive
    BY <1>4 DEF RotateDown, RotateAbort, RotateUp, RotateProvision, RollbackRemove,
                RotateVerify, RotateFail, RotateOpen, RotateRecord, RotateKeep,
                RotateTimer, RotateError, RollbackUp, RotateKilled, Up, scriptVars
  <2> QED
    BY <2>1, <1>1
<1> QED
    BY <1>1, <1>2, <1>3, <1>4, QuietSteps DEF Rotate

(* The evidence of a rotation stays true, unless the trap undoes it. *)
LEMMA RotationEvidenceKept ==
    ASSUME DeploymentTypeOK, ProvisionInv, ScriptInv, RotationInv, EvidenceInv, DeploymentNext
    PROVE  EvidenceInv'
<1>1. CASE RotateOpen
    BY <1>1 DEF RotateOpen, EvidenceInv
<1>2. CASE RotateRecord
  <2>1. /\ rotated' = [rotation |-> Last, undone |-> FALSE] /\ rot = "opened" /\ rot' = "recorded"
        /\ UNCHANGED <<secrets, prov, archive>>
    BY <1>2 DEF RotateRecord, provisionVars
  <2>2. archive # <<>> /\ Last' = Last
    BY <2>1 DEF ScriptInv, Last
  <2>3. Last \in DOMAIN archive /\ DOMAIN archive = 1..Last /\ Last \in Nat
    BY <2>2, LastFacts
  <2>4. /\ archive[Last].database # None /\ archive[Last].secrets # None
        /\ prov.run > 0 /\ Dated(archive[Last].secrets, prov.run - 1)
        /\ prov.pc = "done" /\ MadeByRun
    BY <2>1 DEF RotationInv
  <2>5. prov.run \in 1..prov.run /\ prov.run \in Nat
    BY <2>4, ProvisioningAssumption DEF DeploymentTypeOK, ProvisionTypeOK
  <2>6. MadeSince(secrets, prov.run)
    BY <2>4, <2>5, NameFacts DEF MadeByRun, MadeSince
  <2>7. ~(\E j \in DOMAIN archive : j > Last)
    BY <2>3
  <2>8. Parted(Last)
    BY <2>4, <2>5, <2>6, <2>7 DEF Parted
  <2>9. Parted(rotated.rotation)'
    BY <2>1, <2>8 DEF Parted
  <2> QED
    BY <2>1, <2>2, <2>3, <2>4, <2>9 DEF EvidenceInv
<1>3. CASE RotateError /\ rot = "recorded"
  <2>1. /\ rotated' = [rotated EXCEPT !.undone = TRUE] /\ rot' = "rollback" /\ archive' = archive
    BY <1>3 DEF RotateError
  <2>2. rotated \in [rotation : DOMAIN archive, undone : BOOLEAN]
    BY <1>3 DEF EvidenceInv
  <2>3. rotated' \in [rotation : DOMAIN archive, undone : BOOLEAN] /\ rotated'.undone
    BY <2>1, <2>2
  <2> QED
    BY <2>1, <2>3 DEF EvidenceInv
<1>4. CASE /\ rotated' = rotated /\ ~RotateRecord /\ ~(RotateError /\ rot = "recorded")
  <2>1. rot' = "recorded" => (rotated \in [rotation : DOMAIN archive, undone : BOOLEAN])'
    <3>0. CASE rot = "recorded"
      BY <1>4, <3>0, ArchiveSteps DEF EvidenceInv
    <3>1. CASE Rotate
      BY <1>4, <3>1 DEF Rotate, RotateCheck, RotateDown, RotateMoveState, RotateAbort, RotateUp,
             RotateVerify, RotateFail, RotateOpen, RotateKeep, RotateTimer, RotateError,
             RollbackState, RollbackUp, RotateKilled, RotateProvision, RotateMoveSecrets,
             RollbackRemove, RollbackSecrets
    <3>2. CASE ~Rotate
      BY <3>0, <3>2, QuietSteps DEF Up, scriptVars
    <3> QED
      BY <3>1, <3>2
  <2>2. CASE rotated \in {None, Empty}
    BY <1>4, <2>1, <2>2 DEF EvidenceInv
  <2>3. CASE rotated \notin {None, Empty}
    <3>1. rotated \in [rotation : DOMAIN archive, undone : BOOLEAN]
      BY <2>3 DEF EvidenceInv
    <3>2. rotated' \in [rotation : DOMAIN archive', undone : BOOLEAN]
      BY <1>4, <3>1, ArchiveSteps
    <3>3. CASE rotated.undone
      BY <1>4, <2>1, <2>3, <3>2, <3>3 DEF EvidenceInv
    <3>4. ASSUME NEW r, r = rotated.rotation, ~rotated.undone
          PROVE  EvidenceInv'
      <4>1. /\ r \in DOMAIN archive /\ Parted(r) /\ archive[r].database # None
            /\ archive[r].secrets # None /\ (r = Last => rot \in {"idle", "recorded", "kept"})
        BY <2>3, <3>1, <3>4 DEF EvidenceInv
      <4>2. archive # <<>> /\ r \in 1..Last /\ Last \in Nat
        BY <4>1, LastFacts DEF DeploymentTypeOK, Last
      <4>3. /\ archive'[r] = archive[r]
            /\ r = Last' => rot' \in {"idle", "recorded", "kept"}
        <5>1. CASE RotateCheck
          BY <4>1, <4>2, <5>1, ArchiveAppend DEF RotateCheck
        <5>2. CASE ~RotateCheck /\ r = Last
          BY <1>4, <4>1, <5>2, RestingSteps
        <5>3. CASE ~RotateCheck /\ r # Last
          <6>1. archive'[r] = archive[r]
            BY <4>1, <5>3, ArchiveSteps
          <6>2. Last' = Last
            BY <5>3, LastSame
          <6> QED
            BY <5>3, <6>1, <6>2
        <5> QED
          BY <5>1, <5>2, <5>3
      <4>4. Parted(r)'
        BY <4>1, <4>3, PartedKept
      <4>5. r = rotated'.rotation
        BY <1>4, <3>4
      <4>6. Parted(rotated.rotation)'
        BY <4>4, <4>5 DEF Parted
      <4> QED
        BY <1>4, <2>1, <2>3, <3>2, <4>1, <4>3, <4>5, <4>6 DEF EvidenceInv
    <3> QED
      BY <3>1, <3>3, <3>4
  <2> QED
    BY <2>2, <2>3
<1>5. rotated' = rotated \/ RotateOpen \/ RotateRecord \/ (RotateError /\ rot = "recorded")
  <2>1. CASE Rotate
    BY <2>1 DEF Rotate, RotateCheck, RotateDown, RotateMoveState, RotateAbort, RotateUp,
           RotateVerify, RotateFail, RotateKeep, RotateTimer, RotateError, RollbackState, RollbackUp,
           RotateKilled, RotateProvision, RotateMoveSecrets, RollbackRemove, RollbackSecrets, Outside
  <2>2. CASE ~Rotate
    BY <2>2 DEF DeploymentNext, Provision, Up, Backup, BackupDump, BackupStore, BackupFails,
           RestoreTest, Elsewhere, Activate, scriptVars
  <2> QED
    BY <2>1, <2>2
<1> QED
    BY <1>1, <1>2, <1>3, <1>4, <1>5

-----------------------------------------------------------------------------
(* Activations. *)

(* Where a step that commits nothing takes the databases from and to. *)
Moves ==
    /\ \/ database' \in {None, database}
       \/ database'.commands = {}
       \/ \E k \in DOMAIN archive : database' = archive[k].database
    /\ \A k \in DOMAIN archive' :
          \/ archive'[k].database \in {None, database}
          \/ k \in DOMAIN archive /\ archive'[k].database = archive[k].database
    /\ \/ database = None \/ database' = database
       \/ \E k \in DOMAIN archive' : archive'[k].database = database
       \/ \A c \in database.commands : c.newborn
    /\ \A k \in DOMAIN archive :
          \/ archive[k].database \in {None, database'}
          \/ k \in DOMAIN archive' /\ archive'[k].database = archive[k].database
    /\ rot = "idle" /\ database # None => database' = database
    /\ rot = "idle" /\ rot' # "idle" => database # None /\ database.commands = {}

(* A database is only ever moved, but for one that a rotation has made.    *)
LEMMA ScriptMoves ==
    ASSUME DeploymentTypeOK, ScriptInv, Up \/ Rotate
    PROVE  Moves /\ activations' = activations
<1>2. activations' = activations
  <2>1. CASE Up
    BY <2>1 DEF Up
  <2>2. CASE Rotate
    BY <2>2 DEF Rotate, RotateCheck, RotateDown, RotateMoveState, RotateAbort, RotateUp,
           RotateVerify, RotateFail, RotateOpen, RotateRecord,
                RotateKeep, RotateTimer, RotateError, RollbackState, RollbackUp, RotateKilled,
           RotateProvision, RotateMoveSecrets, RollbackRemove, RollbackSecrets, Outside, Others
  <2> QED
    BY <2>1, <2>2
<1>3. ASSUME ComposeUp, archive' = archive, rot # "idle" \/ rot' = rot PROVE Moves
  <2>1. /\ database # None => database' = database
        /\ database = None /\ database' # None => database'.commands = {}
    BY <1>3, ComposeFacts
  <2> QED
    BY <1>3, <2>1 DEF Moves
<1>4. CASE Up
    BY <1>2, <1>3, <1>4 DEF Up, scriptVars
<1>5. CASE RotateCheck
  <2>1. database # None /\ database.commands = {} /\ database' = database
    BY <1>5 DEF RotateCheck, DeploymentTypeOK
  <2>2. /\ \A k \in DOMAIN archive' : archive'[k].database = None
                \/ (k \in DOMAIN archive /\ archive'[k].database = archive[k].database)
        /\ \A k \in DOMAIN archive : k \in DOMAIN archive' /\ archive'[k].database = archive[k].database
    BY <1>5, ArchiveAppend DEF RotateCheck
  <2> QED
    BY <1>2, <2>1, <2>2 DEF Moves
<1>6. CASE RotateMoveState
  <2>1. /\ archive # <<>> /\ database \in Database \cup {None} /\ archive[Last].database = None
        /\ archive' = [archive EXCEPT ![Last].database = database] /\ database' = None /\ rot = "down"
    BY <1>6 DEF RotateMoveState, ScriptInv, DeploymentTypeOK
  <2>2. /\ DOMAIN archive' = DOMAIN archive /\ Last \in DOMAIN archive
        /\ \A k \in DOMAIN archive : k # Last => archive'[k] = archive[k]
        /\ archive'[Last].database = database
    BY <2>1, ArchiveDatabase, LastFacts
  <2> QED
    BY <1>2, <2>1, <2>2 DEF Moves
<1>7. CASE RotateMoveSecrets
  <2>1. /\ archive # <<>> /\ secrets \in Directory \cup {None} /\ rot = "stateMoved"
        /\ archive' = [archive EXCEPT ![Last].secrets = secrets] /\ database' = database
    BY <1>7 DEF RotateMoveSecrets, ScriptInv, DeploymentTypeOK, ProvisionTypeOK
  <2>2. /\ DOMAIN archive' = DOMAIN archive
        /\ \A k \in DOMAIN archive : archive'[k].database = archive[k].database
    BY <2>1, ArchiveSecrets
  <2> QED
    BY <1>2, <2>1, <2>2 DEF Moves
<1>8. CASE RollbackSecrets
  <2>1. archive # <<>> /\ rot = "stateBack" /\ database' = database
    BY <1>8 DEF RollbackSecrets, ScriptInv
  <2>2. /\ DOMAIN archive' = DOMAIN archive
        /\ \A k \in DOMAIN archive : archive'[k].database = archive[k].database
    BY <1>8, <2>1, ArchiveSecrets DEF RollbackSecrets
  <2> QED
    BY <1>2, <2>1, <2>2 DEF Moves
<1>9. CASE RollbackRemove
    BY <1>2, <1>9 DEF RollbackRemove, ScriptInv, Moves
<1>10. CASE RollbackState
  <2>1. archive # <<>> /\ rot = "removed" /\ database = None
    BY <1>10 DEF RollbackState, ScriptInv
  <2>2. CASE UNCHANGED <<database, archive>>
    BY <1>2, <2>1, <2>2 DEF Moves
  <2>3. CASE /\ archive[Last].database # None /\ database' = archive[Last].database
             /\ archive' = [archive EXCEPT ![Last].database = None]
    <3>1. /\ DOMAIN archive' = DOMAIN archive /\ Last \in DOMAIN archive
          /\ \A k \in DOMAIN archive : k # Last => archive'[k] = archive[k]
          /\ archive'[Last].database = None
      BY <2>1, <2>3, ArchiveDatabase, LastFacts
    <3> QED
      BY <1>2, <2>1, <2>3, <3>1 DEF Moves
  <2> QED
    BY <1>10, <2>2, <2>3 DEF RollbackState
<1>11. CASE RotateUp
    BY <1>2, <1>3, <1>11 DEF RotateUp
<1>12. CASE RollbackUp
  <2>1. archive' = archive /\ rot # "idle" /\ rot' = "idle"
        /\ (ComposeUp \/ UNCHANGED <<service, database, databases>>)
    BY <1>12 DEF RollbackUp
  <2> QED
    BY <1>2, <1>3, <2>1 DEF Moves
<1>13. CASE \/ RotateDown \/ RotateAbort \/ RotateProvision \/ RotateVerify \/ RotateFail
            \/ RotateOpen \/ RotateRecord
             \/ RotateKeep \/ RotateTimer \/ RotateError \/ RotateKilled
  <2>1. UNCHANGED <<database, archive>> /\ rot # "idle"
    BY <1>13 DEF RotateDown, RotateAbort, RotateProvision, RotateVerify, RotateFail, RotateOpen,
                 RotateRecord, RotateKeep, RotateTimer, RotateError, RotateKilled
  <2> QED
    BY <1>2, <2>1 DEF Moves
<1> QED
    BY <1>4, <1>5, <1>6, <1>7, <1>8, <1>9, <1>10, <1>11, <1>12, <1>13 DEF Rotate

Commits ==
    \E m \in wire : /\ ServerActivate(m, rot # "idle", NewDatabaseUp)
                    /\ UNCHANGED <<databases, rot, archive, timer>>

LEMMA DatabaseMoves ==
    ASSUME DeploymentTypeOK, ScriptInv, DeploymentNext
    PROVE  (Moves /\ activations' = activations) \/ Commits
<1>1. CASE Up \/ Rotate
    BY <1>1, ScriptMoves
<1>2. ASSUME ~Commits, ~(Up \/ Rotate)
      PROVE  Moves /\ activations' = activations
  <2>1. UNCHANGED <<database, rot, archive>>
    BY <1>2, QuietSteps DEF Commits
  <2>2. activations' = activations
    <3>1. CASE Activate
      <4>1. UNCHANGED <<databases, rot, archive, timer>>
        BY <3>1 DEF Activate, scriptVars
      <4>2. ~\E m \in wire : ServerActivate(m, rot # "idle", NewDatabaseUp)
        BY <1>2, <4>1 DEF Commits
      <4> QED
        BY <3>1, <4>2
        DEF Activate, ClientStep, PrepareActivation, Age, SubmitActivation, CreateEvidence,
            WriteEvidence, ClientStops, LoseRequest, ServerReplay, ServerRefuse
    <3> QED
      BY <3>1, ClientSteps
  <2> QED
    BY <2>1, <2>2 DEF Moves
<1> QED
    BY <1>1, <1>2

(* An unraced activation keeps every later rotation from starting, and so  *)
(* stays in the live database.                                             *)
LEMMA CommitKept ==
    ASSUME DeploymentTypeOK, ScriptInv, CommitInv, DeploymentNext
    PROVE  CommitInv'
<1>1. CASE Moves /\ activations' = activations
  <2>1. Committed(database)'
    <3>1. ASSUME NEW S, S = {} PROVE IsFiniteSet(S)
      BY <3>1, FS_EmptySet
    <3>2. CASE database' \in {None, database} \/ \E k \in DOMAIN archive : database' = archive[k].database
      BY <1>1, <3>2 DEF CommitInv, Committed
    <3>3. CASE database'.commands = {}
      BY <3>1, <3>3 DEF Committed
    <3> QED
      BY <1>1, <3>2, <3>3 DEF Moves
  <2>2. ASSUME NEW k \in DOMAIN archive' PROVE Committed(archive[k].database)'
    BY <1>1 DEF Moves, CommitInv, Committed
  <2>3. rot' # "idle" => \A c \in activations : c.raced
    BY <1>1 DEF Moves, CommitInv
  <2>4. \A c \in activations : ~c.raced => database' # None /\ c \in database'.commands
    BY <1>1 DEF Moves, CommitInv
  <2> QED
    BY <1>1, <2>1, <2>2, <2>3, <2>4 DEF CommitInv
<1>2. CASE Commits
  <2>1. PICK m \in wire : /\ ServerActivate(m, rot # "idle", NewDatabaseUp)
                          /\ UNCHANGED <<databases, rot, archive, timer>>
    BY <1>2 DEF Commits
  <2>2. PICK c \in Command :
            /\ c.raced = (rot # "idle") /\ database.commands = {} /\ database' \in Database
            /\ database'.commands = {c} /\ activations' = activations \cup {c}
    BY <2>1, CommitFacts
  <2>3. database' # None
    BY <2>2, NoneAssumption
  <2>4. Committed(database)' /\ \A k \in DOMAIN archive' : Committed(archive[k].database)'
    <3>1. ASSUME NEW d, NEW S, S = {d} PROVE IsFiniteSet(S)
      BY <3>1, FS_Singleton
    <3>2. IsFiniteSet(database'.commands)
      BY <2>2, <3>1
    <3> QED
      BY <2>1, <2>2, <3>2 DEF CommitInv, Committed
  <2>5. rot' # "idle" => \A d \in activations' : d.raced
    BY <2>1, <2>2 DEF CommitInv
  <2>6. \A d \in activations' : ~d.raced => database' # None /\ d \in database'.commands
    BY <2>2, <2>3 DEF CommitInv
  <2> QED
    BY <2>4, <2>5, <2>6 DEF CommitInv
<1> QED
    BY <1>1, <1>2, DatabaseMoves

(* A command is kept if it is in the live database or in one that a        *)
(* rotation has put aside.                                                 *)
HasCommand(db, c) == db # None /\ c \in db.commands

LEMMA KeptForm ==
    \A c : c \in KeptActivations <=>
        \/ HasCommand(database, c)
        \/ \E k \in DOMAIN archive : HasCommand(archive[k].database, c)
    BY Zenon DEF KeptActivations, Kept, HasCommand

LEMMA KeptFormNext ==
    \A c : c \in KeptActivations' <=>
        \/ HasCommand(database', c)
        \/ \E k \in DOMAIN archive' : HasCommand(archive'[k].database, c)
    BY Zenon DEF KeptActivations, Kept, HasCommand

LEMMA ActivationsKept ==
    ASSUME DeploymentTypeOK, ScriptInv, ActivationSurvives, DeploymentNext
    PROVE  ActivationSurvives'
<1>1. CASE Moves /\ activations' = activations
  <2> SUFFICES ASSUME NEW c \in activations, ~c.newborn
               PROVE  c \in KeptActivations'
    BY <1>1 DEF ActivationSurvives
  <2>1. \/ HasCommand(database, c)
        \/ \E k \in DOMAIN archive : HasCommand(archive[k].database, c)
    BY KeptForm DEF ActivationSurvives
  <2>2. CASE HasCommand(database, c)
    BY <1>1, <2>2, KeptFormNext DEF Moves, HasCommand
  <2>3. ASSUME NEW k \in DOMAIN archive, HasCommand(archive[k].database, c)
        PROVE  c \in KeptActivations'
    <3>1. \/ archive[k].database = database'
          \/ k \in DOMAIN archive' /\ archive'[k].database = archive[k].database
      BY <1>1, <2>3 DEF Moves, HasCommand
    <3> QED
      BY <2>3, <3>1, KeptFormNext
  <2> QED
    BY <2>1, <2>2, <2>3
<1>2. CASE Commits
  <2>1. PICK m \in wire : /\ ServerActivate(m, rot # "idle", NewDatabaseUp)
                          /\ UNCHANGED <<databases, rot, archive, timer>>
    BY <1>2 DEF Commits
  <2>2. PICK c \in Command :
            /\ database.commands = {} /\ database' \in Database
            /\ database'.commands = {c} /\ activations' = activations \cup {c}
    BY <2>1, CommitFacts
  <2>3. HasCommand(database', c)
    BY <2>2, NoneAssumption DEF HasCommand
  <2>4. ASSUME NEW d \in activations, ~d.newborn PROVE d \in KeptActivations'
    <3>1. \E k \in DOMAIN archive : HasCommand(archive[k].database, d)
      BY <2>2, <2>4, KeptForm DEF ActivationSurvives, HasCommand
    <3> QED
      BY <2>1, <3>1, KeptFormNext
  <2> QED
    BY <2>2, <2>3, <2>4, KeptFormNext DEF ActivationSurvives
<1> QED
    BY <1>1, <1>2, DatabaseMoves

-----------------------------------------------------------------------------
(* The client and its evidence. *)

LEMMA ClientKept ==
    ASSUME DeploymentTypeOK, CommitInv, ClientInv, DeploymentNext
    PROVE  ClientInv'
<1>0. ClientTypeOK
    BY DEF DeploymentTypeOK
<1>1. CASE UNCHANGED <<prepared, client, wire, evidence, activations>>
    BY <1>1 DEF ClientInv
<1>2. ASSUME NEW d \in Drafts, PrepareActivation(d) PROVE ClientInv'
  <2>1. \A k \in DOMAIN prepared : k \in DOMAIN prepared' /\ prepared'[k] = prepared[k]
    <3> DEFINE R == [draft : Drafts, fresh : BOOLEAN]
               r == [draft |-> d, fresh |-> TRUE]
    <3>1. prepared \in Seq(R) /\ prepared' = Append(prepared, r)
      BY <1>0, <1>2 DEF ClientTypeOK, PrepareActivation
    <3> HIDE DEF R, r
    <3> QED
      BY <3>1
  <2> QED
    BY <1>2, <2>1 DEF PrepareActivation, ClientInv
<1>3. ASSUME NEW k \in DOMAIN prepared, Age(k) PROVE ClientInv'
  <2>1. \A i \in DOMAIN prepared : i \in DOMAIN prepared' /\ prepared'[i].draft = prepared[i].draft
    <3> DEFINE r == [prepared[k] EXCEPT !.fresh = FALSE]
    <3>1. r.draft = prepared[k].draft
      BY <1>0, PreparedFacts
    <3>2. prepared' = [prepared EXCEPT ![k] = r]
      BY <1>3 DEF Age
    <3> HIDE DEF r
    <3> QED
      BY <3>1, <3>2
  <2> QED
    BY <1>3, <2>1 DEF Age, ClientInv
<1>4. ASSUME NEW k \in DOMAIN prepared, NEW p \in EvidencePaths, SubmitActivation(k, p)
      PROVE  ClientInv'
  <2>1. client.submits \in Nat /\ client'.submits = client.submits + 1 /\ client'.nonce = k
        /\ client'.pc = "posted"
    BY <1>0, <1>4, ActivationAssumption DEF SubmitActivation, ClientTypeOK
  <2>2. ASSUME NEW m \in wire'
        PROVE  /\ m.submit <= client'.submits
               /\ m.submit = client'.submits => m.nonce = client'.nonce
    <3>1. CASE m \in wire
      <4>1. m.submit <= client.submits /\ m.submit \in Nat
        BY <1>0, <3>1, ActivationAssumption DEF ClientInv, ClientTypeOK
      <4> QED
        BY <2>1, <4>1
    <3>2. CASE m \notin wire
      <4>1. m.submit = client.submits + 1 /\ m.nonce = k
        BY <1>4, <3>2 DEF SubmitActivation
      <4> QED
        BY <2>1, <4>1
    <3> QED
      BY <3>1, <3>2
  <2> QED
    BY <1>4, <2>1, <2>2 DEF SubmitActivation, ClientInv
<1>5. CASE CreateEvidence
  <2>1. /\ client.pc = "answered" /\ client'.pc = "created" /\ client'.nonce = client.nonce
        /\ client'.submits = client.submits /\ UNCHANGED <<prepared, wire, activations>>
    BY <1>0, <1>5 DEF CreateEvidence, ClientTypeOK
  <2>2. \A p \in EvidencePaths : evidence'[p] \in {Empty, evidence[p]}
    BY <1>0, <1>5 DEF CreateEvidence, ClientTypeOK
  <2> QED
    BY <2>1, <2>2 DEF ClientInv
<1>6. CASE WriteEvidence
  <2>1. /\ client.pc = "created" /\ client'.pc = "idle" /\ client'.submits = client.submits
        /\ UNCHANGED <<prepared, wire, activations>>
    BY <1>0, <1>6 DEF WriteEvidence, Idle, ClientTypeOK
  <2>2. PICK c \in activations : c.nonce = client.nonce
    BY <2>1 DEF ClientInv
  <2>3. c.draft = prepared[client.nonce].draft
    BY <2>2 DEF ClientInv
  <2>4. ASSUME NEW p \in EvidencePaths, evidence'[p] \notin {Absent, Empty}
        PROVE  \E a \in activations : /\ a.nonce = evidence'[p].nonce
                                      /\ a.draft = evidence'[p].draft
    <3>1. CASE p = client.path
      <4>1. evidence'[p] = [nonce |-> client.nonce, draft |-> prepared[client.nonce].draft]
        BY <1>0, <1>6, <3>1 DEF WriteEvidence, ClientTypeOK
      <4> QED
        BY <2>2, <2>3, <4>1
    <3>2. CASE p # client.path
      <4>1. evidence'[p] = evidence[p]
        BY <1>0, <1>6, <3>2 DEF WriteEvidence, ClientTypeOK
      <4> QED
        BY <2>4, <4>1 DEF ClientInv
    <3> QED
      BY <3>1, <3>2
  <2> QED
    BY <2>1, <2>4 DEF ClientInv
<1>7. CASE ClientStops
  <2>1. /\ client'.pc = "idle" /\ client'.submits = client.submits
        /\ UNCHANGED <<prepared, wire, evidence, activations>>
    BY <1>7 DEF ClientStops, Idle
  <2> QED
    BY <2>1 DEF ClientInv
<1>8. ASSUME NEW m \in wire, LoseRequest(m) \/ ServerRefuse(m) PROVE ClientInv'
  <2>1. wire' \subseteq wire /\ UNCHANGED <<prepared, client, evidence, activations>>
    BY <1>8 DEF LoseRequest, ServerRefuse
  <2> QED
    BY <2>1 DEF ClientInv
<1>9. ASSUME NEW m \in wire, Answer(m), wire' = wire \ {m}, UNCHANGED <<prepared, evidence>>,
             activations \subseteq activations',
             \A a \in activations' : a.nonce \in DOMAIN prepared /\ a.draft = prepared[a.nonce].draft,
             NEW c \in activations', c.nonce = m.nonce
      PROVE  ClientInv'
  <2>1. /\ client'.submits = client.submits /\ client'.nonce = client.nonce
        /\ client'.pc # "idle" => client.pc # "idle"
        /\ client'.pc \in {"answered", "created"} =>
              \/ client.pc \in {"answered", "created"}
              \/ client.pc = "posted" /\ client.submits = m.submit
    BY <1>0, <1>9 DEF Answer, ClientTypeOK
  <2>2. client.pc = "posted" /\ client.submits = m.submit => c.nonce = client.nonce
    BY <1>9 DEF ClientInv
  <2>3. client'.pc \in {"answered", "created"} => \E a \in activations' : a.nonce = client'.nonce
    BY <1>9, <2>1, <2>2 DEF ClientInv
  <2>4. \A p \in EvidencePaths : evidence'[p] \notin {Absent, Empty} =>
          \E a \in activations' : a.nonce = evidence'[p].nonce /\ a.draft = evidence'[p].draft
    BY <1>9 DEF ClientInv
  <2>5. \A n \in wire' : /\ n.submit <= client'.submits
                         /\ client'.pc # "idle" /\ n.submit = client'.submits =>
                               n.nonce = client'.nonce
    BY <1>9, <2>1 DEF ClientInv
  <2> QED
    BY <1>9, <2>3, <2>4, <2>5 DEF ClientInv
<1>10. ASSUME NEW m \in wire, ServerReplay(m) PROVE ClientInv'
  <2>1. PICK c \in database.commands : c.nonce = m.nonce
    BY <1>10 DEF ServerReplay, Known
  <2>2. service # None
    BY <1>10 DEF ServerReplay, Authorized
  <2>3. database # None
    BY <2>2 DEF DeploymentTypeOK
  <2>4. c \in activations
    BY <2>1, <2>3 DEF CommitInv, Committed
  <2>5. Answer(m) /\ wire' = wire \ {m} /\ UNCHANGED <<prepared, evidence, activations>>
    BY <1>10 DEF ServerReplay
  <2> QED
    BY <1>9, <2>1, <2>4, <2>5 DEF ClientInv
<1>11. ASSUME NEW m \in wire, ServerActivate(m, rot # "idle", NewDatabaseUp) PROVE ClientInv'
  <2>1. PICK c \in Command : /\ c.nonce = m.nonce /\ c.draft = prepared[m.nonce].draft
                             /\ m.nonce \in DOMAIN prepared
                             /\ activations' = activations \cup {c}
    BY <1>11, CommitFacts
  <2>2. Answer(m) /\ wire' = wire \ {m} /\ UNCHANGED <<prepared, evidence>>
    BY <1>11 DEF ServerActivate
  <2>3. \A a \in activations' : a.nonce \in DOMAIN prepared /\ a.draft = prepared[a.nonce].draft
    BY <2>1 DEF ClientInv
  <2> QED
    BY <1>9, <2>1, <2>2, <2>3
<1> QED
    BY <1>1, <1>2, <1>3, <1>4, <1>5, <1>6, <1>7, <1>8, <1>10, <1>11, ClientSteps
    DEF Activate, ClientStep

-----------------------------------------------------------------------------
(* The backup. *)

(* Rollback directories are only added, by a rotation that begins. *)
LEMMA ArchiveGrows ==
    ASSUME DeploymentTypeOK, ScriptInv, DeploymentNext
    PROVE  /\ Len(archive) \in Nat /\ Len(archive') \in Nat /\ Len(archive) <= Len(archive')
           /\ rot = "idle" /\ rot' # "idle" => Len(archive') = Len(archive) + 1
<1>0. Len(archive) \in Nat
    BY DEF DeploymentTypeOK
<1>1. CASE archive' = archive /\ (rot # "idle" \/ rot' = rot)
    BY <1>0, <1>1
<1>2. CASE RotateCheck
    BY <1>0, <1>2, ArchiveAppend DEF RotateCheck
<1>3. CASE RotateMoveState
    BY <1>0, <1>3, ArchiveDatabase DEF RotateMoveState, ScriptInv, DeploymentTypeOK
<1>4. CASE RotateMoveSecrets
    BY <1>0, <1>4, ArchiveSecrets DEF RotateMoveSecrets, ScriptInv, DeploymentTypeOK, ProvisionTypeOK
<1>5. CASE RollbackState
    BY <1>0, <1>5, ArchiveDatabase DEF RollbackState, ScriptInv
<1>6. CASE RollbackSecrets
    BY <1>0, <1>6, ArchiveSecrets DEF RollbackSecrets, ScriptInv
<1>7. CASE \/ RotateDown \/ RotateAbort \/ RotateUp \/ RotateProvision \/ RollbackRemove
           \/ RotateVerify \/ RotateFail \/ RotateOpen \/ RotateRecord
             \/ RotateKeep \/ RotateTimer \/ RotateError
           \/ RollbackUp \/ RotateKilled \/ Up
  <2>1. archive' = archive /\ (rot # "idle" \/ rot' = rot)
    BY <1>7 DEF RotateDown, RotateAbort, RotateUp, RotateProvision, RollbackRemove,
                RotateVerify, RotateFail, RotateOpen, RotateRecord,
                RotateKeep, RotateTimer, RotateError, RollbackUp, RotateKilled,
                Up, scriptVars
  <2> QED
    BY <1>1, <2>1
<1>8. CASE ~Up /\ ~Rotate
    BY <1>1, <1>8, QuietSteps
<1> QED
    BY <1>2, <1>3, <1>4, <1>5, <1>6, <1>7, <1>8 DEF Rotate

(* A dump that was taken from the database and has as many commands as it  *)
(* has now is equal to it, because the command table only grows: the       *)
(* counts are enough to compare.                                           *)
LEMMA CountsTell ==
    ASSUME NEW T, IsFiniteSet(T), NEW S, S \subseteq T, Cardinality(S) = Cardinality(T)
    PROVE  S = T
<1>1. S \in SUBSET T
    OBVIOUS
<1> QED
    BY <1>1, FS_Subset

BackupTypeOK ==
    /\ backup \in [pc : {"idle", "dumped"}, dump : (SUBSET Command) \cup {None},
                   rotations : 0..MaxRotations \cup {None}]
    /\ snapshot \in Snapshot \cup {None}
    /\ restored # None => snapshot # None

LEMMA BackupKept ==
    ASSUME DeploymentTypeOK, ScriptInv, CommitInv, BackupInv, DeploymentNext
    PROVE  BackupInv' /\ BackupTypeOK'
<1>0. /\ BackupTypeOK /\ Len(archive) \in Nat /\ Len(archive) <= MaxRotations
      /\ MaxRotations \in Nat
    BY DeploymentAssumption DEF DeploymentTypeOK, BackupTypeOK
<1>1. CASE UNCHANGED <<backup, snapshot, restored>>
  <2>1. backup.rotations # None => backup.rotations \in Nat /\ backup.rotations <= Len(archive)
    BY <1>0 DEF BackupTypeOK, BackupInv
  <2>2. Len(archive') \in Nat /\ Len(archive) <= Len(archive')
    BY ArchiveGrows
  <2>3. backup'.rotations # None => backup'.rotations <= Len(archive')
    BY <1>0, <1>1, <2>1, <2>2
  <2>4. ASSUME backup'.pc = "dumped", backup'.rotations = Len(archive')
        PROVE  rot' = "idle" /\ database' # None /\ backup'.dump \subseteq database'.commands
    <3>1. backup.rotations \in Nat /\ backup.rotations = Len(archive) /\ Len(archive') = Len(archive)
      BY <1>0, <1>1, <2>1, <2>2, <2>4, NoneAssumption
    <3>2. rot = "idle" /\ database # None /\ backup.dump \subseteq database.commands
      BY <1>1, <2>4, <3>1 DEF BackupInv
    <3>3. rot' = "idle"
      BY <1>0, <3>1, <3>2, ArchiveGrows
    <3>4. CASE Moves
      BY <1>1, <3>2, <3>3, <3>4 DEF Moves
    <3>5. CASE Commits
      <4>1. PICK m \in wire : /\ ServerActivate(m, rot # "idle", NewDatabaseUp)
                              /\ UNCHANGED <<databases, rot, archive, timer>>
        BY <3>5 DEF Commits
      <4>2. database.commands = {} /\ database' \in Database
        BY <4>1, CommitFacts
      <4> QED
        BY <1>1, <3>2, <3>3, <4>2, NoneAssumption
    <3> QED
      BY <3>4, <3>5, DatabaseMoves
  <2>5. BackupTypeOK'
    BY <1>0, <1>1 DEF BackupTypeOK
  <2> QED
    BY <1>1, <2>3, <2>4, <2>5 DEF BackupInv, RestorePassedIsSound
<1>2. CASE BackupDump
  <2>1. /\ UNCHANGED <<snapshot, restored, rot, archive, database>>
        /\ service # None
        /\ backup' = [pc |-> "dumped", dump |-> database.commands,
                      rotations |-> IF rot = "idle" THEN Len(archive) ELSE None]
    BY <1>2 DEF BackupDump, Elsewhere, activationVars, scriptVars
  <2>2. database # None /\ database \in Database
    BY <2>1 DEF DeploymentTypeOK
  <2>3. database.commands \in SUBSET Command
    BY <2>2 DEF Database
  <2>4. BackupTypeOK'
    BY <1>0, <2>1, <2>3 DEF BackupTypeOK
  <2>5. /\ backup'.pc = "dumped" /\ backup'.dump = database.commands
        /\ backup'.rotations = IF rot = "idle" THEN Len(archive) ELSE None
    BY <2>1
  <2>6. IsFiniteSet(database.commands)
    BY <2>2 DEF CommitInv, Committed
  <2> QED
    BY <1>0, <2>1, <2>2, <2>3, <2>4, <2>5, <2>6, NoneAssumption DEF BackupInv, RestorePassedIsSound
<1>3. CASE BackupStore
  <2>1. /\ UNCHANGED <<restored, rot, archive, database>>
        /\ backup.pc = "dumped" /\ service # None
        /\ snapshot' = [dumped |-> Cardinality(backup.dump),
                        counted |-> Cardinality(database.commands), sound |-> Sound]
        /\ backup' = NoBackup
    BY <1>3 DEF BackupStore, Elsewhere, activationVars, scriptVars
  <2>2. /\ backup'.pc = "idle" /\ backup'.rotations = None
        /\ backup' \in [pc : {"idle", "dumped"}, dump : (SUBSET Command) \cup {None},
                        rotations : 0..MaxRotations \cup {None}]
    BY <2>1 DEF NoBackup
  <2>3. ASSUME Cardinality(backup.dump) = Cardinality(database.commands) PROVE Sound
    <3> SUFFICES ASSUME rot = "idle", backup.rotations = Len(archive)
                 PROVE  backup.dump = database.commands
      BY DEF Sound
    <3>1. backup.dump \subseteq database.commands /\ database # None
      BY <2>1 DEF BackupInv
    <3>2. IsFiniteSet(database.commands)
      BY <3>1 DEF CommitInv, Committed
    <3> QED
      BY <2>3, <3>1, <3>2, CountsTell
  <2>4. snapshot'.dumped = snapshot'.counted => snapshot'.sound
    <3>1. /\ snapshot'.dumped = Cardinality(backup.dump)
          /\ snapshot'.counted = Cardinality(database.commands) /\ snapshot'.sound = Sound
      BY <2>1
    <3> QED
      BY <2>3, <3>1
  <2>5. snapshot' \in Snapshot
    <3>1. Cardinality(backup.dump) \in Nat
      BY <2>1, FS_CardinalityType DEF BackupInv
    <3>2. Cardinality(database.commands) \in Nat
      <4>1. database # None
        BY <2>1 DEF DeploymentTypeOK
      <4>2. IsFiniteSet(database.commands)
        BY <4>1 DEF CommitInv, Committed
      <4> QED
        BY <4>2, FS_CardinalityType
    <3>3. Sound \in BOOLEAN
      BY DEF Sound
    <3> QED
      BY <2>1, <3>1, <3>2, <3>3 DEF Snapshot
  <2>6. snapshot' # None
    BY <2>5, NoneAssumption
  <2> QED
    BY <2>1, <2>2, <2>4, <2>5, <2>6 DEF BackupInv, BackupTypeOK, RestorePassedIsSound
<1>4. CASE BackupFails
  <2>1. /\ UNCHANGED <<snapshot, restored, rot, archive, database>> /\ backup' = NoBackup
    BY <1>4 DEF BackupFails, Elsewhere, activationVars, scriptVars
  <2>2. /\ backup'.pc = "idle" /\ backup'.rotations = None
        /\ backup' \in [pc : {"idle", "dumped"}, dump : (SUBSET Command) \cup {None},
                        rotations : 0..MaxRotations \cup {None}]
    BY <2>1 DEF NoBackup
  <2> QED
    BY <1>0, <2>1, <2>2 DEF BackupInv, BackupTypeOK, RestorePassedIsSound
<1>5. CASE RestoreTest
  <2>1. /\ UNCHANGED <<backup, snapshot, rot, archive, database>>
        /\ snapshot # None /\ snapshot.dumped = snapshot.counted /\ restored' = snapshot.sound
    BY <1>5 DEF RestoreTest, Elsewhere, activationVars, scriptVars
  <2>2. restored'
    BY <2>1 DEF BackupInv
  <2> QED
    BY <1>0, <2>1, <2>2 DEF BackupInv, BackupTypeOK, RestorePassedIsSound
<1> QED
    BY <1>1, <1>2, <1>3, <1>4, <1>5, BackupSteps DEF Backup

-----------------------------------------------------------------------------
(* The theorems. *)

(* The operator's files are of the kinds that the tool knows. *)
LEMMA OperatorFacts ==
    ASSUME NEW d \in OperatorFiles
    PROVE  d \in Directory /\ Dated(d, 0)
<1>1. CASE d = NoSecrets
    BY <1>1, NoSecretsFacts DEF Dated
<1>2. ASSUME NEW f \in Found, d = [NoSecrets EXCEPT ![f[1]].content = f[2]]
      PROVE  d \in Directory /\ Dated(d, 0)
  <2>1. f[1] \in Names /\ f[2] \in {0, Empty, Short}
    BY SecretsAssumption
  <2>2. f[2] \in Contents
    BY <2>1, ProvisioningAssumption DEF Contents
  <2>3. d \in Directory
    BY <1>2, <2>1, <2>2, NoSecretsFacts DEF Directory
  <2>4. \A n \in Names : d[n].content \in {Absent, f[2]}
    BY <1>2, <2>1, NoSecretsFacts DEF Directory
  <2> QED
    BY <2>1, <2>3, <2>4 DEF Dated
<1> QED
    BY <1>1, <1>2 DEF OperatorFiles

LEMMA HostInit ==
    ASSUME DeploymentInit
    PROVE  HostInv
<1>1. secrets \in Directory /\ Dated(secrets, 0)
    BY OperatorFacts DEF DeploymentInit, ProvisionInit
<1>2. prov = [pc |-> "idle", next |-> 1, run |-> 0, password |-> Absent]
    BY DEF DeploymentInit, ProvisionInit
<1>3. ProvisionTypeOK
    BY <1>1, <1>2, OrderFacts, ProvisioningAssumption DEF ProvisionTypeOK, Contents
<1>4. ClientTypeOK
  <2>1. /\ prepared = <<>> /\ wire = {} /\ activations = {} /\ client = Idle(0)
        /\ evidence = [p \in EvidencePaths |-> Absent]
    BY DEF DeploymentInit, ClientInit
  <2>2. prepared \in Seq([draft : Drafts, fresh : BOOLEAN]) /\ Len(prepared) = 0
    BY <2>1
  <2>3. client \in [pc : {"idle", "posted", "answered", "created"},
                    nonce : 1..MaxPrepared \cup {None},
                    path : EvidencePaths \cup {None}, submits : 0..MaxSubmits]
        /\ client.pc = "idle"
    BY <2>1, ActivationAssumption DEF Idle
  <2>4. evidence \in [EvidencePaths -> Evidence \cup {Absent, Empty}]
    BY <2>1
  <2>5. Len(prepared) <= MaxPrepared
    BY <2>2, ActivationAssumption
  <2> QED
    BY <2>1, <2>2, <2>3, <2>4, <2>5 DEF ClientTypeOK
<1>5. /\ service = None /\ database = None /\ databases = 0
      /\ rot = "idle" /\ archive = <<>> /\ rotated = None /\ timer = TRUE
      /\ backup = NoBackup /\ snapshot = None /\ restored = None
      /\ activations = {} /\ wire = {} /\ client.pc = "idle"
      /\ evidence = [p \in EvidencePaths |-> Absent]
    BY DEF DeploymentInit, ClientInit, Idle
<1>6. StateTypeOK /\ IdsOK
  <2>1. archive \in Seq(Archived) /\ Len(archive) = 0 /\ DOMAIN archive = {}
    BY <1>5
  <2> QED
    BY <1>5, <2>1, DeploymentAssumption DEF StateTypeOK, IdsOK, RotationSteps
<1>7. BackupTypeOK /\ backup.pc = "idle" /\ backup.rotations = None
    BY <1>5 DEF BackupTypeOK, NoBackup
<1>8. DeploymentTypeOK
    BY <1>3, <1>4, <1>6, <1>7, TypeParts DEF BackupTypeOK
<1>9. ProvisionInv
    BY <1>2 DEF ProvisionInv, Running
<1>10. ScriptInv
    BY <1>5 DEF ScriptInv
<1>11. RotationInv
    BY <1>1, <1>2, <1>5 DEF RotationInv
<1>12. CommitInv /\ ActivationSurvives /\ EvidenceInv
    BY <1>5 DEF CommitInv, Committed, ActivationSurvives, EvidenceInv
<1>13. ClientInv
    BY <1>5 DEF ClientInv
<1>14. BackupInv
    BY <1>5, <1>7 DEF BackupInv, RestorePassedIsSound
<1> QED
    BY <1>8, <1>9, <1>10, <1>11, <1>12, <1>13, <1>14 DEF HostInv

LEMMA HostStep ==
    ASSUME HostInv, [DeploymentNext]_deploymentVars
    PROVE  HostInv'
<1>1. CASE DeploymentNext
  <2>0. /\ DeploymentTypeOK /\ ProvisionInv /\ ScriptInv
        /\ RotationInv /\ EvidenceInv
        /\ CommitInv /\ ActivationSurvives /\ ClientInv /\ BackupInv
    BY DEF HostInv
  <2>1. ProvisionTypeOK' /\ ProvisionInv'
    BY <1>1, <2>0, SecretsKept
  <2>2. ClientTypeOK'
    BY <1>1, <2>0, ClientTypeKept
  <2>3. StateTypeOK' /\ IdsOK'
    BY <1>1, <2>0, StateTypeKept
  <2>4. BackupInv' /\ BackupTypeOK'
    BY <1>1, <2>0, BackupKept
  <2>5. DeploymentTypeOK'
    BY <2>1, <2>2, <2>3, <2>4, TypePartsNext DEF BackupTypeOK
  <2>6. ScriptInv' /\ RotationInv' /\ EvidenceInv'
    BY <1>1, <2>0, ScriptKept, RotationKept, RotationEvidenceKept
  <2>7. CommitInv' /\ ActivationSurvives' /\ ClientInv'
    BY <1>1, <2>0, CommitKept, ActivationsKept, ClientKept
  <2> QED
    BY <2>1, <2>4, <2>5, <2>6, <2>7 DEF HostInv
<1>2. CASE UNCHANGED deploymentVars
  <2>1. /\ UNCHANGED <<secrets, prov, service, database, databases, prepared, client, wire>>
        /\ UNCHANGED <<evidence, activations, rot, archive, rotated, timer>>
        /\ UNCHANGED <<backup, snapshot, restored>>
    BY <1>2 DEF deploymentVars, provisionVars, activationVars, clientVars, scriptVars, backupVars
  <2>2. DeploymentTypeOK'
    BY <2>1 DEF HostInv, DeploymentTypeOK, ProvisionTypeOK, ClientTypeOK, Kept
  <2>3. ProvisionInv' /\ ScriptInv'
    BY <2>1 DEF HostInv, ProvisionInv, Running, Content, NewValue, File, Taken, ScriptInv, Last
  <2>4. RotationInv' /\ EvidenceInv'
    BY <2>1 DEF HostInv, RotationInv, MadeByRun, Last, EvidenceInv, Parted
  <2>5. CommitInv' /\ ActivationSurvives'
    BY <2>1 DEF HostInv, CommitInv, Committed, ActivationSurvives, KeptActivations, Kept
  <2>6. ClientInv' /\ BackupInv'
    BY <2>1 DEF HostInv, ClientInv, BackupInv, RestorePassedIsSound
  <2> QED
    BY <2>2, <2>3, <2>4, <2>5, <2>6 DEF HostInv
<1> QED
    BY <1>1, <1>2

(* The inductive invariant of the host: every reachable state of the       *)
(* scripts of src/deploy, provision.py and activation.py satisfies it.     *)
THEOREM HostInvariant == DeploymentSpec => []HostInv
<1>1. DeploymentInit => HostInv
    BY HostInit
<1>2. HostInv /\ [DeploymentNext]_deploymentVars => HostInv'
    BY HostStep
<1> QED
    BY <1>1, <1>2, PTL DEF DeploymentSpec

(* The secret directory, the client's files, the service, its databases    *)
(* and the files of the scripts are well-formed after every step.          *)
THEOREM DeploymentTypeCorrect == DeploymentSpec => []DeploymentTypeOK
<1>1. HostInv => DeploymentTypeOK
    BY DEF HostInv
<1> QED
    BY <1>1, HostInvariant, PTL

(* provision of provision.py reports success only when main.py can read    *)
(* every secret and connect, whatever files it found and however often it  *)
(* was killed, for any number of files and runs and through any rotation.  *)
THEOREM ProvisioningIsSound == DeploymentSpec => []ProvisionedIsUsable
<1>1. HostInv => ProvisionedIsUsable
  <2> SUFFICES ASSUME HostInv, prov.pc = "done"
               PROVE  /\ Readable(secrets)
                      /\ secrets["url"].content = secrets["password"].content
                      /\ secrets["password"].owned
    BY DEF ProvisionedIsUsable
  <2>1. \A i \in DOMAIN Order : Taken(i)
    BY DEF HostInv, ProvisionInv
  <2>2. Taken(1) /\ Taken(2)
    BY <2>1, OrderFacts
  <2>3. /\ secrets["password"].owned /\ secrets["password"].content = prov.password
        /\ secrets["url"].content = prov.password
    BY <2>2, OrderFacts DEF Taken
  <2>4. ASSUME NEW n \in Names \ {"password"}
        PROVE  /\ secrets[n].owned /\ secrets[n].content \notin {Absent, Empty}
               /\ n = "url" \/ secrets[n].content # Short
    <3>1. PICK i \in DOMAIN Order : n = Order[i]
      BY NameFacts
    <3> QED
      BY <2>1, <3>1 DEF Taken
  <2> QED
    BY <2>3, <2>4 DEF Readable
<1> QED
    BY <1>1, HostInvariant, PTL

(* What latest-rotation.json of kyn-rotate-preactivation says stays true   *)
(* for any number of later deployments and rotations: the state and the    *)
(* secrets from before are in the rollback directory and none of their     *)
(* values is live again, unless a failing chmod made the trap undo the     *)
(* rotation after the file was written.                                    *)
THEOREM RotationEvidenceHolds == DeploymentSpec => []RotationEvidenceIsTrue
<1>1. HostInv => RotationEvidenceIsTrue
  <2> SUFFICES ASSUME HostInv, rotated \notin {None, Empty}, ~rotated.undone
               PROVE  LET before == archive[rotated.rotation]
                      IN  /\ before.database # None /\ before.secrets # None
                          /\ \A n \in Names :
                                /\ secrets[n].content # before.secrets[n].content
                                   \/ secrets[n].content \in {Absent, Empty}
                                /\ rot \in {"recorded", "kept"} =>
                                      secrets[n].content \notin {Absent, Empty, Short}
    BY DEF RotationEvidenceIsTrue
  <2> DEFINE before == archive[rotated.rotation]
  <2>1. before.database # None /\ before.secrets # None /\ Parted(rotated.rotation)
    BY DEF HostInv, EvidenceInv
  <2>2. PICK run \in 1..prov.run : Dated(before.secrets, run - 1) /\ MadeSince(secrets, run)
    BY <2>1 DEF Parted
  <2>3. prov.run \in Nat
    BY ProvisioningAssumption DEF HostInv, DeploymentTypeOK, ProvisionTypeOK
  <2>4. ASSUME NEW n \in Names
        PROVE  \/ secrets[n].content # before.secrets[n].content
               \/ secrets[n].content \in {Absent, Empty}
    <3>1. /\ before.secrets[n].content \in {Absent, Empty, Short} \cup 0..run - 1
          /\ secrets[n].content \in {Absent, Empty} \cup {i \in Nat : i >= run}
      BY <2>2 DEF Dated, MadeSince
    <3> QED
      BY <2>2, <2>3, <3>1, ProvisioningAssumption
  <2>5. ASSUME NEW n \in Names, rot \in {"recorded", "kept"}
        PROVE  secrets[n].content \notin {Absent, Empty, Short}
    <3>1. prov.pc = "done" /\ MadeByRun
      BY <2>5 DEF HostInv, RotationInv
    <3>2. secrets[n].content = prov.run
      BY <3>1, NameFacts DEF MadeByRun
    <3> QED
      BY <2>3, <3>2, ProvisioningAssumption
  <2> QED
    BY <2>1, <2>4, <2>5
<1> QED
    BY <1>1, HostInvariant, PTL

(* No script loses an activation, except one that commits to the database  *)
(* of a rotation that then fails.                                          *)
THEOREM NoActivationIsLost == DeploymentSpec => []ActivationSurvives
<1>1. HostInv => ActivationSurvives
    BY DEF HostInv
<1> QED
    BY <1>1, HostInvariant, PTL

(* The evidence file of submit_prepared_activation tells of an activation  *)
(* that was committed for its request, and is in the live database unless  *)
(* a rotation ran when it committed.                                       *)
THEOREM EvidenceHolds == DeploymentSpec => []EvidenceStaysTrue
<1>1. HostInv => EvidenceStaysTrue
    BY DEF HostInv, ClientInv, CommitInv, EvidenceStaysTrue
<1> QED
    BY <1>1, HostInvariant, PTL

(* Comparing counts, as kyn-restore-latest does, is enough: a restore test *)
(* passes only on a snapshot with the commands that the database had,      *)
(* because the command table only grows between the dump and the count.    *)
THEOREM RestoreTestIsSound == DeploymentSpec => []RestorePassedIsSound
<1>1. HostInv => RestorePassedIsSound
    BY DEF HostInv, BackupInv
<1> QED
    BY <1>1, HostInvariant, PTL
=============================================================================
