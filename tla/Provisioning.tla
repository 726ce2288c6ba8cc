---------------------------- MODULE Provisioning ----------------------------
(***************************************************************************)
(* kyn-provision-secrets (src/src/kyn/provision.py): it creates the files  *)
(* of the secret directory one after the other, each at most once, and     *)
(* verifies the ones it finds.  A run may be killed between any two of     *)
(* its system calls and be started again.                                  *)
(*                                                                         *)
(* Data.  The content of a file is the number of the run that made its     *)
(* value, 0 if the operator put a good value there; the database URL is    *)
(* the content of the password that it names.  A file the operator made    *)
(* may be Empty or Short, which is what the length checks tell apart.      *)
(* Owner and mode are one flag.  Two runs at once are left out.            *)
(***************************************************************************)
EXTENDS Integers, Sequences, FiniteSets

CONSTANTS
    Plain,                 \* the names of the three secrets of one kind, in order
    Absent, Empty, Short,
    Found,                 \* the <<name, content>> of files the operator may have made
    MaxRuns                \* bound on the runs of the tool

ASSUME ProvisioningAssumption ==
    /\ MaxRuns \in Nat
    /\ {Absent, Empty, Short} \cap Nat = {}

VARIABLES
    secrets,   \* the live secret directory
    prov       \* the latest run of the tool

provisionVars == <<secrets, prov>>

(* The order in which provision takes the files. *)
Order == <<"password", "url", "seed">> \o Plain
Names == {Order[i] : i \in DOMAIN Order}

(* Each file has a name of its own; the operator made files of the kinds   *)
(* above.                                                                  *)
ASSUME SecretsAssumption ==
    /\ Plain \in Seq(STRING)
    /\ \A i, j \in DOMAIN Order : Order[i] = Order[j] => i = j
    /\ Found \subseteq Names \X {0, Empty, Short}

Contents == {Absent, Empty, Short} \cup 0..MaxRuns
Directory == [Names -> [content : Contents, owned : BOOLEAN]]
NoSecrets == [n \in Names |-> [content |-> Absent, owned |-> FALSE]]

(* The directory is new, or the operator has put one file there. *)
OperatorFiles ==
    {NoSecrets} \cup {[NoSecrets EXCEPT ![f[1]].content = f[2]] : f \in Found}

-----------------------------------------------------------------------------
Running == prov.pc \in {"check", "created", "written"}
File == Order[prov.next]
Content == secrets[File].content

(* What the run writes to a file that it creates. *)
NewValue == IF File = "url" THEN prov.password ELSE prov.run

(* The checks that provision makes after each _write_once. *)
Accepted(name, content) ==
    CASE name = "password" -> TRUE
      [] name = "url"      -> content = prov.password
      [] OTHER             -> content # Short

(* The run goes on after _write_once has returned content. *)
Returned(content) ==
    IF ~Accepted(File, content) THEN [prov EXCEPT !.pc = "failed"]
    ELSE [prov EXCEPT !.pc = IF prov.next = Len(Order) THEN "done" ELSE "check",
                      !.next = IF prov.next = Len(Order) THEN @ ELSE @ + 1,
                      !.password = IF File = "password" THEN content ELSE @]

ProvisionInit ==
    /\ secrets \in OperatorFiles
    /\ prov = [pc |-> "idle", next |-> 1, run |-> 0, password |-> Absent]

StartProvision ==
    /\ ~Running /\ prov.run < MaxRuns
    /\ prov' = [pc |-> "check", next |-> 1, run |-> prov.run + 1, password |-> Absent]
    /\ UNCHANGED secrets

(* Mutant: owner and mode are set only on a file that the run creates. *)
KeepAsFound ==
    /\ prov.pc = "check" /\ Content \notin {Absent, Empty}
    /\ prov' = Returned(Content)
    /\ UNCHANGED secrets

(* _write_once finds a file with content: it repairs owner and mode. *)
KeepSecret ==
    /\ prov.pc = "check" /\ Content \notin {Absent, Empty}
    /\ secrets' = [secrets EXCEPT ![File].owned = TRUE]
    /\ prov' = Returned(Content)

(* _write_once raises: existing secret is empty *)
RefuseEmpty ==
    /\ prov.pc = "check" /\ Content = Empty
    /\ prov' = [prov EXCEPT !.pc = "failed"]
    /\ UNCHANGED secrets

(* _write_once creates the file, ... *)
CreateSecret ==
    /\ prov.pc = "check" /\ Content = Absent
    /\ secrets' = [secrets EXCEPT ![File] = [content |-> Empty, owned |-> FALSE]]
    /\ prov' = [prov EXCEPT !.pc = "created"]

(* ... writes the value, ... *)
WriteSecret ==
    /\ prov.pc = "created"
    /\ secrets' = [secrets EXCEPT ![File].content = NewValue]
    /\ prov' = [prov EXCEPT !.pc = "written"]

(* ... and sets owner and mode. *)
OwnSecret ==
    /\ prov.pc = "written"
    /\ secrets' = [secrets EXCEPT ![File].owned = TRUE]
    /\ prov' = Returned(NewValue)

CrashProvision ==
    /\ Running
    /\ prov' = [prov EXCEPT !.pc = "failed"]
    /\ UNCHANGED secrets

ProvisionStep ==
    \/ KeepSecret \/ RefuseEmpty
    \/ CreateSecret \/ WriteSecret \/ OwnSecret
    \/ CrashProvision

-----------------------------------------------------------------------------
(* read_secret_file on each secret, as main.py does when the service       *)
(* starts; a URL is long enough whatever password it names.                *)
Readable(directory) ==
    \A n \in Names \ {"password"} :
        /\ directory[n].owned
        /\ directory[n].content \notin {Absent, Empty}
        /\ n = "url" \/ directory[n].content # Short

ProvisionTypeOK ==
    /\ secrets \in Directory
    /\ prov \in [pc : {"idle", "check", "created", "written", "failed", "done"},
                 next : DOMAIN Order, run : 0..MaxRuns, password : Contents]

(* When the tool reports success, on whatever files it met and however     *)
(* often it was killed before, the service can read each of its secrets    *)
(* and its URL names the password of PostgreSQL.                           *)
ProvisionedIsUsable ==
    prov.pc = "done" =>
        /\ Readable(secrets)
        /\ secrets["url"].content = secrets["password"].content
        /\ secrets["password"].owned
=============================================================================
