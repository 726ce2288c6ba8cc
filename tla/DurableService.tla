--------------------------- MODULE DurableService ---------------------------
(***************************************************************************)
(* How the HTTP service runs one signed command against PostgreSQL:        *)
(* api.py (key lookup, proof), auth.py (command identifier), and           *)
(* DurableTrustService.execute in persistence.py (replay check, row lock,  *)
(* transition, commit).  Deliveries interleave at every database round     *)
(* trip, under READ COMMITTED; the process may crash between any two.      *)
(*                                                                         *)
(* A message is the content of a signed request; the client may deliver it *)
(* any number of times, concurrently.  What the transition does to the     *)
(* core is Authority, Assurance and Identity; here it appends the command  *)
(* to the history of the snapshot, changes key bindings for the operations *)
(* that do, or refuses with a TrustCoreError.  A signature is the key that *)
(* made it.                                                                *)
(*                                                                         *)
(* Faults are crashes of the service, which lose answers.  That PostgreSQL *)
(* commits and the acknowledgement of the COMMIT is lost, which the        *)
(* service reports as an error, is not modelled.                           *)
(***************************************************************************)
EXTENDS Integers, Sequences, FiniteSets

CONSTANTS
    Deliveries,  \* deliveries of requests
    Actors,      \* subjects that sign
    Keys,        \* participant keys
    Nonces,
    None,
    Messages,    \* the signed requests that clients send
    MaxCrashes   \* bound: crashes of the service

(* A body is the operation with its payload: enrolment of a subject under  *)
(* a key, a request to recover it with another key, the approval that      *)
(* binds that key, a deletion that unbinds the subject, or anything else.  *)
Operation == {"enroll", "request", "rebind", "delete", "act"}
Body == [op : Operation, subject : Actors, key : Keys]
Message == [actor : Actors, key : Keys, nonce : Nonces, body : Body]

ASSUME MessagesAssumption == Messages \subseteq Message
ASSUME CrashesAssumption == MaxCrashes \in Nat

VARIABLES
    row,       \* the kyn_state row, None before the first commit
    commands,  \* kyn_commands, by command_id
    lock,      \* the delivery whose transaction holds the row lock
    pc,        \* where each delivery is
    msg,       \* the message of each delivery
    read,      \* the row that the delivery's transaction read
    answer,    \* the HTTP answer of each delivery
    crashes

durableVars == <<row, commands, lock, pc, msg, read, answer, crashes>>

CommandId == Keys \X Nonces
Command == [id : CommandId, input : Body]

(* KynStateModel: the snapshot is the history that made it and the key     *)
(* bindings in it.                                                         *)
StateRow == [version : Nat, history : Seq(Command),
             keys : [Actors -> Keys \cup {None}]]

ASSUME NoneAssumption ==
    None \notin StateRow /\ None \notin Keys /\ None \notin Deliveries

(* authorize_participant_action: command_id = hash(participant_key|nonce) *)
IdOf(m) == <<m.key, m.nonce>>
CommandOf(m) == [id |-> IdOf(m), input |-> m.body]

(* core_factory(), and restore_snapshot when there is a row *)
Restored(r) ==
    IF r = None
    THEN [version |-> 0, history |-> <<>>, keys |-> [a \in Actors |-> None]]
    ELSE r

NoAnswer == [status |-> "none", receipt |-> 0]
Answer(status) == [status |-> status, receipt |-> 0]

-----------------------------------------------------------------------------

DurableInit ==
    /\ row = None /\ commands = <<>> /\ lock = None /\ crashes = 0
    /\ pc = [d \in Deliveries |-> "idle"]
    /\ msg = [d \in Deliveries |-> None]
    /\ read = [d \in Deliveries |-> None]
    /\ answer = [d \in Deliveries |-> NoAnswer]

(* A client sends, or sends again, a message. *)
Send(d, m) ==
    /\ pc[d] = "idle"
    /\ pc' = [pc EXCEPT ![d] = "received"]
    /\ msg' = [msg EXCEPT ![d] = m]
    /\ UNCHANGED <<row, commands, lock, read, answer, crashes>>

(* Mutant: the transaction is left open and keeps its lock. *)
FinishHoldingLock(d, a) ==
    /\ pc' = [pc EXCEPT ![d] = "done"]
    /\ answer' = [answer EXCEPT ![d] = a]
    /\ UNCHANGED <<row, commands, lock, msg, read, crashes>>

(* The request ends with this answer; an open transaction rolls back and   *)
(* releases its lock.                                                      *)
Finish(d, a) ==
    /\ pc' = [pc EXCEPT ![d] = "done"]
    /\ answer' = [answer EXCEPT ![d] = a]
    /\ lock' = IF lock = d THEN None ELSE lock
    /\ UNCHANGED <<row, commands, msg, read, crashes>>

(* The operations whose payload names the key that signs it: one that is   *)
(* not bound to anybody yet.                                               *)
NamesOwnKey == {"enroll", "request"}

(* The key that the proof is verified with: the payload's for an enrolment *)
(* and for a recovery request, else the one bound to the actor in the      *)
(* committed state that load_core reads, outside the transaction.          *)
ExpectedKey(m) ==
    IF m.body.op \in NamesOwnKey THEN m.body.key ELSE Restored(row).keys[m.actor]

(* Mutant: the proof is verified with the key that the request names. *)
AuthorizeAnyKey(d) ==
    /\ pc[d] = "received"
    /\ IF ExpectedKey(msg[d]) = None
       THEN Finish(d, Answer("refused"))
       ELSE /\ pc' = [pc EXCEPT ![d] = "authorized"]
            /\ UNCHANGED <<row, commands, lock, msg, read, answer, crashes>>

(* load_core and _authorize.  An unknown or deleted actor is refused; a    *)
(* proof that is stale or made with another key is unauthorized.           *)
Authorize(d) ==
    /\ pc[d] = "received"
    /\ \/ /\ ExpectedKey(msg[d]) = None
          /\ Finish(d, Answer("refused"))
       \/ /\ ExpectedKey(msg[d]) # None
          /\ Finish(d, Answer("unauthorized"))
       \/ /\ ExpectedKey(msg[d]) = msg[d].key
          /\ pc' = [pc EXCEPT ![d] = "authorized"]
          /\ UNCHANGED <<row, commands, lock, msg, read, answer, crashes>>

(* Mutant: a replay reports the latest receipt. *)
CheckCommandLatest(d) ==
    LET id == IdOf(msg[d])
    IN  /\ pc[d] = "authorized"
        /\ IF id \in DOMAIN commands
           THEN Finish(d, IF commands[id].input = msg[d].body
                          THEN [status |-> "ok", receipt |-> row.version]
                          ELSE Answer("conflict"))
           ELSE /\ pc' = [pc EXCEPT ![d] = "checked"]
                /\ UNCHANGED <<row, commands, lock, msg, read, answer, crashes>>

(* execute: begin, and look for the command's row *)
CheckCommand(d) ==
    LET id == IdOf(msg[d])
    IN  /\ pc[d] = "authorized"
        /\ IF id \in DOMAIN commands
           THEN Finish(d, IF commands[id].input = msg[d].body
                          THEN [status |-> "ok", receipt |-> commands[id].receipt]
                          ELSE Answer("conflict"))
           ELSE /\ pc' = [pc EXCEPT ![d] = "checked"]
                /\ UNCHANGED <<row, commands, lock, msg, read, answer, crashes>>

(* Mutant: a plain SELECT. *)
ReadState(d) ==
    /\ pc[d] = "checked"
    /\ pc' = [pc EXCEPT ![d] = "locked"]
    /\ read' = [read EXCEPT ![d] = row]
    /\ UNCHANGED <<row, commands, lock, msg, answer, crashes>>

(* SELECT ... FOR UPDATE: waits for the lock if there is a row, and reads  *)
(* its latest committed version; without a row there is nothing to lock.   *)
LockState(d) ==
    /\ pc[d] = "checked"
    /\ lock = None
    /\ pc' = [pc EXCEPT ![d] = "locked"]
    /\ read' = [read EXCEPT ![d] = row]
    /\ lock' = IF row = None THEN None ELSE d
    /\ UNCHANGED <<row, commands, msg, answer, crashes>>

HasEnrolled(core, s) ==
    \E n \in 1..Len(core.history) : /\ core.history[n].input.op = "enroll"
                                    /\ core.history[n].input.subject = s

(* transition(core): a key already enrolled is refused as a new one, a     *)
(* deleted subject cannot ask for recovery, and approval and deletion need *)
(* a subject.  What else a handler refuses is Identity's.                  *)
Accepts(core, b) ==
    /\ b.op \in NamesOwnKey => \A a \in Actors : core.keys[a] # b.key
    /\ b.op = "enroll" => ~HasEnrolled(core, b.subject)
    /\ b.op = "request" => core.keys[b.subject] # None
    /\ b.op \in {"rebind", "delete"} => HasEnrolled(core, b.subject)

(* The key bindings after the transition. *)
BoundKeys(core, b) ==
    CASE b.op \in {"enroll", "rebind"} -> [core.keys EXCEPT ![b.subject] = b.key]
      [] b.op = "delete" -> [core.keys EXCEPT ![b.subject] = None]
      [] OTHER -> core.keys

(* Mutant: the snapshot leaves the key bindings out. *)
AppliedWithoutKeys(core, m) ==
    [version |-> core.version + 1,
     history |-> Append(core.history, CommandOf(m)),
     keys |-> <<>>]

(* Mutant: the version stays behind. *)
AppliedSameVersion(core, m) ==
    [version |-> core.version,
     history |-> Append(core.history, CommandOf(m)),
     keys |-> BoundKeys(core, m.body)]

Applied(core, m) ==
    [version |-> core.version + 1,
     history |-> Append(core.history, CommandOf(m)),
     keys |-> BoundKeys(core, m.body)]

(* Mutant: command_id is not a primary key. *)
InsertableTwice(d) == read[d] = None => row = None

(* The primary keys of the two tables: a second first row or a second row  *)
(* for a command is an IntegrityError.                                     *)
Insertable(d) ==
    /\ read[d] = None => row = None
    /\ IdOf(msg[d]) \notin DOMAIN commands

(* The new snapshot and the command's row commit together. *)
Commit(d) ==
    LET new == Applied(Restored(read[d]), msg[d])
        id == IdOf(msg[d])
    IN  /\ pc[d] = "locked"
        /\ Accepts(Restored(read[d]), msg[d].body)
        /\ Insertable(d)
        /\ row' = new
        /\ commands' = [i \in DOMAIN commands \cup {id} |->
               IF i = id THEN [input |-> msg[d].body, receipt |-> new.version]
               ELSE commands[i]]
        /\ lock' = IF lock = d THEN None ELSE lock
        /\ pc' = [pc EXCEPT ![d] = "committed"]
        /\ UNCHANGED <<msg, read, answer, crashes>>

(* A TrustCoreError or an IntegrityError rolls the transaction back. *)
Refuse(d) == pc[d] = "locked" /\ Finish(d, Answer("refused"))
IntegrityError(d) ==
    /\ pc[d] = "locked"
    /\ Accepts(Restored(read[d]), msg[d].body)
    /\ ~Insertable(d)
    /\ Finish(d, Answer("error"))

(* Mutant: building the response fails after the commit. *)
RespondWithError(d) == pc[d] = "committed" /\ Finish(d, Answer("error"))

(* The response after the commit *)
Respond(d) ==
    /\ pc[d] = "committed"
    /\ Finish(d, [status |-> "ok", receipt |-> commands[IdOf(msg[d])].receipt])

(* The service dies: clients of the requests in flight get no answer and   *)
(* the database rolls their transactions back.                             *)
InFlight(d) == pc[d] \notin {"idle", "done"}

Crash ==
    /\ crashes < MaxCrashes
    /\ crashes' = crashes + 1
    /\ lock' = None
    /\ pc' = [d \in Deliveries |-> IF InFlight(d) THEN "done" ELSE pc[d]]
    /\ answer' = [d \in Deliveries |-> IF InFlight(d) THEN Answer("lost") ELSE answer[d]]
    /\ UNCHANGED <<row, commands, msg, read>>

(* What the event loop and the database do for one delivery. *)
Progress(d) ==
    \/ Authorize(d) \/ CheckCommand(d) \/ LockState(d)
    \/ Commit(d) \/ Refuse(d) \/ IntegrityError(d) \/ Respond(d)

DurableNext ==
    \/ \E d \in Deliveries, m \in Messages : Send(d, m)
    \/ \E d \in Deliveries : Progress(d)
    \/ Crash

DurableSafety == DurableInit /\ [][DurableNext]_durableVars

DurableSpec == DurableSafety /\ \A d \in Deliveries : WF_durableVars(Progress(d))

-----------------------------------------------------------------------------
(* Properties. *)

(* Type invariant. *)
DurableTypeOK ==
    /\ row \in StateRow \cup {None}
    /\ DOMAIN commands \subseteq CommandId
    /\ \A id \in DOMAIN commands : commands[id] \in [input : Body, receipt : Nat]
    /\ lock \in Deliveries \cup {None}
    /\ pc \in [Deliveries -> {"idle", "received", "authorized", "checked",
                              "locked", "committed", "done"}]
    /\ msg \in [Deliveries -> Messages \cup {None}]
    /\ read \in [Deliveries -> StateRow \cup {None}]
    /\ answer \in [Deliveries ->
          [status : {"none", "ok", "refused", "unauthorized", "conflict",
                     "error", "lost"}, receipt : Nat]]
    /\ crashes \in 0..MaxCrashes

History == Restored(row).history

(* The snapshot and the command table never part, whatever interleaves or  *)
(* crashes: the version counts the commands in the snapshot, every command *)
(* row names its place there and every command there has its row.          *)
SnapshotMatchesCommands ==
    /\ Restored(row).version = Len(History)
    /\ \A n \in 1..Len(History) :
          /\ History[n].id \in DOMAIN commands
          /\ commands[History[n].id] = [input |-> History[n].input, receipt |-> n]
    /\ \A id \in DOMAIN commands : \E n \in 1..Len(History) : History[n].id = id

(* A client that was only ever told of failures can rely on them: a        *)
(* command that took effect was reported, is about to be, or had its       *)
(* answer lost.  A refusal, a conflict or an error never hides an effect.  *)
FailureMeansNoEffect ==
    \A n \in 1..Len(History) : \E d \in Deliveries :
        /\ pc[d] # "idle" /\ CommandOf(msg[d]) = History[n]
        /\ pc[d] = "committed" \/ answer[d].status \in {"ok", "lost"}

Successes ==
    {[command |-> CommandOf(msg[d]), receipt |-> answer[d].receipt] :
        d \in {e \in Deliveries : answer[e].status = "ok"}}

Promise == INSTANCE CommandLog
    WITH Ids <- CommandId, Inputs <- Body, log <- History, answered <- Successes

(* The service implements the command log: effects are serial, no update   *)
(* is lost, no command takes effect twice, and every success of a command  *)
(* carries its one receipt.                                                *)
ImplementsCommandLog == Promise!LogSpec

(* No command takes effect twice, however its deliveries race or follow a  *)
(* crash between the commit and the answer.                                *)
EffectsOnce == Promise!AtMostOnce

(* All successes reported for a command carry the same receipt, that of    *)
(* its effect: the promise that makes retrying an unanswered command safe. *)
OneReceiptPerCommand == Promise!OneAnswerPerCommand

(* No command takes effect under a stranger's key.  An enrolment and a     *)
(* recovery request are signed with the new key that their own payload     *)
(* names; every other command with a key that an earlier enrolment or      *)
(* approved recovery of the history bound.  The key is looked up before    *)
(* the transaction and is not compared again under the lock, so it may     *)
(* have been replaced or deleted meanwhile, but it was bound once.         *)
EffectsUnderKnownKey ==
    \A n \in 1..Len(History) :
        \/ /\ History[n].input.op \in NamesOwnKey
           /\ History[n].input.key = History[n].id[1]
        \/ /\ History[n].input.op \notin NamesOwnKey
           /\ \E k \in 1..n - 1 : /\ History[k].input.op \in {"enroll", "rebind"}
                                  /\ History[k].input.key = History[n].id[1]

(* Every request ends, with an answer or by a crash: no transaction waits  *)
(* for the row lock for ever.                                              *)
RequestsEnd == \A d \in Deliveries : pc[d] = "received" ~> pc[d] = "done"

-----------------------------------------------------------------------------
(* What the documentation says and the code does not do. *)

(* "An exact retry returns the stored result": a request that has passed   *)
(* authentication is not failed once its command has taken effect.  A      *)
(* retry that looks for the command's row before the first delivery        *)
(* commits gets an error or a refusal.                                     *)
ExactRetryReplays ==
    [][\A d \in Deliveries :
          /\ pc[d] \in {"authorized", "checked", "locked"} /\ pc'[d] = "done"
          /\ \E n \in 1..Len(History) : History[n] = CommandOf(msg[d])
          => answer'[d].status \in {"ok", "lost"}]_durableVars

=============================================================================
