---------------------------- MODULE DurableProofs ----------------------------
(***************************************************************************)
(* Proofs about DurableService, for any deliveries, messages, actors and   *)
(* keys and any number of crashes.                                         *)
(***************************************************************************)
EXTENDS DurableService, TLAPS

(* A transaction that read a row still holds the lock on it, and nobody    *)
(* has written since.                                                      *)
LockDiscipline ==
    \A d \in Deliveries : pc[d] = "locked" /\ read[d] # None =>
        lock = d /\ row = read[d]

(* A committed command is in the history until its answer is sent; only a  *)
(* finished request has an answer; a success names its place in the        *)
(* history.                                                                *)
AnswersTrue ==
    /\ \A d \in Deliveries : pc[d] # "idle" => msg[d] \in Messages
    /\ \A d \in Deliveries : pc[d] # "done" => answer[d] = NoAnswer
    /\ \A d \in Deliveries : pc[d] = "committed" =>
          \E n \in 1..Len(History) : History[n] = CommandOf(msg[d])
    /\ \A d \in Deliveries : answer[d].status = "ok" =>
          /\ answer[d].receipt \in 1..Len(History)
          /\ History[answer[d].receipt] = CommandOf(msg[d])

DurableInv ==
    /\ DurableTypeOK
    /\ LockDiscipline
    /\ SnapshotMatchesCommands
    /\ AnswersTrue

(* restore_snapshot yields a state whether or not there is a row. *)
LEMMA RestoredType ==
    ASSUME NEW r \in StateRow \cup {None}
    PROVE  Restored(r) \in StateRow
BY DEF Restored, StateRow

(* A message that clients send is a command with an identifier. *)
LEMMA CommandOfType ==
    ASSUME NEW m \in Messages
    PROVE  CommandOf(m) \in Command /\ IdOf(m) \in CommandId /\ CommandOf(m).id = IdOf(m)
           /\ CommandOf(m).input = m.body
BY MessagesAssumption DEF CommandOf, Command, IdOf, CommandId, Message

(* A transition yields a state with one more command. *)
LEMMA AppliedType ==
    ASSUME NEW core \in StateRow, NEW m \in Messages
    PROVE  /\ Applied(core, m) \in StateRow
           /\ Applied(core, m) # None
           /\ Applied(core, m).version = core.version + 1
           /\ Applied(core, m).history = Append(core.history, CommandOf(m))
<1>1. CommandOf(m) \in Command
  BY CommandOfType
<1>2. m.body.subject \in Actors /\ m.body.key \in Keys
  BY MessagesAssumption DEF Message, Body
<1> DEFINE bound == BoundKeys(core, m.body)
           longer == Append(core.history, CommandOf(m))
<1>3. bound \in [Actors -> Keys \cup {None}]
  BY <1>2 DEF StateRow, BoundKeys
<1>4. longer \in Seq(Command) /\ core.version + 1 \in Nat
  BY <1>1 DEF StateRow
<1>5. Applied(core, m) = [version |-> core.version + 1, history |-> longer, keys |-> bound]
  BY DEF Applied
<1> HIDE DEF bound, longer
<1>6. /\ Applied(core, m) \in StateRow
      /\ Applied(core, m).version = core.version + 1 /\ Applied(core, m).history = longer
  BY <1>3, <1>4, <1>5 DEF StateRow
<1>7. Applied(core, m) # None
  BY <1>6, NoneAssumption
<1>. QED
  BY <1>6, <1>7 DEF longer

(* Ending a request without a commit. *)
LEMMA FinishInv ==
    ASSUME DurableInv, NEW d \in Deliveries, NEW a, Finish(d, a), pc[d] # "idle",
           a \in [status : {"ok", "refused", "unauthorized", "conflict", "error"},
                  receipt : Nat],
           a.status = "ok" => /\ a.receipt \in 1..Len(History)
                              /\ History[a.receipt] = CommandOf(msg[d])
    PROVE  DurableInv'
<1>1. DurableTypeOK'
  BY DEF DurableInv, DurableTypeOK, Finish
<1>2. LockDiscipline'
  BY DEF DurableInv, DurableTypeOK, LockDiscipline, Finish
<1>3. History' = History /\ Restored(row)' = Restored(row)
  BY DEF Finish, History
<1>4. SnapshotMatchesCommands'
  BY <1>3 DEF DurableInv, SnapshotMatchesCommands, Finish
<1>5. AnswersTrue'
  BY <1>3 DEF DurableInv, DurableTypeOK, AnswersTrue, Finish
<1>. QED
  BY <1>1, <1>2, <1>4, <1>5 DEF DurableInv

(* The steps of a request that change nothing but where it is. *)
LEMMA AdvanceInv ==
    ASSUME DurableInv, NEW d \in Deliveries, pc[d] # "idle", pc[d] # "done",
           NEW where \in {"authorized", "checked"},
           pc' = [pc EXCEPT ![d] = where],
           UNCHANGED <<row, commands, lock, msg, read, answer, crashes>>
    PROVE  DurableInv'
<1>1. History' = History /\ Restored(row)' = Restored(row)
  BY DEF History
<1>. QED
  BY <1>1 DEF DurableInv, DurableTypeOK, LockDiscipline, SnapshotMatchesCommands, AnswersTrue

(* What a commit does: it extends the history that was current. *)
LEMMA CommitExtends ==
    ASSUME DurableInv, NEW d \in Deliveries, Commit(d)
    PROVE  /\ msg[d] \in Messages
           /\ Restored(read[d]) = Restored(row) /\ Restored(row) \in StateRow
           /\ row' = Applied(Restored(row), msg[d])
           /\ Restored(row)' = row'
           /\ History \in Seq(Command)
           /\ History' = Append(History, CommandOf(msg[d]))
           /\ \A n \in 1..Len(History) : History[n].id # IdOf(msg[d])
<1>1. msg[d] \in Messages
  BY DEF DurableInv, AnswersTrue, Commit
<1>2. read[d] = row
  BY DEF DurableInv, LockDiscipline, Commit, Insertable
<1>3. Restored(row) \in StateRow
  BY RestoredType DEF DurableInv, DurableTypeOK
<1>4. row' = Applied(Restored(row), msg[d])
  BY <1>2 DEF Commit
<1>5. row' # None
  BY <1>1, <1>3, <1>4, AppliedType
<1>6. Restored(row)' = row'
  BY <1>5 DEF Restored
<1>7. History' = Append(History, CommandOf(msg[d]))
  BY <1>1, <1>3, <1>4, <1>6, AppliedType DEF History
<1>8. \A n \in 1..Len(History) : History[n].id # IdOf(msg[d])
  BY DEF DurableInv, SnapshotMatchesCommands, Commit, Insertable
<1>9. History \in Seq(Command)
  BY <1>3 DEF History, StateRow
<1>. QED
  BY <1>1, <1>2, <1>3, <1>4, <1>6, <1>7, <1>8, <1>9

(* A commit under the lock, or of the first row, keeps the invariant. *)
LEMMA CommitInv ==
    ASSUME DurableInv, NEW d \in Deliveries, Commit(d)
    PROVE  DurableInv'
<1>. DEFINE c == CommandOf(msg[d])
<1>1. /\ msg[d] \in Messages
      /\ Restored(read[d]) = Restored(row) /\ Restored(row) \in StateRow
      /\ row' = Applied(Restored(row), msg[d])
      /\ Restored(row)' = row'
      /\ History \in Seq(Command)
      /\ History' = Append(History, c)
      /\ \A n \in 1..Len(History) : History[n].id # IdOf(msg[d])
  BY CommitExtends
<1>2. c \in Command /\ IdOf(msg[d]) \in CommandId /\ c.id = IdOf(msg[d]) /\ c.input = msg[d].body
  BY <1>1, CommandOfType
<1>3. /\ row' \in StateRow
      /\ row'.version = Restored(row).version + 1
  BY <1>1, AppliedType
<1>4. /\ Len(History') = Len(History) + 1 /\ Len(History) \in Nat
      /\ History'[Len(History) + 1] = c
      /\ \A n \in 1..Len(History) : History'[n] = History[n]
  <2>. HIDE DEF c
  <2>. QED
    BY <1>1, <1>2
<1>5. msg[d].body \in Body
  BY <1>1, MessagesAssumption DEF Message
<1>6. Restored(row).version = Len(History)
  BY DEF DurableInv, SnapshotMatchesCommands
<1>7. commands' = [i \in DOMAIN commands \cup {IdOf(msg[d])} |->
               IF i = IdOf(msg[d])
               THEN [input |-> msg[d].body, receipt |-> Len(History) + 1]
               ELSE commands[i]]
  BY <1>1, <1>3, <1>6 DEF Commit
<1>8. DurableTypeOK'
  <2>1. \A id \in DOMAIN commands' : commands'[id] \in [input : Body, receipt : Nat]
    BY <1>4, <1>5, <1>7 DEF DurableInv, DurableTypeOK
  <2>2. DOMAIN commands' \subseteq CommandId
    BY <1>2, <1>7 DEF DurableInv, DurableTypeOK
  <2>. QED
    BY <1>3, <2>1, <2>2 DEF DurableInv, DurableTypeOK, Commit
<1>9. LockDiscipline'
  <2>. SUFFICES ASSUME NEW e \in Deliveries, pc'[e] = "locked", read'[e] # None
                PROVE  FALSE
    BY DEF LockDiscipline
  <2>1. e # d /\ pc[e] = "locked" /\ read[e] # None
    BY DEF Commit, DurableInv, DurableTypeOK
  <2>2. lock = e /\ row # None
    BY <2>1 DEF DurableInv, LockDiscipline
  <2>3. read[d] # None
    BY <2>2 DEF Commit, Insertable
  <2>. QED
    BY <2>1, <2>2, <2>3 DEF DurableInv, LockDiscipline, Commit
<1>10. SnapshotMatchesCommands'
  <2>1. Restored(row)'.version = Len(History')
    BY <1>1, <1>3, <1>4, <1>6
  <2>2. ASSUME NEW n \in 1..Len(History')
        PROVE  /\ History'[n].id \in DOMAIN commands'
               /\ commands'[History'[n].id] = [input |-> History'[n].input, receipt |-> n]
    <3>1. CASE n \in 1..Len(History)
      <4>1. History'[n] = History[n] /\ History[n].id # IdOf(msg[d])
        BY <1>1, <1>4, <3>1
      <4>2. /\ History[n].id \in DOMAIN commands
            /\ commands[History[n].id] = [input |-> History[n].input, receipt |-> n]
        BY <3>1 DEF DurableInv, SnapshotMatchesCommands
      <4>. QED
        BY <1>7, <4>1, <4>2
    <3>2. CASE n = Len(History) + 1
      BY <1>2, <1>4, <1>7, <3>2
    <3>. QED
      BY <1>4, <2>2, <3>1, <3>2
  <2>3. ASSUME NEW id \in DOMAIN commands'
        PROVE  \E n \in 1..Len(History') : History'[n].id = id
    <3>1. CASE id = IdOf(msg[d])
      BY <1>2, <1>4, <3>1
    <3>2. CASE id # IdOf(msg[d])
      <4>1. PICK n \in 1..Len(History) : History[n].id = id
        BY <1>7, <2>3, <3>2 DEF DurableInv, SnapshotMatchesCommands
      <4>. QED
        BY <1>4, <4>1
    <3>. QED
      BY <3>1, <3>2
  <2>. QED
    BY <2>1, <2>2, <2>3 DEF SnapshotMatchesCommands
<1>11. AnswersTrue'
  <2>1. \A e \in Deliveries : pc'[e] # "idle" => msg'[e] \in Messages
    BY <1>1 DEF DurableInv, DurableTypeOK, AnswersTrue, Commit
  <2>2. \A e \in Deliveries : pc'[e] # "done" => answer'[e] = NoAnswer
    BY DEF DurableInv, DurableTypeOK, AnswersTrue, Commit
  <2>3. ASSUME NEW e \in Deliveries, pc'[e] = "committed"
        PROVE  \E n \in 1..Len(History') : History'[n] = CommandOf(msg'[e])
    <3>1. CASE e = d
      BY <1>4, <3>1 DEF Commit
    <3>2. CASE e # d
      <4>1. pc[e] = "committed" /\ msg'[e] = msg[e]
        BY <2>3, <3>2 DEF Commit, DurableInv, DurableTypeOK
      <4>2. PICK n \in 1..Len(History) : History[n] = CommandOf(msg[e])
        BY <4>1 DEF DurableInv, AnswersTrue
      <4>. QED
        BY <1>4, <4>1, <4>2
    <3>. QED
      BY <3>1, <3>2
  <2>4. ASSUME NEW e \in Deliveries, answer'[e].status = "ok"
        PROVE  /\ answer'[e].receipt \in 1..Len(History')
               /\ History'[answer'[e].receipt] = CommandOf(msg'[e])
    BY <1>4, <2>4 DEF DurableInv, DurableTypeOK, AnswersTrue, Commit
  <2>. QED
    BY <2>1, <2>2, <2>3, <2>4 DEF AnswersTrue
<1>. QED
  BY <1>8, <1>9, <1>10, <1>11 DEF DurableInv

(* The stored result of a command is the receipt of its effect. *)
LEMMA StoredAnswer ==
    ASSUME DurableInv, NEW m \in Messages, IdOf(m) \in DOMAIN commands,
           commands[IdOf(m)].input = m.body
    PROVE  /\ commands[IdOf(m)].receipt \in 1..Len(History)
           /\ History[commands[IdOf(m)].receipt] = CommandOf(m)
<1>1. PICK n \in 1..Len(History) : History[n].id = IdOf(m)
  BY DEF DurableInv, SnapshotMatchesCommands
<1>2. commands[IdOf(m)] = [input |-> History[n].input, receipt |-> n]
  BY <1>1 DEF DurableInv, SnapshotMatchesCommands
<1>3. History \in Seq(Command)
  BY RestoredType DEF History, StateRow, DurableInv, DurableTypeOK
<1>4. History[n] \in Command
  BY <1>1, <1>3
<1>5. History[n] = CommandOf(m)
  BY <1>1, <1>2, <1>4 DEF Command, CommandOf
<1>. QED
  BY <1>1, <1>2, <1>5

(* A delivery that has committed and not yet answered finds the row of its *)
(* own command.                                                            *)
LEMMA CommittedIsStored ==
    ASSUME DurableInv, NEW d \in Deliveries, pc[d] = "committed"
    PROVE  /\ msg[d] \in Messages /\ IdOf(msg[d]) \in DOMAIN commands
           /\ commands[IdOf(msg[d])].input = msg[d].body
<1>1. msg[d] \in Messages
  BY DEF DurableInv, AnswersTrue
<1>2. PICK n \in 1..Len(History) : History[n] = CommandOf(msg[d])
  BY DEF DurableInv, AnswersTrue
<1>3. History[n].id = IdOf(msg[d]) /\ History[n].input = msg[d].body
  BY <1>1, <1>2, CommandOfType
<1>4. /\ History[n].id \in DOMAIN commands
      /\ commands[History[n].id] = [input |-> History[n].input, receipt |-> n]
  BY <1>2 DEF DurableInv, SnapshotMatchesCommands
<1>. QED
  BY <1>1, <1>3, <1>4

(* Every step of a delivery keeps the invariant. *)
LEMMA ProgressInv ==
    ASSUME DurableInv, NEW d \in Deliveries, Progress(d)
    PROVE  DurableInv'
<1>. USE DEF Answer
<1>1. CASE Authorize(d)
  <2>1. CASE Finish(d, Answer("refused"))
    BY <1>1, <2>1, FinishInv DEF Authorize
  <2>2. CASE Finish(d, Answer("unauthorized"))
    BY <1>1, <2>2, FinishInv DEF Authorize
  <2>3. CASE /\ pc' = [pc EXCEPT ![d] = "authorized"]
             /\ UNCHANGED <<row, commands, lock, msg, read, answer, crashes>>
    BY <1>1, <2>3, AdvanceInv DEF Authorize
  <2>. QED
    BY <1>1, <2>1, <2>2, <2>3 DEF Authorize
<1>2. CASE CheckCommand(d)
  <2>. DEFINE id == IdOf(msg[d])
              stored == [status |-> "ok", receipt |-> commands[id].receipt]
  <2>1. msg[d] \in Messages /\ pc[d] = "authorized"
    BY <1>2 DEF CheckCommand, DurableInv, AnswersTrue
  <2>2. CASE id \in DOMAIN commands /\ commands[id].input = msg[d].body
    <3>1. Finish(d, stored)
      BY <1>2, <2>2 DEF CheckCommand
    <3>2. stored.receipt \in 1..Len(History) /\ History[stored.receipt] = CommandOf(msg[d])
      BY <2>1, <2>2, StoredAnswer
    <3>3. stored.receipt \in Nat
      BY <3>2
    <3>. QED
      BY <2>1, <3>1, <3>2, <3>3, FinishInv
  <2>3. CASE id \in DOMAIN commands /\ commands[id].input # msg[d].body
    <3>1. Finish(d, Answer("conflict"))
      BY <1>2, <2>3 DEF CheckCommand
    <3>. QED
      BY <2>1, <3>1, FinishInv
  <2>4. CASE id \notin DOMAIN commands
    BY <1>2, <2>1, <2>4, AdvanceInv DEF CheckCommand
  <2>. QED
    BY <2>2, <2>3, <2>4
<1>3. CASE LockState(d)
  <2>1. History' = History /\ Restored(row)' = Restored(row)
    BY <1>3 DEF History, LockState
  <2>2. LockDiscipline'
    BY <1>3, NoneAssumption DEF DurableInv, DurableTypeOK, LockDiscipline, LockState
  <2>. QED
    BY <1>3, <2>1, <2>2
    DEF LockState, DurableInv, DurableTypeOK, SnapshotMatchesCommands, AnswersTrue
<1>4. CASE Commit(d)
  BY <1>4, CommitInv
<1>5. CASE Refuse(d)
  BY <1>5, FinishInv DEF Refuse
<1>6. CASE IntegrityError(d)
  BY <1>6, FinishInv DEF IntegrityError
<1>7. CASE Respond(d)
  <2>. DEFINE stored == [status |-> "ok", receipt |-> commands[IdOf(msg[d])].receipt]
  <2>1. pc[d] = "committed" /\ Finish(d, stored)
    BY <1>7 DEF Respond
  <2>2. stored.receipt \in 1..Len(History) /\ History[stored.receipt] = CommandOf(msg[d])
    BY <2>1, CommittedIsStored, StoredAnswer
  <2>3. stored.receipt \in Nat
    BY <2>2
  <2>. QED
    BY <2>1, <2>2, <2>3, FinishInv
<1>. QED
  BY <1>1, <1>2, <1>3, <1>4, <1>5, <1>6, <1>7 DEF Progress

(* Every step of the service, crashes included, keeps the invariant. *)
LEMMA StepInv ==
    ASSUME DurableInv, [DurableNext]_durableVars
    PROVE  DurableInv'
<1>1. CASE UNCHANGED durableVars
  BY <1>1 DEF durableVars, DurableInv, DurableTypeOK, LockDiscipline, AnswersTrue,
              SnapshotMatchesCommands, History
<1>2. ASSUME NEW d \in Deliveries, NEW m \in Messages, Send(d, m)
      PROVE  DurableInv'
  <2>1. History' = History /\ Restored(row)' = Restored(row)
    BY <1>2 DEF History, Send
  <2>. QED
    BY <1>2, <2>1 DEF Send, DurableInv, DurableTypeOK, LockDiscipline, AnswersTrue,
                      SnapshotMatchesCommands, NoAnswer
<1>3. ASSUME NEW d \in Deliveries, Progress(d)
      PROVE  DurableInv'
  BY <1>3, ProgressInv
<1>4. CASE Crash
  <2>1. History' = History /\ Restored(row)' = Restored(row)
    BY <1>4 DEF History, Crash
  <2>2. DurableTypeOK'
    BY <1>4, CrashesAssumption DEF Crash, Answer, InFlight, DurableInv, DurableTypeOK
  <2>. QED
    BY <1>4, <2>1, <2>2 DEF Crash, Answer, InFlight, DurableInv, DurableTypeOK,
       LockDiscipline, AnswersTrue, SnapshotMatchesCommands
<1>. QED
  BY <1>1, <1>2, <1>3, <1>4 DEF DurableNext

(* The inductive invariant of the durable service. *)
THEOREM DurableInvariant == DurableSafety => []DurableInv
<1>1. DurableInit => DurableInv
  BY CrashesAssumption, NoneAssumption
  DEF DurableInit, DurableInv, DurableTypeOK, LockDiscipline, AnswersTrue,
      SnapshotMatchesCommands, History, Restored, NoAnswer, StateRow
<1>2. DurableInv /\ [DurableNext]_durableVars => DurableInv'
  BY StepInv
<1>. QED
  BY <1>1, <1>2, PTL DEF DurableSafety

(* Row, command table, lock and requests have their types in every state   *)
(* of the durable service, for any deliveries and messages.                *)
THEOREM DurableTypeCorrect == DurableSafety => []DurableTypeOK
BY DurableInvariant, PTL DEF DurableInv

(* The snapshot and the command table agree after any interleaving and any *)
(* number of crashes.                                                      *)
THEOREM SnapshotAndCommandsAgree == DurableSafety => []SnapshotMatchesCommands
BY DurableInvariant, PTL DEF DurableInv

(* Delivery d accounts for the n-th effect: it is its command, and it      *)
(* reported it, will report it, or had its answer lost.                    *)
Accounts(d, n) ==
    /\ pc[d] # "idle" /\ CommandOf(msg[d]) = History[n]
    /\ pc[d] = "committed" \/ answer[d].status \in {"ok", "lost"}

(* Only Respond and Crash move a committed delivery, so it keeps           *)
(* accounting for its effect.                                              *)
LEMMA AccountsKept ==
    ASSUME DurableInv, [DurableNext]_durableVars, NEW d \in Deliveries,
           NEW n \in 1..Len(History), Accounts(d, n), History'[n] = History[n]
    PROVE  Accounts(d, n)'
<1>. USE DEF Accounts
<1>1. pc[d] \in {"committed", "done"}
  BY DEF DurableInv, AnswersTrue, NoAnswer
<1>2. CASE UNCHANGED durableVars
  BY <1>2 DEF durableVars
<1>3. ASSUME NEW e \in Deliveries, NEW m \in Messages, Send(e, m)
      PROVE  Accounts(d, n)'
  BY <1>1, <1>3 DEF Send, DurableInv, DurableTypeOK
<1>4. ASSUME NEW e \in Deliveries, Progress(e), e # d
      PROVE  Accounts(d, n)'
  BY <1>4 DEF Progress, Authorize, CheckCommand, LockState, Commit, Refuse,
              IntegrityError, Respond, Finish, DurableInv, DurableTypeOK
<1>5. CASE Progress(d)
  <2>1. Respond(d)
    BY <1>1, <1>5 DEF Progress, Authorize, CheckCommand, LockState, Commit, Refuse,
                      IntegrityError
  <2>. QED
    BY <2>1 DEF Respond, Finish, DurableInv, DurableTypeOK
<1>6. CASE Crash
  BY <1>1, <1>6 DEF Crash, InFlight, Answer, DurableInv, DurableTypeOK
<1>. QED
  BY <1>2, <1>3, <1>4, <1>5, <1>6 DEF DurableNext

(* A commit leaves the earlier history in place. *)
LEMMA HistoryGrows ==
    ASSUME DurableInv, [DurableNext]_durableVars
    PROVE  \/ History' = History
           \/ \E d \in Deliveries : Commit(d)
BY DEF DurableNext, durableVars, History, Send, Progress, Authorize, CheckCommand,
       LockState, Refuse, IntegrityError, Respond, Finish, Crash

(* For every interleaving and any number of crashes, a command whose       *)
(* deliveries all ended in a reported failure has no effect.               *)
THEOREM FailuresAreHonest == DurableSafety => []FailureMeansNoEffect
<1>1. DurableInit => FailureMeansNoEffect
  BY DEF DurableInit, FailureMeansNoEffect, History, Restored
<1>2. ASSUME DurableInv, FailureMeansNoEffect, [DurableNext]_durableVars
      PROVE  FailureMeansNoEffect'
  <2>1. CASE History' = History
    <3>. SUFFICES ASSUME NEW n \in 1..Len(History)
                  PROVE  \E d \in Deliveries : Accounts(d, n)'
      BY <2>1 DEF FailureMeansNoEffect, Accounts
    <3>1. PICK d \in Deliveries : Accounts(d, n)
      BY <1>2 DEF FailureMeansNoEffect, Accounts
    <3>. QED
      BY <1>2, <2>1, <3>1, AccountsKept
  <2>2. ASSUME NEW c \in Deliveries, Commit(c)
        PROVE  FailureMeansNoEffect'
    <3>1. History \in Seq(Command) /\ History' = Append(History, CommandOf(msg[c]))
          /\ msg[c] \in Messages
      BY <1>2, <2>2, CommitExtends
    <3>2. CommandOf(msg[c]) \in Command
      BY <3>1, CommandOfType
    <3>3. /\ Len(History') = Len(History) + 1 /\ Len(History) \in Nat
          /\ History'[Len(History) + 1] = CommandOf(msg[c])
          /\ \A n \in 1..Len(History) : History'[n] = History[n]
      BY <3>1, <3>2
    <3>. SUFFICES ASSUME NEW n \in 1..Len(History')
                  PROVE  \E d \in Deliveries : Accounts(d, n)'
      BY DEF FailureMeansNoEffect, Accounts
    <3>4. CASE n \in 1..Len(History)
      <4>1. PICK d \in Deliveries : Accounts(d, n)
        BY <1>2, <3>4 DEF FailureMeansNoEffect, Accounts
      <4>. QED
        BY <1>2, <3>3, <3>4, <4>1, AccountsKept
    <3>5. CASE n = Len(History) + 1
      BY <1>2, <2>2, <3>3, <3>5 DEF Accounts, Commit, DurableInv, DurableTypeOK
    <3>. QED
      BY <3>3, <3>4, <3>5
  <2>. QED
    BY <1>2, <2>1, <2>2, HistoryGrows
<1>. QED
  BY <1>1, <1>2, DurableInvariant, PTL DEF DurableSafety

-----------------------------------------------------------------------------
(* Refinement. *)

(* Ending a request reports a true success or is a stutter. *)
LEMMA FinishRefines ==
    ASSUME DurableInv, NEW d \in Deliveries, NEW a, Finish(d, a), pc[d] # "done",
           a.status = "ok" => /\ a.receipt \in 1..Len(History)
                              /\ History[a.receipt] = CommandOf(msg[d])
    PROVE  [Promise!LogNext]_(Promise!logVars)
<1>1. History' = History
  BY DEF Finish, History
<1>2. answer[d].status # "ok"
  BY DEF DurableInv, AnswersTrue, NoAnswer
<1>3. CASE a.status # "ok"
  <2>1. {e \in Deliveries : answer'[e].status = "ok"}
          = {e \in Deliveries : answer[e].status = "ok"}
    BY <1>2, <1>3 DEF Finish, DurableInv, DurableTypeOK
  <2>2. Successes' = Successes
    BY <1>2, <1>3, <2>1 DEF Successes, Finish, DurableInv, DurableTypeOK
  <2>. QED
    BY <1>1, <2>2 DEF Promise!logVars
<1>4. CASE a.status = "ok"
  <2>1. Successes' = Successes \cup {[command |-> History[a.receipt], receipt |-> a.receipt]}
    BY <1>2, <1>4 DEF Successes, Finish, DurableInv, DurableTypeOK
  <2>. QED
    BY <1>1, <1>4, <2>1 DEF Promise!LogNext, Promise!Report
<1>. QED
  BY <1>3, <1>4

(* Steps that leave messages and answers alone report nothing. *)
LEMMA SameSuccesses ==
    ASSUME DurableInv, answer' = answer,
           \A e \in Deliveries : answer[e].status = "ok" => msg'[e] = msg[e]
    PROVE  Successes' = Successes
BY DEF Successes

(* Every step of the service is a step of the command log or a stutter. *)
LEMMA StepRefines ==
    ASSUME DurableInv, [DurableNext]_durableVars
    PROVE  [Promise!LogNext]_(Promise!logVars)
<1>. USE DEF Answer
<1>1. CASE UNCHANGED durableVars
  BY <1>1 DEF durableVars, Promise!logVars, History, Successes
<1>2. ASSUME NEW d \in Deliveries, NEW m \in Messages, Send(d, m)
      PROVE  UNCHANGED Promise!logVars
  <2>1. answer[d].status # "ok"
    BY <1>2 DEF Send, DurableInv, AnswersTrue, NoAnswer
  <2>2. Successes' = Successes
    BY <1>2, <2>1, SameSuccesses DEF Send, DurableInv, DurableTypeOK
  <2>. QED
    BY <1>2, <2>2 DEF Send, History, Promise!logVars
<1>3. ASSUME NEW d \in Deliveries, Authorize(d)
      PROVE  [Promise!LogNext]_(Promise!logVars)
  <2>1. CASE UNCHANGED <<row, commands, lock, msg, read, answer, crashes>>
    BY <2>1, SameSuccesses DEF History, Promise!logVars
  <2>. QED
    BY <1>3, <2>1, FinishRefines DEF Authorize
<1>4. ASSUME NEW d \in Deliveries, CheckCommand(d)
      PROVE  [Promise!LogNext]_(Promise!logVars)
  <2>. DEFINE id == IdOf(msg[d])
              stored == [status |-> "ok", receipt |-> commands[id].receipt]
  <2>1. msg[d] \in Messages /\ pc[d] = "authorized"
    BY <1>4 DEF CheckCommand, DurableInv, AnswersTrue
  <2>2. CASE id \in DOMAIN commands /\ commands[id].input = msg[d].body
    <3>1. Finish(d, stored)
      BY <1>4, <2>2 DEF CheckCommand
    <3>2. stored.receipt \in 1..Len(History) /\ History[stored.receipt] = CommandOf(msg[d])
      BY <2>1, <2>2, StoredAnswer
    <3>. QED
      BY <2>1, <3>1, <3>2, FinishRefines
  <2>3. CASE id \in DOMAIN commands /\ commands[id].input # msg[d].body
    BY <1>4, <2>1, <2>3, FinishRefines DEF CheckCommand
  <2>4. CASE id \notin DOMAIN commands
    BY <1>4, <2>4, SameSuccesses DEF CheckCommand, History, Promise!logVars
  <2>. QED
    BY <2>2, <2>3, <2>4
<1>5. ASSUME NEW d \in Deliveries, LockState(d)
      PROVE  UNCHANGED Promise!logVars
  BY <1>5, SameSuccesses DEF LockState, History, Promise!logVars
<1>6. ASSUME NEW d \in Deliveries, Commit(d)
      PROVE  Promise!LogNext
  <2>1. Successes' = Successes
    BY <1>6, SameSuccesses DEF Commit
  <2>2. Promise!Execute(CommandOf(msg[d]))
    BY <1>6, <2>1, CommitExtends, CommandOfType DEF Promise!Execute
  <2>3. CommandOf(msg[d]) \in Promise!Command
    BY <1>6, CommitExtends, CommandOfType DEF Promise!Command, Command
  <2>. QED
    BY <2>2, <2>3 DEF Promise!LogNext
<1>7. ASSUME NEW d \in Deliveries, Refuse(d) \/ IntegrityError(d)
      PROVE  [Promise!LogNext]_(Promise!logVars)
  BY <1>7, FinishRefines DEF Refuse, IntegrityError
<1>8. ASSUME NEW d \in Deliveries, Respond(d)
      PROVE  [Promise!LogNext]_(Promise!logVars)
  <2>. DEFINE stored == [status |-> "ok", receipt |-> commands[IdOf(msg[d])].receipt]
  <2>1. pc[d] = "committed" /\ Finish(d, stored)
    BY <1>8 DEF Respond
  <2>2. stored.receipt \in 1..Len(History) /\ History[stored.receipt] = CommandOf(msg[d])
    BY <2>1, CommittedIsStored, StoredAnswer
  <2>. QED
    BY <2>1, <2>2, FinishRefines
<1>9. CASE Crash
  <2>1. \A e \in Deliveries : answer'[e].status = "ok" <=> answer[e].status = "ok"
    BY <1>9 DEF Crash, InFlight, DurableInv, DurableTypeOK, AnswersTrue, NoAnswer
  <2>2. \A e \in Deliveries : answer[e].status = "ok" => answer'[e] = answer[e]
    BY <1>9 DEF Crash, InFlight, DurableInv, DurableTypeOK, AnswersTrue, NoAnswer
  <2>3. Successes' = Successes
    BY <1>9, <2>1, <2>2 DEF Crash, Successes
  <2>. QED
    BY <1>9, <2>3 DEF Crash, History, Promise!logVars
<1>. QED
  BY <1>1, <1>2, <1>3, <1>4, <1>5, <1>6, <1>7, <1>8, <1>9 DEF DurableNext, Progress

(* The durable service implements the command log: under every             *)
(* interleaving, retry and crash, effects are serial and at most once, and *)
(* every success reports the receipt of the effect.                        *)
THEOREM DurableRefinesLog == DurableSafety => ImplementsCommandLog
<1>1. DurableInit => Promise!LogInit
  BY DEF DurableInit, Promise!LogInit, History, Restored, Successes, NoAnswer
<1>2. DurableInv /\ [DurableNext]_durableVars => [Promise!LogNext]_(Promise!logVars)
  BY StepRefines
<1>. QED
  BY <1>1, <1>2, DurableInvariant, PTL
  DEF DurableSafety, ImplementsCommandLog, Promise!LogSpec

(* A command takes effect at most once, however its deliveries interleave, *)
(* are repeated or follow a crash.                                         *)
THEOREM RetriesAreSafe == DurableSafety => []EffectsOnce
<1>1. Promise!LogSpec => [](Promise!AtMostOnce /\ Promise!OneAnswerPerCommand)
  BY Promise!LogIsSerial
<1>. QED
  BY <1>1, DurableRefinesLog, PTL DEF ImplementsCommandLog, EffectsOnce

(* Whichever of its deliveries is answered, a command has one receipt, and *)
(* the receipt names its place in the history.                             *)
THEOREM ReceiptsAgree == DurableSafety => []OneReceiptPerCommand
<1>1. Promise!LogSpec => [](Promise!AtMostOnce /\ Promise!OneAnswerPerCommand)
  BY Promise!LogIsSerial
<1>. QED
  BY <1>1, DurableRefinesLog, PTL DEF ImplementsCommandLog, OneReceiptPerCommand

-----------------------------------------------------------------------------
(* Keys. *)

(* Key k was bound by one of the first n commands of history h. *)
BoundBy(h, k, n) ==
    \E j \in 1..n : /\ h[j].input.op \in {"enroll", "rebind"}
                    /\ h[j].input.key = k

(* Every key that is bound was bound by a command of the history; a        *)
(* request that is past authentication either is signed with the new key   *)
(* that it names itself or with a key that a command had bound by then.    *)
(* The key may have been replaced or deleted since, which is why the       *)
(* history is what is kept.                                                *)
KeysFromHistory ==
    /\ \A a \in Actors : Restored(row).keys[a] # None =>
          BoundBy(History, Restored(row).keys[a], Len(History))
    /\ \A d \in Deliveries : pc[d] \in {"authorized", "checked", "locked"} =>
          \/ msg[d].body.op \in NamesOwnKey /\ msg[d].body.key = msg[d].key
          \/ /\ msg[d].body.op \notin NamesOwnKey
             /\ BoundBy(History, msg[d].key, Len(History))
    /\ \A n \in 1..Len(History) :
          \/ /\ History[n].input.op \in NamesOwnKey
             /\ History[n].input.key = History[n].id[1]
          \/ /\ History[n].input.op \notin NamesOwnKey
             /\ BoundBy(History, History[n].id[1], n - 1)

(* A key once bound stays one that the history bound. *)
LEMMA BoundByGrows ==
    ASSUME NEW h, NEW g, NEW k, NEW n \in Nat, BoundBy(h, k, n),
           NEW m \in Nat, n <= m, \A j \in 1..n : g[j] = h[j]
    PROVE  BoundBy(g, k, m)
BY DEF BoundBy

(* Steps that leave the row alone: only Authorize lets a request past      *)
(* authentication, and it looks the key up in the committed row.           *)
LEMMA KeysKeptBySteps ==
    ASSUME DurableInv, KeysFromHistory, [DurableNext]_durableVars, row' = row
    PROVE  KeysFromHistory'
<1>1. History' = History /\ Restored(row)' = Restored(row) /\ Len(History) \in Nat
  BY RestoredType DEF History, DurableInv, DurableTypeOK, StateRow
<1>3. ASSUME NEW d \in Deliveries, pc'[d] \in {"authorized", "checked", "locked"}
      PROVE  \/ msg'[d].body.op \in NamesOwnKey /\ msg'[d].body.key = msg'[d].key
             \/ /\ msg'[d].body.op \notin NamesOwnKey
                /\ BoundBy(History, msg'[d].key, Len(History))
  <2>1. CASE pc[d] \in {"authorized", "checked", "locked"}
    <3>1. msg'[d] = msg[d]
      BY <2>1 DEF DurableNext, durableVars, Send, Progress, Authorize, CheckCommand,
         LockState, Commit, Refuse, IntegrityError, Respond, Finish, Crash,
         DurableInv, DurableTypeOK
    <3>. QED
      BY <2>1, <3>1 DEF KeysFromHistory
  <2>2. CASE pc[d] \notin {"authorized", "checked", "locked"}
    <3>1. ~UNCHANGED durableVars
      BY <1>3, <2>2 DEF durableVars
    <3>2. ASSUME NEW e \in Deliveries, NEW m \in Messages, Send(e, m)
          PROVE  FALSE
      BY <1>3, <2>2, <3>2 DEF Send, DurableInv, DurableTypeOK
    <3>3. ASSUME NEW e \in Deliveries, Progress(e)
          PROVE  Authorize(d) /\ pc'[d] = "authorized"
      BY <1>3, <2>2, <3>3 DEF Progress, Authorize, CheckCommand, LockState, Commit,
         Refuse, IntegrityError, Respond, Finish, DurableInv, DurableTypeOK
    <3>4. ~Crash
      BY <1>3, <2>2 DEF Crash, InFlight, DurableInv, DurableTypeOK
    <3>5. Authorize(d) /\ pc'[d] = "authorized"
      BY <3>1, <3>2, <3>3, <3>4 DEF DurableNext
    <3>6. msg[d] \in Messages /\ msg'[d] = msg[d] /\ ExpectedKey(msg[d]) = msg[d].key
      BY <3>5 DEF Authorize, Finish, DurableInv, AnswersTrue, DurableTypeOK
    <3>7. msg[d].actor \in Actors /\ msg[d].key \in Keys
      BY <3>6, MessagesAssumption DEF Message
    <3>. QED
      BY <3>6, <3>7, NoneAssumption DEF ExpectedKey, KeysFromHistory
  <2>. QED
    BY <2>1, <2>2
<1>. QED
  BY <1>1, <1>3 DEF KeysFromHistory

(* A commit records the command under the key it was signed with, and      *)
(* binds the key that its body names.                                      *)
LEMMA KeysKeptByCommit ==
    ASSUME DurableInv, KeysFromHistory, NEW d \in Deliveries, Commit(d)
    PROVE  KeysFromHistory'
<1>. DEFINE c == CommandOf(msg[d])
            len == Len(History)
<1>1. /\ msg[d] \in Messages /\ Restored(row) \in StateRow
      /\ row' = Applied(Restored(row), msg[d]) /\ Restored(row)' = row'
      /\ History \in Seq(Command) /\ History' = Append(History, c)
  BY CommitExtends
<1>2. c \in Command /\ c.id = IdOf(msg[d]) /\ c.input = msg[d].body
  BY <1>1, CommandOfType
<1>3. /\ Len(History') = len + 1 /\ len \in Nat
      /\ History'[len + 1] = c
      /\ \A n \in 1..len : History'[n] = History[n]
  <2>. HIDE DEF c
  <2>. QED
    BY <1>1, <1>2
<1>4. msg[d].body \in Body /\ msg[d].body.subject \in Actors /\ c.id[1] = msg[d].key
  BY <1>1, <1>2, MessagesAssumption DEF Message, Body, IdOf
<1>5. ASSUME NEW k, NEW n \in 0..len, BoundBy(History, k, n), NEW m \in n..(len + 1)
      PROVE  BoundBy(History', k, m)
  BY <1>3, <1>5, BoundByGrows
<1>6. \/ msg[d].body.op \in NamesOwnKey /\ msg[d].body.key = msg[d].key
      \/ msg[d].body.op \notin NamesOwnKey /\ BoundBy(History, msg[d].key, len)
  BY DEF KeysFromHistory, Commit
<1>7. ASSUME NEW a \in Actors, Restored(row)'.keys[a] # None
      PROVE  BoundBy(History', Restored(row)'.keys[a], len + 1)
  <2>1. CASE Restored(row)'.keys[a] = Restored(row).keys[a]
    BY <1>3, <1>5, <1>7, <2>1 DEF KeysFromHistory
  <2>2. CASE Restored(row)'.keys[a] # Restored(row).keys[a]
    <3>1. Restored(row)'.keys = BoundKeys(Restored(row), msg[d].body)
      BY <1>1 DEF Applied
    <3>2. /\ msg[d].body.op \in {"enroll", "rebind"}
          /\ Restored(row)'.keys[a] = msg[d].body.key
      BY <1>1, <1>4, <1>7, <2>2, <3>1 DEF BoundKeys, StateRow
    <3>. QED
      BY <1>2, <1>3, <3>2 DEF BoundBy
  <2>. QED
    BY <2>1, <2>2
<1>8. ASSUME NEW e \in Deliveries, pc'[e] \in {"authorized", "checked", "locked"}
      PROVE  \/ msg'[e].body.op \in NamesOwnKey /\ msg'[e].body.key = msg'[e].key
             \/ /\ msg'[e].body.op \notin NamesOwnKey
                /\ BoundBy(History', msg'[e].key, len + 1)
  <2>1. pc[e] \in {"authorized", "checked", "locked"} /\ msg'[e] = msg[e]
    BY <1>8 DEF Commit, DurableInv, DurableTypeOK
  <2>. QED
    BY <1>3, <1>5, <2>1 DEF KeysFromHistory
<1>9. ASSUME NEW n \in 1..(len + 1)
      PROVE  \/ /\ History'[n].input.op \in NamesOwnKey
                /\ History'[n].input.key = History'[n].id[1]
             \/ /\ History'[n].input.op \notin NamesOwnKey
                /\ BoundBy(History', History'[n].id[1], n - 1)
  <2>1. CASE n \in 1..len
    <3>1. History'[n] = History[n] /\ n - 1 \in 0..len /\ n - 1 \in (n - 1)..(len + 1)
      BY <1>3, <2>1
    <3>. QED
      BY <1>5, <2>1, <3>1 DEF KeysFromHistory
  <2>2. CASE n = len + 1
    <3>1. History'[n] = c /\ n - 1 = len
      BY <1>3, <2>2
    <3>. QED
      BY <1>2, <1>3, <1>4, <1>5, <1>6, <3>1
  <2>. QED
    BY <1>3, <2>1, <2>2
<1>. QED
  BY <1>3, <1>7, <1>8, <1>9 DEF KeysFromHistory

(* No command ever takes effect under a stranger's key: an enrolment and a *)
(* recovery request name the new key they are signed with, and any other   *)
(* command has a key that an earlier enrolment or approved recovery of the *)
(* history bound, although it is looked up before the transaction and not  *)
(* again under the lock.                                                   *)
THEOREM EffectsAreAuthenticated == DurableSafety => []EffectsUnderKnownKey
<1>1. DurableInit => KeysFromHistory
  BY DEF DurableInit, KeysFromHistory, History, Restored
<1>2. ASSUME DurableInv, KeysFromHistory, [DurableNext]_durableVars
      PROVE  KeysFromHistory'
  <2>1. CASE row' = row
    BY <1>2, <2>1, KeysKeptBySteps
  <2>2. CASE row' # row
    <3>1. PICK d \in Deliveries : Commit(d)
      BY <1>2, <2>2 DEF DurableNext, durableVars, Send, Progress, Authorize,
         CheckCommand, LockState, Refuse, IntegrityError, Respond, Finish, Crash
    <3>. QED
      BY <1>2, <3>1, KeysKeptByCommit
  <2>. QED
    BY <2>1, <2>2
<1>3. ASSUME KeysFromHistory PROVE EffectsUnderKnownKey
  BY <1>3 DEF KeysFromHistory, BoundBy, EffectsUnderKnownKey
<1>. QED
  BY <1>1, <1>2, <1>3, DurableInvariant, PTL DEF DurableSafety

-----------------------------------------------------------------------------
(* What the interleaving leaves of the database: serial transitions. *)

(* An accepted transition of the state that was committed last. *)
Transition ==
    \E m \in Messages : /\ Accepts(Restored(row), m.body)
                        /\ row' = Applied(Restored(row), m)

(* There is no row at first, and it changes by such transitions only. *)
SerialTransitions == row = None /\ [][Transition]_row

(* Deliveries interleave and crash at every round trip, yet the rows they  *)
(* commit are those of one handler after another, each run on the latest   *)
(* state: no update is lost and no transition sees a stale snapshot.  This *)
(* is why a transition of the core is one atomic action in the other       *)
(* modules.  The key lookup before it is not part of it: there a deletion  *)
(* may come between the two.                                               *)
THEOREM TransitionsAreSerial == DurableSafety => SerialTransitions
<1>1. DurableInit => row = None
  BY DEF DurableInit
<1>2. ASSUME DurableInv, [DurableNext]_durableVars, row' # row
      PROVE  Transition
  <2>1. PICK d \in Deliveries : Commit(d)
    BY <1>2 DEF DurableNext, durableVars, Send, Progress, Authorize, CheckCommand,
       LockState, Refuse, IntegrityError, Respond, Finish, Crash
  <2>2. /\ msg[d] \in Messages /\ Restored(read[d]) = Restored(row)
        /\ row' = Applied(Restored(row), msg[d])
    BY <1>2, <2>1, CommitExtends
  <2>3. Accepts(Restored(row), msg[d].body)
    BY <2>1, <2>2 DEF Commit
  <2>. QED
    BY <2>2, <2>3 DEF Transition
<1>3. DurableInv /\ [DurableNext]_durableVars => [Transition]_row
  BY <1>2
<1>. QED
  BY <1>1, <1>3, DurableInvariant, PTL DEF DurableSafety, SerialTransitions

-----------------------------------------------------------------------------
(* Waiting for the lock. *)

(* The lock is held only by a transaction that has it and has only to      *)
(* commit or to roll back; it waits for nothing.                           *)
LockHolderRuns == lock # None => lock \in Deliveries /\ pc[lock] = "locked"

(* No order of commits, refusals, errors and crashes leaves the row lock   *)
(* with a request that has ended or that waits itself: the safety part of  *)
(* RequestsEnd.                                                            *)
THEOREM LockIsNeverOrphaned == DurableSafety => []LockHolderRuns
<1>1. DurableInit => LockHolderRuns
  BY DEF DurableInit, LockHolderRuns
<1>2. ASSUME DurableInv, LockHolderRuns, [DurableNext]_durableVars
      PROVE  LockHolderRuns'
  <2>. USE <1>2 DEF LockHolderRuns, DurableInv, DurableTypeOK
  <2>1. CASE UNCHANGED durableVars
    BY <2>1 DEF durableVars
  <2>2. ASSUME NEW d \in Deliveries, NEW m \in Messages, Send(d, m)
        PROVE  LockHolderRuns'
    BY <2>2 DEF Send
  <2>3. ASSUME NEW d \in Deliveries, NEW a, Finish(d, a)
        PROVE  LockHolderRuns'
    BY <2>3 DEF Finish
  <2>4. ASSUME NEW d \in Deliveries, Progress(d), \A a : ~Finish(d, a)
        PROVE  LockHolderRuns'
    BY <2>4 DEF Progress, Authorize, CheckCommand, LockState, Commit, Refuse,
                IntegrityError, Respond
  <2>5. CASE Crash
    BY <2>5 DEF Crash
  <2>. QED
    BY <2>1, <2>2, <2>3, <2>4, <2>5 DEF DurableNext
<1>. QED
  BY <1>1, <1>2, DurableInvariant, PTL DEF DurableSafety

-----------------------------------------------------------------------------
(* Retries. *)

(* A delivery that looks for its command's row once the command has taken  *)
(* effect is answered with the stored receipt, or loses its answer.        *)
LateRetryReplays ==
    [][\A d \in Deliveries, n \in 1..Len(History) :
          /\ pc[d] = "authorized" /\ pc'[d] # "authorized"
          /\ History[n] = CommandOf(msg[d])
          => answer'[d] \in {[status |-> "ok", receipt |-> n], Answer("lost")}
      ]_durableVars

(* One step of a late retry. *)
LEMMA LateRetryStep ==
    ASSUME DurableInv, [DurableNext]_durableVars, NEW d \in Deliveries,
           NEW n \in 1..Len(History), pc[d] = "authorized", pc'[d] # "authorized",
           History[n] = CommandOf(msg[d])
    PROVE  answer'[d] \in {[status |-> "ok", receipt |-> n], Answer("lost")}
<1>1. CheckCommand(d) \/ Crash
  <2>1. ~UNCHANGED durableVars
    BY DEF durableVars
  <2>2. ASSUME NEW e \in Deliveries, NEW m \in Messages PROVE ~Send(e, m)
    BY DEF Send, DurableInv, DurableTypeOK
  <2>3. ASSUME NEW e \in Deliveries, Progress(e) PROVE CheckCommand(d)
    BY <2>3 DEF Progress, Authorize, CheckCommand, LockState, Commit,
       Refuse, IntegrityError, Respond, Finish, DurableInv, DurableTypeOK
  <2>. QED
    BY <2>1, <2>2, <2>3 DEF DurableNext
<1>2. CASE Crash
  BY <1>2 DEF Crash, InFlight
<1>3. CASE CheckCommand(d)
  <2>1. History[n].id = IdOf(msg[d]) /\ History[n].input = msg[d].body
    BY CommandOfType DEF DurableInv, AnswersTrue
  <2>2. /\ IdOf(msg[d]) \in DOMAIN commands
        /\ commands[IdOf(msg[d])] = [input |-> msg[d].body, receipt |-> n]
    BY <2>1 DEF DurableInv, SnapshotMatchesCommands
  <2>3. Finish(d, [status |-> "ok", receipt |-> n])
    BY <1>3, <2>2 DEF CheckCommand
  <2>. QED
    BY <2>3 DEF Finish, DurableInv, DurableTypeOK
<1>. QED
  BY <1>1, <1>2, <1>3

(* The part of "an exact retry returns the stored result" that the code    *)
(* does keep: a retry that gets to its check after the effect.  One that   *)
(* was past the check by then is the counterexample of exact_retry.        *)
THEOREM LateRetriesReplay == DurableSafety => LateRetryReplays
<1>. DEFINE Replays ==
        \A d \in Deliveries, n \in 1..Len(History) :
          /\ pc[d] = "authorized" /\ pc'[d] # "authorized"
          /\ History[n] = CommandOf(msg[d])
          => answer'[d] \in {[status |-> "ok", receipt |-> n], Answer("lost")}
<1>1. DurableInv /\ [DurableNext]_durableVars => [Replays]_durableVars
  BY LateRetryStep
<1>. QED
  BY <1>1, DurableInvariant, PTL DEF DurableSafety, LateRetryReplays
=============================================================================
