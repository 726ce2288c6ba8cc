----------------------------- MODULE CommandLog -----------------------------
(***************************************************************************)
(* What the durable service promises its clients: commands take effect one *)
(* after another, each at most once, and a success names the receipt of    *)
(* that one effect however often the command was sent.                     *)
(***************************************************************************)
EXTENDS Naturals, Sequences, TLAPS

CONSTANTS
    Ids,    \* command identifiers
    Inputs  \* what a command asks for

VARIABLES
    log,      \* the commands that took effect, in order
    answered  \* the successes reported to clients

logVars == <<log, answered>>

Command == [id : Ids, input : Inputs]

LogInit == log = <<>> /\ answered = {}

Execute(c) ==
    /\ \A n \in 1..Len(log) : log[n].id # c.id
    /\ log' = Append(log, c)
    /\ UNCHANGED answered

(* A success may be reported for a command that took effect, as long as it *)
(* asks for what that command did.                                         *)
Report(n) ==
    /\ answered' = answered \cup {[command |-> log[n], receipt |-> n]}
    /\ UNCHANGED log

LogNext ==
    \/ \E c \in Command : Execute(c)
    \/ \E n \in 1..Len(log) : Report(n)

LogSpec == LogInit /\ [][LogNext]_logVars

-----------------------------------------------------------------------------

(* Type invariant of the log. *)
LogTypeOK ==
    /\ log \in Seq(Command)
    /\ answered \subseteq [command : Command, receipt : Nat]

(* No command identifier takes effect twice. *)
AtMostOnce ==
    \A m, n \in 1..Len(log) : log[m].id = log[n].id => m = n

(* Whatever was answered under one identifier is the same answer, and it   *)
(* is about the command that took effect.                                  *)
OneAnswerPerCommand ==
    /\ \A a \in answered : a.receipt \in 1..Len(log) /\ log[a.receipt] = a.command
    /\ \A a, b \in answered : a.command.id = b.command.id => a = b

-----------------------------------------------------------------------------

LogInv ==
    /\ LogTypeOK
    /\ AtMostOnce
    /\ \A a \in answered : a.receipt \in 1..Len(log) /\ log[a.receipt] = a.command

(* The log never executes an identifier twice and never contradicts an     *)
(* answer, whatever the identifiers and inputs are.                        *)
THEOREM LogIsSerial == LogSpec => [](AtMostOnce /\ OneAnswerPerCommand)
<1>1. LogInit => LogInv
  BY DEF LogInit, LogInv, LogTypeOK, AtMostOnce
<1>2. ASSUME LogInv, [LogNext]_logVars PROVE LogInv'
  <2>. USE DEF LogInv, LogTypeOK, AtMostOnce
  <2>1. CASE UNCHANGED logVars
    BY <1>2, <2>1 DEF logVars
  <2>2. ASSUME NEW c \in Command, Execute(c) PROVE LogInv'
    <3>1. /\ log' \in Seq(Command) /\ Len(log') = Len(log) + 1
          /\ log'[Len(log) + 1] = c
          /\ \A n \in 1..Len(log) : log'[n] = log[n]
      BY <1>2, <2>2 DEF Execute
    <3>2. AtMostOnce'
      BY <1>2, <2>2, <3>1 DEF Execute
    <3>. QED
      BY <1>2, <2>2, <3>1, <3>2 DEF Execute
  <2>3. ASSUME NEW n \in 1..Len(log), Report(n) PROVE LogInv'
    BY <1>2, <2>3 DEF Report
  <2>. QED
    BY <1>2, <2>1, <2>2, <2>3 DEF LogNext
<1>3. LogInv => AtMostOnce /\ OneAnswerPerCommand
  <2>. SUFFICES ASSUME LogInv, NEW a \in answered, NEW b \in answered,
                       a.command.id = b.command.id
                PROVE  a = b
    BY DEF LogInv, OneAnswerPerCommand
  <2>1. a.receipt = b.receipt
    BY DEF LogInv, AtMostOnce
  <2>. QED
    BY <2>1 DEF LogInv, LogTypeOK
<1>. QED
  BY <1>1, <1>2, <1>3, PTL DEF LogSpec
=============================================================================
