----------------------------- MODULE Activation -----------------------------
(***************************************************************************)
(* The activation client (src/src/kyn/activation.py) and the bootstrap     *)
(* endpoint that it calls (activate_bootstrap in src/src/kyn/api.py).  KC  *)
(* prepares a signed request; the operator submits it with the token of    *)
(* the secret directory and the client writes an evidence file.  A request *)
(* or an answer may be lost or come after the client has given up, and the *)
(* client may be killed between any two steps.                             *)
(*                                                                         *)
(* Data.  A request is the draft that it was made from; the position in    *)
(* `prepared` stands for its nonce.  It is stale outside the 120 seconds   *)
(* that the server accepts; the expiry of the authority is not reached.    *)
(* The service is the token it has loaded.  The confirmations, the digest  *)
(* and the signature refuse only a request that was altered.  That a       *)
(* command takes effect in one transaction is DurableService.              *)
(***************************************************************************)
EXTENDS Provisioning

CONSTANTS
    Drafts, EvidencePaths,
    None,
    MaxPrepared, MaxSubmits       \* bounds

ASSUME ActivationAssumption ==
    /\ {MaxPrepared, MaxSubmits} \subseteq Nat
    /\ "token" \in {Plain[i] : i \in DOMAIN Plain}

VARIABLES
    service,      \* the running service: the token it has loaded; or None
    database,     \* the live database, or None
    prepared,     \* the signed requests
    client,       \* the submitting client
    wire,         \* the requests under way
    evidence,     \* the evidence files
    activations   \* every activation that was ever committed

clientVars == <<prepared, client, wire, evidence>>
activationVars == <<service, database, clientVars, activations>>

Command == [nonce : 1..MaxPrepared, draft : Drafts, raced : BOOLEAN, newborn : BOOLEAN]
Evidence == [nonce : 1..MaxPrepared, draft : Drafts]

Idle(submits) == [pc |-> "idle", nonce |-> None, path |-> None, submits |-> submits]

ClientInit ==
    /\ prepared = <<>> /\ wire = {} /\ activations = {}
    /\ client = Idle(0)
    /\ evidence = [p \in EvidencePaths |-> Absent]

-----------------------------------------------------------------------------
(* The client. *)

(* prepare_activation, and the portable request written to a new file *)
PrepareActivation(draft) ==
    /\ Len(prepared) < MaxPrepared
    /\ prepared' = Append(prepared, [draft |-> draft, fresh |-> TRUE])
    /\ UNCHANGED <<service, database, client, wire, evidence, activations>>

(* The clock passes the limit of a request. *)
Age(k) ==
    /\ prepared[k].fresh
    /\ prepared' = [prepared EXCEPT ![k].fresh = FALSE]
    /\ UNCHANGED <<service, database, client, wire, evidence, activations>>

(* submit_prepared_activation up to the POST, with the token file's token *)
SubmitActivation(k, path) ==
    /\ client.pc = "idle" /\ client.submits < MaxSubmits
    /\ evidence[path] = Absent
    /\ secrets["token"].content \notin {Absent, Empty, Short}
    /\ client' = [pc |-> "posted", nonce |-> k, path |-> path,
                  submits |-> client.submits + 1]
    /\ wire' = wire \cup {[submit |-> client.submits + 1, nonce |-> k,
                         token |-> secrets["token"].content]}
    /\ UNCHANGED <<service, database, prepared, evidence, activations>>

(* A valid response has come: the evidence file is created, ... *)
CreateEvidence ==
    /\ client.pc = "answered" /\ evidence[client.path] = Absent
    /\ evidence' = [evidence EXCEPT ![client.path] = Empty]
    /\ client' = [client EXCEPT !.pc = "created"]
    /\ UNCHANGED <<service, database, prepared, wire, activations>>

(* ... and written. *)
WriteEvidence ==
    /\ client.pc = "created"
    /\ evidence' = [evidence EXCEPT ![client.path] =
           [nonce |-> client.nonce, draft |-> prepared[client.nonce].draft]]
    /\ client' = Idle(client.submits)
    /\ UNCHANGED <<service, database, prepared, wire, activations>>

(* A timeout, an error response, a full disk or a kill ends the client. *)
ClientStops ==
    /\ client.pc # "idle"
    /\ client' = Idle(client.submits)
    /\ UNCHANGED <<service, database, prepared, wire, evidence, activations>>

(* A request is lost on the way or with the service. *)
LoseRequest(m) ==
    /\ wire' = wire \ {m}
    /\ UNCHANGED <<service, database, prepared, client, evidence, activations>>

-----------------------------------------------------------------------------
(* The endpoint. *)

Known(m) == \E c \in database.commands : c.nonce = m.nonce

Authorized(m) ==
    /\ service # None
    /\ m.token = service                      \* verify_bootstrap_token
    /\ prepared[m.nonce].fresh                \* authorize_participant_action

(* The answer reaches the client if that still waits for it. *)
Answer(m) ==
    client' = IF client.pc = "posted" /\ client.submits = m.submit
              THEN [client EXCEPT !.pc = "answered"] ELSE client

(* activate_bootstrap commits: there is no root yet.  raced and newborn    *)
(* record whether a rotation is running and whether it made the database.  *)
ServerActivate(m, raced, newborn) ==
    /\ Authorized(m) /\ ~Known(m)
    /\ database.commands = {}
    /\ LET c == [nonce |-> m.nonce, draft |-> prepared[m.nonce].draft,
                 raced |-> raced, newborn |-> newborn]
       IN  /\ database' = [database EXCEPT !.commands = {c}]
           /\ activations' = activations \cup {c}
    /\ wire' = wire \ {m}
    /\ Answer(m)
    /\ UNCHANGED <<service, prepared, evidence>>

(* execute replays the response of a command that it knows. *)
ServerReplay(m) ==
    /\ Authorized(m) /\ Known(m)
    /\ wire' = wire \ {m}
    /\ Answer(m)
    /\ UNCHANGED <<service, database, prepared, evidence, activations>>

(* 401, or 409: there is a root already.  The client gets no valid response. *)
ServerRefuse(m) ==
    /\ service # None
    /\ ~Authorized(m) \/ (~Known(m) /\ database.commands # {})
    /\ wire' = wire \ {m}
    /\ UNCHANGED <<service, database, prepared, client, evidence, activations>>

ClientStep ==
    \/ \E k \in DOMAIN prepared : Age(k)
    \/ \E k \in DOMAIN prepared, p \in EvidencePaths : SubmitActivation(k, p)
    \/ CreateEvidence \/ WriteEvidence \/ ClientStops
    \/ \E m \in wire : LoseRequest(m) \/ ServerReplay(m) \/ ServerRefuse(m)

ClientTypeOK ==
    /\ prepared \in Seq([draft : Drafts, fresh : BOOLEAN])
    /\ Len(prepared) <= MaxPrepared
    /\ client \in [pc : {"idle", "posted", "answered", "created"},
                   nonce : 1..MaxPrepared \cup {None},
                   path : EvidencePaths \cup {None}, submits : 0..MaxSubmits]
    /\ client.pc # "idle" => client.nonce \in DOMAIN prepared /\ client.path \in EvidencePaths
    /\ wire \subseteq [submit : 1..MaxSubmits, nonce : DOMAIN prepared, token : Contents]
    /\ evidence \in [EvidencePaths -> Evidence \cup {Absent, Empty}]
    /\ activations \subseteq Command
=============================================================================
