-------------------------- MODULE DhtRegistration ---------------------------
(***************************************************************************)
(* dht_register of client/src/main.rs against the DHT node: the client     *)
(* asks for its own record, chooses the seq of its put by the answer,      *)
(* solves the proof of work and submits.  It may register again at any     *)
(* time.  No other request reaches the node.                               *)
(***************************************************************************)
EXTENDS DhtNode

CONSTANTS
    Conn,          \* the handler of the client's connection
    Owner,         \* the client's null id
    MaxAttempts    \* bound: calls of dht_register

ASSUME RegistrationAssumption ==
    /\ Conn \in Handlers /\ Owner \in Keys
    /\ MaxAttempts \in Nat

VARIABLES
    client,     \* where dht_register is
    seq,        \* the seq it has chosen
    attempts,   \* how often it was called
    result,     \* what it returned last
    \* Observations: why the put cannot succeed.
    lapsed,     \* seq 0 was chosen although the node has a row
    reused      \* the solution found is a nonce the node has logged for the key


observations == <<lapsed, reused>>
clientVars == <<client, seq, attempts, result, observations>>
allVars == <<vars, clientVars>>

RegInit ==
    /\ Init
    /\ client = "rest" /\ seq = 0 /\ attempts = 0
    /\ result = "none" /\ lapsed = FALSE /\ reused = FALSE

Ask ==
    /\ client = "rest"
    /\ attempts < MaxAttempts
    /\ Receive(Conn, [op |-> "get", key |-> Owner])
    /\ client' = "asking"
    /\ attempts' = attempts + 1
    /\ result' = "none"
    /\ lapsed' = FALSE /\ reused' = FALSE
    /\ UNCHANGED seq

\* Mutant of SeqFor: every registration uses seq 0.
SeqForFirst(found) == 0

\* Every answer but dht-found means not registered.
SeqFor(found) == IF found THEN clock ELSE 0

\* The answer has arrived.  A connection that was lost is noticed by the next send.
Learn ==
    /\ client = "asking"
    /\ At(Conn, "idle") /\ answer[Conn] # "none"
    /\ client' = "solving"
    /\ seq' = SeqFor(answer[Conn] = "found")
    /\ lapsed' = (answer[Conn] # "found" /\ kv[Owner] # NoRow)
    /\ UNCHANGED <<vars, attempts, result, reused>>

\* pow_solve returns the first solution counting from 0.  The salt is new in every
\* call, so the solution may be any nonce, one of an earlier call too.  The put is
\* signed and sent; its ttl is the default.
Submit ==
    /\ client = "solving"
    /\ \E n \in Nonces :
          /\ Receive(Conn, [op |-> "put", key |-> Owner, seq |-> seq, nonce |-> n,
                            ttl |-> StoreTTL, valid |-> TRUE])
          /\ reused' = (<<Owner, n>> \in nonceLog)
    /\ client' = "putting"
    /\ UNCHANGED <<seq, attempts, result, lapsed>>

\* pow_solve has no solution among its ten million attempts, or fails.
GiveUp ==
    /\ client = "solving"
    /\ client' = "rest"
    /\ UNCHANGED <<vars, seq, attempts, result, observations>>

Conclude ==
    /\ client = "putting"
    /\ At(Conn, "idle") /\ answer[Conn] # "none"
    /\ client' = "rest"
    /\ result' = answer[Conn]
    /\ UNCHANGED <<vars, seq, attempts, observations>>

\* The node has restarted and the connection is closed.
Disconnect ==
    /\ Restart
    /\ client' = "rest"
    /\ result' = IF client = "rest" THEN result ELSE "none"
    /\ UNCHANGED <<seq, attempts, observations>>

NodeStep ==
    /\ Step(Conn) \/ Prune \/ Tick
    /\ UNCHANGED clientVars

RegNext == Ask \/ Learn \/ Submit \/ GiveUp \/ Conclude \/ Disconnect \/ NodeStep

RegSpec == RegInit /\ [][RegNext]_allVars
-----------------------------------------------------------------------------
(* Properties                                                               *)

\* dht_register is answered "stale sequence" only if the node has a row it did not
\* tell the client of, because it has expired or the query failed; if pow_solve found
\* a nonce the key has used before, which nonce_log never forgets; or if the row was
\* registered in the very second the new seq was taken.
RefusedOnlyAfterLapse ==
    result = "stale" => lapsed \/ reused \/ (seq > 0 /\ kv[Owner].seq = seq)

\* DEVELOPER.md:452, on nullnode register: "The bootstrap validates: PoW, signature,
\* key==compute_null_id(publisher_fp), then stores in DHT."  A valid registration
\* is not refused.
RegisterStored == result # "stale"
=============================================================================
