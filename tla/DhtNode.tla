------------------------------ MODULE DhtNode -------------------------------
(***************************************************************************)
(* The DHT node: handle_put, handle_get and handle_addr_record of          *)
(* dht-core/src/dht_node.rs over the SQLite store of                       *)
(* dht-core/src/sqlite_store.rs, with its tables kv_store and nonce_log    *)
(* and the in-memory seen_nonces beside them.                              *)
(*                                                                         *)
(* A handler is one connection's task.  Every query of DhtStore is an      *)
(* .await on a pool of five connections, so each is an action and handlers *)
(* interleave between them; only the two writes of put share a             *)
(* transaction.  A request may arrive late and more than once.             *)
(***************************************************************************)
EXTENDS Integers, FiniteSets

CONSTANTS
    Handlers,      \* connection handler tasks
    Keys,          \* null ids
    Nonces,        \* proof-of-work nonces
    Requests,      \* requests the network may deliver
    MaxKeys,       \* MAX_TOTAL_KEYS
    StoreTTL,      \* STORE_TTL, in clock ticks
    KeepNonces,    \* nonces of a key that the prune task keeps: 64
    MaxClock,      \* bound: the clock stops here
    MaxRequests,   \* bound: requests that arrive
    MaxCrashes,    \* bound: node restarts
    MaxDbErrors    \* bound: failing SQL statements

\* valid: the proof of work, the publisher's fingerprint and the signature check
\* out.
PutReqs == [op : {"put"}, key : Keys, seq : Nat, nonce : Nonces, ttl : Int,
            valid : BOOLEAN]
AddrReqs == [op : {"addr"}, key : Keys, nonce : Nonces, ttl : Int, valid : BOOLEAN]
GetReqs == [op : {"get"}, key : Keys]
AllRequests == PutReqs \cup AddrReqs \cup GetReqs

ASSUME DhtAssumption ==
    /\ IsFiniteSet(Keys)
    /\ Nonces \subseteq Nat
    /\ Requests \subseteq AllRequests
    /\ MaxKeys \in Nat \ {0} /\ KeepNonces \in Nat \ {0}
    /\ StoreTTL \in Nat \ {0} /\ MaxClock \in Nat \ {0} /\ MaxRequests \in Nat
    /\ MaxCrashes \in Nat /\ MaxDbErrors \in Nat

VARIABLES
    kv,          \* kv[k]: the row of kv_store for k
    nonceLog,    \* the rows of nonce_log
    seenNonces,  \* seenNonces[k]: the in-memory nonces of k
    pc, req,     \* where each handler is and the request it works on
    row,         \* row[h]: the row put is about to write
    answer,      \* answer[h]: the last response of h
    clock, arrived, crashes, dbErrors,
    \* Observations the properties are stated with; no action reads them.
    contended,   \* keys two handlers were writing at the same time
    stored       \* stored[w]: how often the key and nonce w were committed

ghosts == <<contended, stored>>
db == <<kv, nonceLog>>
vars == <<kv, nonceLog, seenNonces, pc, req, row, answer, clock, arrived, crashes,
          dbErrors, contended, stored>>

NoRow == [seq |-> -1, exp |-> 0, by |-> -1]
NoReq == [op |-> "none"]
Rows == [seq : Nat, exp : Int, by : Nonces]
Writes == Keys \X Nonces
Answers == {"none", "found", "missing", "stale", "full", "refused", "error"}

Live(k) == kv[k] # NoRow /\ kv[k].exp > clock
At(h, label) == pc[h] = label

\* h is inside DhtStore::put, past the query of nonce_log.
Writing(h) == pc[h] \in {"seq", "commit"}

-----------------------------------------------------------------------------
Init ==
    /\ kv = [k \in Keys |-> NoRow]
    /\ nonceLog = {}
    /\ seenNonces = [k \in Keys |-> {}]
    /\ pc = [h \in Handlers |-> "idle"]
    /\ req = [h \in Handlers |-> NoReq]
    /\ row = [h \in Handlers |-> NoRow]
    /\ answer = [h \in Handlers |-> "none"]
    /\ clock = 1 /\ arrived = 0 /\ crashes = 0 /\ dbErrors = 0
    /\ contended = {}
    /\ stored = [w \in Writes |-> 0]

Goto(h, label) == pc' = [pc EXCEPT ![h] = label]

\* The handler answers and waits for the next message.
Finish(h, a) ==
    /\ Goto(h, "idle")
    /\ req' = [req EXCEPT ![h] = NoReq]
    /\ row' = [row EXCEPT ![h] = NoRow]
    /\ answer' = [answer EXCEPT ![h] = a]

DbError ==
    /\ dbErrors < MaxDbErrors
    /\ dbErrors' = dbErrors + 1

Stay == UNCHANGED <<clock, arrived, crashes>>

\* A request that passes the checks made before the first query: the ttl of a put,
\* everything about an address record.  Others are answered with an error and
\* change nothing.  An address record takes its seq from the node's clock.
Receive(h, q) ==
    /\ At(h, "idle")
    /\ arrived < MaxRequests
    /\ q.op = "put" => q.ttl > 0
    /\ q.op = "addr" => q.valid
    /\ arrived' = arrived + 1
    /\ req' = [req EXCEPT ![h] = q]
    /\ answer' = [answer EXCEPT ![h] = "none"]
    /\ \/ q.op = "put"  /\ Goto(h, "haskey")
                        /\ row' = [row EXCEPT ![h] = [seq |-> q.seq, exp |-> 0, by |-> q.nonce]]
       \/ q.op = "addr" /\ Goto(h, "log")
                        /\ row' = [row EXCEPT ![h] = [seq |-> clock, exp |-> 0, by |-> q.nonce]]
       \/ q.op = "get"  /\ Goto(h, "get")
                        /\ UNCHANGED row
    /\ UNCHANGED <<db, seenNonces, clock, crashes, dbErrors, ghosts>>

-----------------------------------------------------------------------------
(* handle_put, up to the call of DhtStore::put                              *)

\* has_key finds expired rows too.
HasKey(h) ==
    /\ At(h, "haskey")
    /\ Goto(h, IF kv[req[h].key] # NoRow THEN "nonce" ELSE "count")
    /\ Stay
    /\ UNCHANGED <<db, seenNonces, req, row, answer, dbErrors, ghosts>>

\* count_keys counts live rows only.
CountKeys(h) ==
    /\ At(h, "count")
    /\ IF Cardinality({k \in Keys : Live(k)}) >= MaxKeys
       THEN Finish(h, "full")
       ELSE Goto(h, "nonce") /\ UNCHANGED <<req, row, answer>>
    /\ Stay
    /\ UNCHANGED <<db, seenNonces, dbErrors, ghosts>>

\* unwrap_or(false) and unwrap_or(0): a failing query lets the put go on.
LimitQueryFails(h) ==
    /\ DbError
    /\ \/ At(h, "haskey") /\ Goto(h, "count")
       \/ At(h, "count") /\ Goto(h, "nonce")
    /\ Stay
    /\ UNCHANGED <<db, seenNonces, req, row, answer, ghosts>>

\* Mutant of CheckNonce: the nonce is recorded when it is checked.
CheckNonceRecords(h) ==
    /\ At(h, "nonce")
    /\ IF req[h].nonce \in seenNonces[req[h].key] \/ ~req[h].valid
       THEN Finish(h, "refused") /\ UNCHANGED seenNonces
       ELSE /\ Goto(h, "log")
            /\ seenNonces' = [seenNonces EXCEPT ![req[h].key] = @ \cup {req[h].nonce}]
            /\ UNCHANGED <<req, row, answer>>
    /\ Stay
    /\ UNCHANGED <<db, dbErrors, ghosts>>

\* The in-memory nonces, then the proof of work, the fingerprint and the signature.
CheckNonce(h) ==
    /\ At(h, "nonce")
    /\ IF req[h].nonce \in seenNonces[req[h].key] \/ ~req[h].valid
       THEN Finish(h, "refused")
       ELSE Goto(h, "log") /\ UNCHANGED <<req, row, answer>>
    /\ Stay
    /\ UNCHANGED <<db, seenNonces, dbErrors, ghosts>>

-----------------------------------------------------------------------------
(* DhtStore::put                                                            *)

\* handle_put caps the ttl; handle_addr_record does not.
Ttl(q) == IF q.op = "put" /\ q.ttl > StoreTTL THEN StoreTTL ELSE q.ttl

\* is_nonce_seen, then the time of the write is taken.
QueryNonce(h) ==
    LET k == req[h].key IN
    /\ At(h, "log")
    /\ IF <<k, req[h].nonce>> \in nonceLog
       THEN Finish(h, "stale") /\ UNCHANGED contended
       ELSE /\ Goto(h, "seq")
            /\ row' = [row EXCEPT ![h].exp = clock + Ttl(req[h])]
            /\ contended' =
                 IF \E g \in Handlers \ {h} : Writing(g) /\ req[g].key = k
                 THEN contended \cup {k} ELSE contended
            /\ UNCHANGED <<req, answer>>
    /\ Stay
    /\ UNCHANGED <<db, seenNonces, dbErrors, stored>>

\* Mutant of QuerySeq: a put with the stored seq is taken.
QuerySeqLoose(h) ==
    LET k == req[h].key IN
    /\ At(h, "seq")
    /\ IF kv[k] # NoRow /\ kv[k].seq > row[h].seq
       THEN Finish(h, "stale")
       ELSE Goto(h, "commit") /\ UNCHANGED <<req, row, answer>>
    /\ Stay
    /\ UNCHANGED <<db, seenNonces, dbErrors, ghosts>>

\* The seq of an expired row counts as well.
QuerySeq(h) ==
    LET k == req[h].key IN
    /\ At(h, "seq")
    /\ IF kv[k] # NoRow /\ kv[k].seq >= row[h].seq
       THEN Finish(h, "stale")
       ELSE Goto(h, "commit") /\ UNCHANGED <<req, row, answer>>
    /\ Stay
    /\ UNCHANGED <<db, seenNonces, dbErrors, ghosts>>

\* handle_put still records the nonce in memory; handle_addr_record answers.
AfterCommit(h) ==
    IF req[h].op = "put"
    THEN Goto(h, "note") /\ UNCHANGED <<req, row, answer>>
    ELSE Finish(h, "found")

\* Mutant of Commit: the nonce is not logged.
CommitUnlogged(h) ==
    LET k == req[h].key
        w == <<k, req[h].nonce>> IN
    /\ At(h, "commit")
    /\ kv' = [kv EXCEPT ![k] = row[h]]
    /\ stored' = [stored EXCEPT ![w] = @ + 1]
    /\ AfterCommit(h)
    /\ Stay
    /\ UNCHANGED <<nonceLog, seenNonces, dbErrors, contended>>

\* Mutant of Commit: both kinds of request go on to the in-memory nonces.
CommitAlwaysNotes(h) ==
    LET k == req[h].key
        w == <<k, req[h].nonce>> IN
    /\ At(h, "commit")
    /\ kv' = [kv EXCEPT ![k] = row[h]]
    /\ nonceLog' = nonceLog \cup {w}
    /\ stored' = [stored EXCEPT ![w] = @ + 1]
    /\ Goto(h, "note") /\ UNCHANGED <<req, row, answer>>
    /\ Stay
    /\ UNCHANGED <<seenNonces, dbErrors, contended>>

\* One transaction: the nonce is logged and the row replaced, whatever it holds by
\* now.
Commit(h) ==
    LET k == req[h].key
        w == <<k, req[h].nonce>> IN
    /\ At(h, "commit")
    /\ kv' = [kv EXCEPT ![k] = row[h]]
    /\ nonceLog' = nonceLog \cup {w}
    /\ stored' = [stored EXCEPT ![w] = @ + 1]
    /\ AfterCommit(h)
    /\ Stay
    /\ UNCHANGED <<seenNonces, dbErrors, contended>>

Note(h) ==
    /\ At(h, "note")
    /\ seenNonces' = [seenNonces EXCEPT ![req[h].key] = @ \cup {req[h].nonce}]
    /\ Finish(h, "found")
    /\ Stay
    /\ UNCHANGED <<db, dbErrors, ghosts>>

\* "storage error": the transaction is rolled back.
StoreFails(h) ==
    /\ \E label \in {"log", "seq", "commit", "get"} : At(h, label)
    /\ DbError
    /\ Finish(h, "error")
    /\ Stay
    /\ UNCHANGED <<db, seenNonces, ghosts>>

Get(h) ==
    /\ At(h, "get")
    /\ Finish(h, IF Live(req[h].key) THEN "found" ELSE "missing")
    /\ Stay
    /\ UNCHANGED <<db, seenNonces, dbErrors, ghosts>>

-----------------------------------------------------------------------------
\* The background task of start: the largest nonces of each key stay.
Pruned(S) == {n \in S : Cardinality({m \in S : m > n}) < KeepNonces}

Prune ==
    /\ seenNonces' = [k \in Keys |-> Pruned(seenNonces[k])]
    /\ seenNonces' # seenNonces
    /\ UNCHANGED <<db, pc, req, row, answer, dbErrors, ghosts>>
    /\ Stay

Tick ==
    /\ clock < MaxClock
    /\ clock' = clock + 1
    /\ UNCHANGED <<db, seenNonces, pc, req, row, answer, arrived, crashes, dbErrors,
                   ghosts>>

\* The tables are kept, the in-memory nonces and the requests under way are lost.
Restart ==
    /\ crashes < MaxCrashes
    /\ crashes' = crashes + 1
    /\ seenNonces' = [k \in Keys |-> {}]
    /\ pc' = [h \in Handlers |-> "idle"]
    /\ req' = [h \in Handlers |-> NoReq]
    /\ row' = [h \in Handlers |-> NoRow]
    /\ answer' = [h \in Handlers |-> "none"]
    /\ UNCHANGED <<db, clock, arrived, dbErrors, ghosts>>

PutSteps(h) == HasKey(h) \/ CountKeys(h) \/ LimitQueryFails(h) \/ CheckNonce(h)
StoreSteps(h) == QueryNonce(h) \/ QuerySeq(h) \/ Commit(h) \/ StoreFails(h)
Step(h) == PutSteps(h) \/ StoreSteps(h) \/ Note(h) \/ Get(h)

Next ==
    \/ \E h \in Handlers : (\E q \in Requests : Receive(h, q)) \/ Step(h)
    \/ Prune
    \/ Tick
    \/ Restart

Spec == Init /\ [][Next]_vars

\* Tokio polls every task that can run.
FairSpec == Spec /\ \A h \in Handlers : WF_vars(Step(h))

Register == INSTANCE VersionedRegister
            WITH reg <- kv, used <- nonceLog, raced <- contended
-----------------------------------------------------------------------------
(* Properties                                                               *)

\* The labels at which a request may be.
LabelsOf(op) ==
    CASE op = "put"  -> {"haskey", "count", "nonce", "log", "seq", "commit", "note"}
      [] op = "addr" -> {"log", "seq", "commit"}
      [] op = "get"  -> {"get"}
      [] OTHER       -> {"idle"}

\* Every variable has its type, and each handler is at a label of the request it
\* works on: an address record never passes through handle_put.
TypeOK ==
    /\ kv \in [Keys -> Rows \cup {NoRow}]
    /\ nonceLog \subseteq Writes
    /\ seenNonces \in [Keys -> SUBSET Nonces]
    /\ pc \in [Handlers -> {"idle", "haskey", "count", "nonce", "log", "seq",
                            "commit", "note", "get"}]
    /\ req \in [Handlers -> AllRequests \cup {NoReq}]
    /\ row \in [Handlers -> Rows \cup {NoRow}]
    /\ \A h \in Handlers :
          /\ pc[h] \in LabelsOf(req[h].op)
          /\ req[h].op \in {"put", "addr"} =>
                row[h] \in Rows /\ row[h].by = req[h].nonce
    /\ answer \in [Handlers -> Answers]
    /\ clock \in 1 .. MaxClock
    /\ arrived \in 0 .. MaxRequests
    /\ crashes \in 0 .. MaxCrashes
    /\ dbErrors \in 0 .. MaxDbErrors
    /\ contended \subseteq Keys
    /\ stored \in [Writes -> Nat]

\* A key and a nonce are committed once: across redelivery, restarts that lose
\* seen_nonces, its pruning, and address records, which take a new seq on every
\* delivery.  The exception is a key two handlers were writing at once.
StoredOnce == \A w \in Writes : stored[w] >= 2 => w[1] \in contended

\* A key's seq only grows, also past expiry, failing statements and restarts,
\* unless two handlers were writing it at once: then both may have read the old
\* seq before either wrote.
SeqGrows ==
    [][\A k \in Keys :
         kv'[k] # kv[k] /\ kv[k] # NoRow /\ k \notin contended'
           => kv'[k].seq > kv[k].seq]_vars

\* seen_nonces never refuses a put that nonce_log would take: what it holds was
\* committed.
SeenLogged ==
    \A k \in Keys : \A n \in seenNonces[k] : <<k, n>> \in nonceLog

\* The node, with all its connections at work, implements the versioned register
\* that DhtStore::put promises, each transaction being one write; only a key at
\* which two handlers met inside put may be overwritten with an older record.
ImplementsRegister == Register!Spec

\* dht-core/src/sqlite_store.rs, on put: "Only stores if: - The new seq is higher
\* than existing (prevents replay)".
SeqNeverDecreases ==
    [][\A k \in Keys :
         kv'[k] # kv[k] /\ kv[k] # NoRow => kv'[k].seq > kv[k].seq]_vars
=============================================================================
