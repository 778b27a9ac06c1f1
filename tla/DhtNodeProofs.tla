--------------------------- MODULE DhtNodeProofs ----------------------------
(***************************************************************************)
(* Proofs about DhtNode, for any number of handlers, keys, requests,        *)
(* restarts and failing statements, and about the client's registration     *)
(* against it.                                                              *)
(***************************************************************************)
EXTENDS DhtRegistration, TLAPS

\* A step of the node, whatever request arrives.  The steps of Next and the node's
\* part in those of RegNext are such steps.
AnyNext ==
    \/ \E h \in Handlers : (\E q \in AllRequests : Receive(h, q)) \/ Step(h)
    \/ Prune
    \/ Tick
    \/ Restart

LEMMA NextIsAny == [Next]_vars => [AnyNext]_vars
BY DhtAssumption DEF Next, AnyNext

\* The key and nonce h's request writes.
WriteOf(h) == <<req[h].key, req[h].nonce>>

\* Two handlers writing one key have been noticed.
RaceInv ==
    \A g, h \in Handlers :
        g # h /\ Writing(g) /\ Writing(h) /\ req[g].key = req[h].key
            => req[h].key \in contended

\* What an unrivalled writer has read of nonce_log and kv_store still holds.
ReadInv ==
    \A h \in Handlers : req[h].key \notin contended =>
        /\ Writing(h) => WriteOf(h) \notin nonceLog
        /\ pc[h] = "commit" =>
              kv[req[h].key] = NoRow \/ kv[req[h].key].seq < row[h].seq

\* What was committed is logged.
LogInv == \A w \in Writes : stored[w] >= 1 => w \in nonceLog

WriteInv == RaceInv /\ ReadInv /\ LogInv /\ StoredOnce

\* A put about to record its nonce in memory has committed it.
SeenInv ==
    /\ SeenLogged
    /\ \A h \in Handlers : pc[h] = "note" => WriteOf(h) \in nonceLog

-----------------------------------------------------------------------------
(* Types                                                                    *)

\* What a handler at work on a request that writes knows of it.
LEMMA WriterFields ==
    ASSUME TypeOK, NEW h \in Handlers,
           pc[h] \in {"haskey", "count", "nonce", "log", "seq", "commit", "note"}
    PROVE  /\ req[h] \in PutReqs \cup AddrReqs
           /\ req[h].op \in {"put", "addr"}
           /\ req[h].key \in Keys /\ req[h].nonce \in Nonces
           /\ req[h].ttl \in Int
           /\ row[h] \in Rows /\ row[h].by = req[h].nonce
           /\ pc[h] \in {"haskey", "count", "nonce", "note"} => req[h].op = "put"
<1>1. pc[h] \in LabelsOf(req[h].op) /\ req[h] \in AllRequests \cup {NoReq}
  BY DEF TypeOK
<1>2. req[h] \in PutReqs \cup AddrReqs
  BY <1>1 DEF LabelsOf, AllRequests, GetReqs, NoReq
<1>3. /\ req[h].op \in {"put", "addr"}
      /\ req[h].key \in Keys /\ req[h].nonce \in Nonces /\ req[h].ttl \in Int
  BY <1>2 DEF PutReqs, AddrReqs
<1> QED
  BY <1>1, <1>2, <1>3 DEF LabelsOf, TypeOK

LEMMA TypeInit == Init => TypeOK
BY DhtAssumption DEF Init, TypeOK, LabelsOf, NoReq, Answers

\* A handler that finishes leaves the per-handler state well typed.
HandlerTypes ==
    /\ pc \in [Handlers -> {"idle", "haskey", "count", "nonce", "log", "seq",
                            "commit", "note", "get"}]
    /\ req \in [Handlers -> AllRequests \cup {NoReq}]
    /\ row \in [Handlers -> Rows \cup {NoRow}]
    /\ answer \in [Handlers -> Answers]
    /\ \A h \in Handlers :
          /\ pc[h] \in LabelsOf(req[h].op)
          /\ req[h].op \in {"put", "addr"} =>
                row[h] \in Rows /\ row[h].by = req[h].nonce

LEMMA FinishTypes ==
    ASSUME TypeOK, NEW h \in Handlers, NEW a \in Answers, Finish(h, a)
    PROVE  HandlerTypes'
BY DEF TypeOK, HandlerTypes, Finish, Goto, LabelsOf, NoReq

\* A handler that moves on to another label of its request.
LEMMA GotoTypes ==
    ASSUME TypeOK, NEW h \in Handlers, NEW label, label \in LabelsOf(req[h].op),
           label \in {"nonce", "count", "log", "seq", "commit", "note"},
           Goto(h, label), UNCHANGED <<req, answer>>,
           row' \in [Handlers -> Rows \cup {NoRow}],
           \A g \in Handlers : g # h => row'[g] = row[g],
           req[h].op \in {"put", "addr"} => row'[h] \in Rows /\ row'[h].by = req[h].nonce
    PROVE  HandlerTypes'
BY DEF TypeOK, HandlerTypes, Goto

LEMMA RestTypes ==
    ASSUME TypeOK, HandlerTypes',
           kv' \in [Keys -> Rows \cup {NoRow}], nonceLog' \subseteq Writes,
           seenNonces' \in [Keys -> SUBSET Nonces],
           clock' \in 1 .. MaxClock, arrived' \in 0 .. MaxRequests,
           crashes' \in 0 .. MaxCrashes, dbErrors' \in 0 .. MaxDbErrors,
           contended' \subseteq Keys, stored' \in [Writes -> Nat]
    PROVE  TypeOK'
BY DEF TypeOK, HandlerTypes

LEMMA TypeStep == TypeOK /\ [AnyNext]_vars => TypeOK'
<1> SUFFICES ASSUME TypeOK, [AnyNext]_vars PROVE TypeOK'
  OBVIOUS
<1> USE DhtAssumption DEF At, Stay, db, ghosts
<1> DEFINE same == /\ kv' \in [Keys -> Rows \cup {NoRow}] /\ nonceLog' \subseteq Writes
                   /\ seenNonces' \in [Keys -> SUBSET Nonces]
                   /\ clock' \in 1 .. MaxClock /\ arrived' \in 0 .. MaxRequests
                   /\ crashes' \in 0 .. MaxCrashes /\ dbErrors' \in 0 .. MaxDbErrors
                   /\ contended' \subseteq Keys /\ stored' \in [Writes -> Nat]
<1>1. ASSUME NEW h \in Handlers, NEW q \in AllRequests, Receive(h, q) PROVE TypeOK'
  <2>1. CASE q.op = "put"
    <3>1. q \in PutReqs
      BY <2>1 DEF AllRequests, AddrReqs, GetReqs
    <3>2. [seq |-> q.seq, exp |-> 0, by |-> q.nonce] \in Rows
      BY <3>1 DEF PutReqs, Rows
    <3>3. HandlerTypes'
      BY <1>1, <2>1, <3>1, <3>2 DEF Receive, Goto, TypeOK, HandlerTypes, LabelsOf, AllRequests,
         Answers
    <3>4. same
      BY <1>1 DEF Receive, TypeOK
    <3> QED
      BY <3>3, <3>4, RestTypes
  <2>2. CASE q.op = "addr"
    <3>1. q \in AddrReqs
      BY <2>2 DEF AllRequests, PutReqs, GetReqs
    <3>2. [seq |-> clock, exp |-> 0, by |-> q.nonce] \in Rows
      BY <3>1 DEF AddrReqs, Rows, TypeOK
    <3>3. HandlerTypes'
      BY <1>1, <2>2, <3>1, <3>2 DEF Receive, Goto, TypeOK, HandlerTypes, LabelsOf, AllRequests,
         Answers
    <3>4. same
      BY <1>1 DEF Receive, TypeOK
    <3> QED
      BY <3>3, <3>4, RestTypes
  <2>3. CASE q.op = "get"
    <3>1. HandlerTypes'
      BY <1>1, <2>3 DEF Receive, Goto, TypeOK, HandlerTypes, LabelsOf, Answers
    <3>2. same
      BY <1>1 DEF Receive, TypeOK
    <3> QED
      BY <3>1, <3>2, RestTypes
  <2> QED
    BY <1>1, <2>1, <2>2, <2>3 DEF Receive
<1>2. ASSUME NEW h \in Handlers, HasKey(h) PROVE TypeOK'
  BY <1>2, WriterFields, GotoTypes, RestTypes DEF HasKey, TypeOK, LabelsOf
<1>3. ASSUME NEW h \in Handlers, CountKeys(h) PROVE TypeOK'
  BY <1>3, WriterFields, GotoTypes, FinishTypes, RestTypes
  DEF CountKeys, TypeOK, LabelsOf, Answers
<1>4. ASSUME NEW h \in Handlers, LimitQueryFails(h) PROVE TypeOK'
  BY <1>4, WriterFields, GotoTypes, RestTypes
  DEF LimitQueryFails, DbError, TypeOK, LabelsOf
<1>5. ASSUME NEW h \in Handlers, CheckNonce(h) PROVE TypeOK'
  BY <1>5, WriterFields, GotoTypes, FinishTypes, RestTypes
  DEF CheckNonce, TypeOK, LabelsOf, Answers
<1>6. ASSUME NEW h \in Handlers, QueryNonce(h) PROVE TypeOK'
  <2> DEFINE new == [row[h] EXCEPT !.exp = clock + Ttl(req[h])]
  <2>1. /\ row[h] \in Rows /\ row[h].by = req[h].nonce /\ req[h].key \in Keys
        /\ req[h].op \in {"put", "addr"} /\ req[h].ttl \in Int
    BY <1>6, WriterFields DEF QueryNonce
  <2>2. clock + Ttl(req[h]) \in Int
    BY <2>1 DEF Ttl, TypeOK
  <2>3. new \in Rows /\ new.by = req[h].nonce
    BY <2>1, <2>2 DEF Rows
  <2>4. same
    BY <1>6, <2>1 DEF QueryNonce, TypeOK
  <2>5. CASE Finish(h, "stale")
    BY <2>4, <2>5, FinishTypes, RestTypes DEF Answers
  <2>6. CASE /\ Goto(h, "seq")
             /\ row' = [row EXCEPT ![h].exp = clock + Ttl(req[h])]
             /\ UNCHANGED <<req, answer>>
    <3>1. row' = [row EXCEPT ![h] = new]
      BY <2>6
    <3> HIDE DEF new
    <3>2. /\ row' \in [Handlers -> Rows \cup {NoRow}]
          /\ \A g \in Handlers : g # h => row'[g] = row[g]
          /\ row'[h] \in Rows /\ row'[h].by = req[h].nonce
      BY <2>3, <3>1 DEF TypeOK
    <3>3. HandlerTypes'
      BY <2>1, <2>6, <3>2, GotoTypes DEF LabelsOf
    <3> QED
      BY <2>4, <3>3, RestTypes
  <2> QED
    BY <1>6, <2>5, <2>6 DEF QueryNonce
<1>7. ASSUME NEW h \in Handlers, QuerySeq(h) PROVE TypeOK'
  BY <1>7, WriterFields, GotoTypes, FinishTypes, RestTypes
  DEF QuerySeq, TypeOK, LabelsOf, Answers
<1>8. ASSUME NEW h \in Handlers, Commit(h) PROVE TypeOK'
  <2>1. HandlerTypes'
    BY <1>8, WriterFields, GotoTypes, FinishTypes
    DEF Commit, AfterCommit, TypeOK, LabelsOf, Answers
  <2>2. req[h].key \in Keys /\ req[h].nonce \in Nonces /\ row[h] \in Rows
    BY <1>8, WriterFields DEF Commit
  <2>3. same
    BY <1>8, <2>2 DEF Commit, TypeOK, Writes
  <2> QED
    BY <2>1, <2>3, RestTypes
<1>9. ASSUME NEW h \in Handlers, Note(h) PROVE TypeOK'
  BY <1>9, WriterFields, FinishTypes, RestTypes DEF Note, TypeOK, Answers
<1>10. ASSUME NEW h \in Handlers, StoreFails(h) PROVE TypeOK'
  BY <1>10, FinishTypes, RestTypes DEF StoreFails, DbError, TypeOK, Answers
<1>11. ASSUME NEW h \in Handlers, Get(h) PROVE TypeOK'
  BY <1>11, FinishTypes, RestTypes DEF Get, TypeOK, Answers
<1>12. CASE Prune
  BY <1>12 DEF Prune, Pruned, TypeOK
<1>13. CASE Tick
  BY <1>13 DEF Tick, TypeOK
<1>14. CASE Restart
  BY <1>14 DEF Restart, TypeOK, LabelsOf, NoReq, Answers
<1>15. CASE UNCHANGED vars
  BY <1>15 DEF vars, TypeOK
<1> QED
  BY <1>1, <1>2, <1>3, <1>4, <1>5, <1>6, <1>7, <1>8, <1>9, <1>10, <1>11, <1>12, <1>13, <1>14, <1>15
  DEF AnyNext, Step, PutSteps, StoreSteps

\* Type correctness of the DHT node; each handler runs only the code of its own
\* request.
THEOREM DhtTypeCorrect == Spec => []TypeOK
BY TypeInit, TypeStep, NextIsAny, PTL DEF Spec

-----------------------------------------------------------------------------
(* Writers                                                                  *)

LEMMA WriteInit == Init => WriteInv
BY DEF Init, WriteInv, RaceInv, ReadInv, LogInv, StoredOnce, Writing

\* Steps that start no write and change neither table.
LEMMA WriteFrame ==
    ASSUME TypeOK, WriteInv, UNCHANGED <<kv, nonceLog, contended, stored>>,
           \A h \in Handlers :
              \/ ~Writing(h)'
              \/ pc'[h] = pc[h] /\ req'[h] = req[h] /\ row'[h] = row[h]
    PROVE  WriteInv'
<1>1. LogInv' /\ StoredOnce'
  BY DEF WriteInv, LogInv, StoredOnce
<1>2. RaceInv' /\ ReadInv'
  BY DEF WriteInv, RaceInv, ReadInv, Writing, WriteOf
<1> QED
  BY <1>1, <1>2 DEF WriteInv

LEMMA FinishIdle ==
    ASSUME TypeOK, NEW h \in Handlers, NEW a, Finish(h, a)
    PROVE  \A g \in Handlers :
              \/ ~Writing(g)'
              \/ pc'[g] = pc[g] /\ req'[g] = req[g] /\ row'[g] = row[g]
BY DEF Finish, Goto, Writing, TypeOK

LEMMA CommitStep ==
    ASSUME TypeOK, WriteInv, NEW h \in Handlers, Commit(h)
    PROVE  WriteInv'
<1> DEFINE k == req[h].key
           w == WriteOf(h)
<1>1. /\ k \in Keys /\ w \in Writes /\ pc[h] = "commit"
      /\ row[h] \in Rows
  BY WriterFields DEF Commit, At, WriteOf, Writes
<1>2. /\ kv' = [kv EXCEPT ![k] = row[h]]
      /\ nonceLog' = nonceLog \cup {w}
      /\ stored' = [stored EXCEPT ![w] = @ + 1]
      /\ contended' = contended
  BY DEF Commit, WriteOf
<1>3. \A g \in Handlers :
         \/ ~Writing(g)'
         \/ g # h /\ pc'[g] = pc[g] /\ req'[g] = req[g] /\ row'[g] = row[g]
  BY DEF Commit, AfterCommit, Finish, Goto, Writing, TypeOK
<1>4. RaceInv'
  BY <1>2, <1>3 DEF WriteInv, RaceInv, Writing
<1>5. ReadInv'
  <2> SUFFICES ASSUME NEW g \in Handlers, req'[g].key \notin contended'
               PROVE  /\ Writing(g)' => WriteOf(g)' \notin nonceLog'
                      /\ pc'[g] = "commit" =>
                            \/ kv'[req'[g].key] = NoRow
                            \/ kv'[req'[g].key].seq < row'[g].seq
    BY DEF ReadInv
  <2>1. CASE ~Writing(g)'
    BY <2>1 DEF Writing
  <2>2. CASE g # h /\ pc'[g] = pc[g] /\ req'[g] = req[g] /\ row'[g] = row[g] /\ Writing(g)'
    <3>1. Writing(g) /\ Writing(h) /\ req[g].key \notin contended
      BY <1>1, <1>2, <2>2 DEF Writing
    <3>2. req[g].key # k
      BY <2>2, <3>1 DEF WriteInv, RaceInv
    <3>3. WriteOf(g)' = WriteOf(g) /\ WriteOf(g) # w
      BY <2>2, <3>2 DEF WriteOf
    <3>4. req[g].key \in Keys
      BY <3>1, WriterFields DEF Writing
    <3>5. kv'[req[g].key] = kv[req[g].key]
      BY <1>2, <3>2, <3>4 DEF TypeOK
    <3> QED
      BY <1>2, <2>2, <3>1, <3>3, <3>5 DEF WriteInv, ReadInv
  <2> QED
    BY <1>3, <2>1, <2>2
<1>6. LogInv'
  BY <1>1, <1>2 DEF WriteInv, LogInv, TypeOK
<1>7. StoredOnce'
  <2> SUFFICES ASSUME NEW v \in Writes, stored'[v] >= 2, v[1] \notin contended
               PROVE  FALSE
    BY <1>2 DEF StoredOnce
  <2>1. CASE v = w
    <3>1. stored[w] >= 1
      BY <1>1, <1>2, <2>1 DEF TypeOK
    <3>2. w \in nonceLog
      BY <1>1, <3>1 DEF WriteInv, LogInv
    <3>3. w[1] = k
      BY DEF WriteOf
    <3> QED
      BY <1>1, <2>1, <3>2, <3>3 DEF WriteInv, ReadInv, Writing
  <2>2. CASE v # w
    BY <1>1, <1>2, <2>2 DEF WriteInv, StoredOnce, TypeOK
  <2> QED
    BY <2>1, <2>2
<1> QED
  BY <1>4, <1>5, <1>6, <1>7 DEF WriteInv

LEMMA QueryNonceStep ==
    ASSUME TypeOK, WriteInv, NEW h \in Handlers, QueryNonce(h)
    PROVE  WriteInv'
<1> DEFINE k == req[h].key
<1>0. k \in Keys /\ UNCHANGED <<kv, nonceLog, stored>>
  BY WriterFields DEF QueryNonce, At, db
<1>1. CASE Finish(h, "stale") /\ UNCHANGED contended
  BY <1>0, <1>1, FinishIdle, WriteFrame
<1>2. CASE /\ WriteOf(h) \notin nonceLog
           /\ Goto(h, "seq")
           /\ row' = [row EXCEPT ![h].exp = clock + Ttl(req[h])]
           /\ contended' =
                IF \E g \in Handlers \ {h} : Writing(g) /\ req[g].key = k
                THEN contended \cup {k} ELSE contended
           /\ UNCHANGED <<req, answer>>
  <2>1. \A g \in Handlers : g # h => pc'[g] = pc[g] /\ row'[g] = row[g]
    BY <1>2 DEF Goto, TypeOK
  <2>2. pc'[h] = "seq" /\ contended \subseteq contended' /\ req' = req
    BY <1>2 DEF Goto, TypeOK
  <2>3. RaceInv'
    BY <1>2, <2>1, <2>2 DEF WriteInv, RaceInv, Writing
  <2>4. ReadInv'
    BY <1>0, <1>2, <2>1, <2>2 DEF WriteInv, ReadInv, Writing, WriteOf
  <2>5. LogInv' /\ StoredOnce'
    BY <1>0, <2>2 DEF WriteInv, LogInv, StoredOnce
  <2> QED
    BY <2>3, <2>4, <2>5 DEF WriteInv
<1> QED
  BY <1>1, <1>2 DEF QueryNonce, WriteOf

LEMMA QuerySeqStep ==
    ASSUME TypeOK, WriteInv, NEW h \in Handlers, QuerySeq(h)
    PROVE  WriteInv'
<1> DEFINE k == req[h].key
<1>0. /\ k \in Keys /\ row[h] \in Rows /\ pc[h] = "seq"
      /\ UNCHANGED <<kv, nonceLog, contended, stored>>
  BY WriterFields DEF QuerySeq, At, db, ghosts
<1>1. CASE Finish(h, "stale")
  BY <1>0, <1>1, FinishIdle, WriteFrame
<1>2. CASE /\ ~(kv[k] # NoRow /\ kv[k].seq >= row[h].seq)
           /\ Goto(h, "commit")
           /\ UNCHANGED <<req, row, answer>>
  <2>1. \A g \in Handlers : pc'[g] = IF g = h THEN "commit" ELSE pc[g]
    BY <1>2 DEF Goto, TypeOK
  <2>2. kv[k] = NoRow \/ kv[k].seq < row[h].seq
    BY <1>0, <1>2 DEF TypeOK, Rows
  <2>3. RaceInv'
    BY <1>0, <1>2, <2>1 DEF WriteInv, RaceInv, Writing
  <2>4. ReadInv'
    BY <1>0, <1>2, <2>1, <2>2 DEF WriteInv, ReadInv, Writing, WriteOf
  <2>5. LogInv' /\ StoredOnce'
    BY <1>0 DEF WriteInv, LogInv, StoredOnce
  <2> QED
    BY <2>3, <2>4, <2>5 DEF WriteInv
<1> QED
  BY <1>1, <1>2 DEF QuerySeq

LEMMA WriteStep ==
    ASSUME TypeOK, WriteInv, [AnyNext]_vars
    PROVE  WriteInv'
<1> USE DEF db, ghosts
<1>1. ASSUME NEW h \in Handlers, NEW q \in AllRequests, Receive(h, q) PROVE WriteInv'
  BY <1>1, WriteFrame DEF Receive, Goto, Writing, TypeOK
<1>2. ASSUME NEW h \in Handlers, HasKey(h) PROVE WriteInv'
  BY <1>2, WriteFrame DEF HasKey, Goto, Writing, TypeOK
<1>3. ASSUME NEW h \in Handlers, CountKeys(h) PROVE WriteInv'
  BY <1>3, WriteFrame, FinishIdle DEF CountKeys, Goto, Writing, TypeOK
<1>4. ASSUME NEW h \in Handlers, LimitQueryFails(h) PROVE WriteInv'
  BY <1>4, WriteFrame DEF LimitQueryFails, Goto, Writing, TypeOK
<1>5. ASSUME NEW h \in Handlers, CheckNonce(h) PROVE WriteInv'
  BY <1>5, WriteFrame, FinishIdle DEF CheckNonce, Goto, Writing, TypeOK
<1>6. ASSUME NEW h \in Handlers, QueryNonce(h) PROVE WriteInv'
  BY <1>6, QueryNonceStep
<1>7. ASSUME NEW h \in Handlers, QuerySeq(h) PROVE WriteInv'
  BY <1>7, QuerySeqStep
<1>8. ASSUME NEW h \in Handlers, Commit(h) PROVE WriteInv'
  BY <1>8, CommitStep
<1>9. ASSUME NEW h \in Handlers, Note(h) PROVE WriteInv'
  BY <1>9, WriteFrame, FinishIdle DEF Note
<1>10. ASSUME NEW h \in Handlers, StoreFails(h) PROVE WriteInv'
  BY <1>10, WriteFrame, FinishIdle DEF StoreFails
<1>11. ASSUME NEW h \in Handlers, Get(h) PROVE WriteInv'
  BY <1>11, WriteFrame, FinishIdle DEF Get
<1>12. CASE Prune
  BY <1>12, WriteFrame DEF Prune
<1>13. CASE Tick
  BY <1>13, WriteFrame DEF Tick
<1>14. CASE Restart
  BY <1>14, WriteFrame DEF Restart, Writing
<1>15. CASE UNCHANGED vars
  BY <1>15, WriteFrame DEF vars
<1> QED
  BY <1>1, <1>2, <1>3, <1>4, <1>5, <1>6, <1>7, <1>8, <1>9, <1>10, <1>11, <1>12, <1>13, <1>14, <1>15
  DEF AnyNext, Step, PutSteps, StoreSteps

LEMMA WriteInvariant == Spec => []WriteInv
<1>1. TypeOK /\ WriteInv /\ [Next]_vars => WriteInv'
  BY WriteStep, NextIsAny
<1> QED
  BY <1>1, WriteInit, DhtTypeCorrect, PTL DEF Spec

\* nonce_log makes a write happen once, through restarts and redeliveries, unless
\* two handlers of the key were inside DhtStore::put together.
THEOREM StoredAtMostOnce == Spec => []StoredOnce
<1>1. WriteInv => StoredOnce
  BY DEF WriteInv
<1> QED
  BY <1>1, WriteInvariant, PTL

-----------------------------------------------------------------------------
(* Sequence numbers                                                         *)

\* Only a commit changes a row.
LEMMA RowChange ==
    ASSUME [AnyNext]_vars, kv' # kv
    PROVE  \E h \in Handlers : Commit(h)
BY DEF AnyNext, Step, PutSteps, StoreSteps, Receive, HasKey, CountKeys, LimitQueryFails,
   CheckNonce, QueryNonce, QuerySeq, Note, StoreFails, Get, Prune, Tick, Restart, vars, db

\* The seq of a key that no two handlers were writing at once only grows.
THEOREM SeqMonotone == Spec => SeqGrows
<1> DEFINE Grow == \A k \in Keys :
                      kv'[k] # kv[k] /\ kv[k] # NoRow /\ k \notin contended'
                        => kv'[k].seq > kv[k].seq
<1>1. TypeOK /\ WriteInv /\ [Next]_vars => [Grow]_vars
  <2> SUFFICES ASSUME TypeOK, WriteInv, [Next]_vars, NEW k \in Keys,
                      kv'[k] # kv[k], kv[k] # NoRow, k \notin contended'
               PROVE  kv'[k].seq > kv[k].seq
    OBVIOUS
  <2>1. PICK h \in Handlers : Commit(h)
    BY RowChange, NextIsAny
  <2>2. /\ kv' = [kv EXCEPT ![req[h].key] = row[h]]
        /\ contended' = contended /\ pc[h] = "commit"
    BY <2>1 DEF Commit, At
  <2>3. k = req[h].key /\ kv'[k] = row[h]
    BY <2>2 DEF TypeOK
  <2>4. row[h] \in Rows
    BY <2>2, WriterFields
  <2> QED
    BY <2>2, <2>3, <2>4 DEF WriteInv, ReadInv, TypeOK, Rows
<1>2. SeqGrows <=> [][Grow]_vars
  BY DEF SeqGrows
<1> QED
  BY <1>1, <1>2, DhtTypeCorrect, WriteInvariant, PTL DEF Spec

-----------------------------------------------------------------------------
(* The in-memory nonces                                                     *)

LEMMA SeenFrame ==
    ASSUME TypeOK, SeenInv, nonceLog \subseteq nonceLog',
           \A k \in Keys : seenNonces'[k] \subseteq seenNonces[k],
           \A h \in Handlers : pc'[h] = "note" =>
              pc[h] = "note" /\ req'[h] = req[h]
    PROVE  SeenInv'
BY DEF SeenInv, SeenLogged, WriteOf

LEMMA SeenStep ==
    ASSUME TypeOK, SeenInv, [AnyNext]_vars
    PROVE  SeenInv'
<1> USE DEF db, ghosts, At
<1>1. ASSUME NEW h \in Handlers, NEW q \in AllRequests, Receive(h, q) PROVE SeenInv'
  BY <1>1, SeenFrame DEF Receive, Goto, TypeOK
<1>2. ASSUME NEW h \in Handlers, PutSteps(h) PROVE SeenInv'
  BY <1>2, SeenFrame
  DEF PutSteps, HasKey, CountKeys, LimitQueryFails, CheckNonce, Finish, Goto, TypeOK
<1>3. ASSUME NEW h \in Handlers, QueryNonce(h) \/ QuerySeq(h) \/ StoreFails(h) \/ Get(h)
      PROVE  SeenInv'
  BY <1>3, SeenFrame DEF QueryNonce, QuerySeq, StoreFails, Get, Finish, Goto, TypeOK
<1>4. ASSUME NEW h \in Handlers, Commit(h) PROVE SeenInv'
  <2>1. nonceLog' = nonceLog \cup {WriteOf(h)} /\ seenNonces' = seenNonces
    BY <1>4 DEF Commit, WriteOf
  <2>2. \A g \in Handlers : pc'[g] = "note" =>
           req'[g] = req[g] /\ (g = h \/ pc[g] = "note")
    BY <1>4 DEF Commit, AfterCommit, Finish, Goto, TypeOK
  <2> QED
    BY <2>1, <2>2 DEF SeenInv, SeenLogged, WriteOf
<1>5. ASSUME NEW h \in Handlers, Note(h) PROVE SeenInv'
  <2>1. /\ seenNonces' = [seenNonces EXCEPT ![req[h].key] = @ \cup {req[h].nonce}]
        /\ nonceLog' = nonceLog /\ WriteOf(h) \in nonceLog
    BY <1>5 DEF Note, SeenInv
  <2>2. \A g \in Handlers : pc'[g] = "note" => pc[g] = "note" /\ req'[g] = req[g]
    BY <1>5 DEF Note, Finish, Goto, TypeOK
  <2>3. SeenLogged'
    BY <2>1 DEF SeenInv, SeenLogged, WriteOf, TypeOK
  <2> QED
    BY <2>1, <2>2, <2>3 DEF SeenInv, WriteOf
<1>6. CASE Prune
  BY <1>6, SeenFrame DEF Prune, Pruned
<1>7. CASE Tick
  BY <1>7, SeenFrame DEF Tick
<1>8. CASE Restart
  BY <1>8, SeenFrame DEF Restart
<1>9. CASE UNCHANGED vars
  BY <1>9, SeenFrame DEF vars
<1> QED
  BY <1>1, <1>2, <1>3, <1>4, <1>5, <1>6, <1>7, <1>8, <1>9 DEF AnyNext, Step, StoreSteps

\* Whatever nonce seen_nonces holds has been committed, so the check of handle_put
\* only repeats the one DhtStore::put makes.
THEOREM SeenIsLogged == Spec => []SeenLogged
<1>1. Init => SeenInv
  BY DEF Init, SeenInv, SeenLogged
<1>2. TypeOK /\ SeenInv /\ [Next]_vars => SeenInv'
  BY SeenStep, NextIsAny
<1>3. SeenInv => SeenLogged
  BY DEF SeenInv
<1> QED
  BY <1>1, <1>2, <1>3, DhtTypeCorrect, PTL DEF Spec

-----------------------------------------------------------------------------
(* Refinement                                                               *)

\* Only a commit writes nonce_log.
LEMMA LogChange ==
    ASSUME [AnyNext]_vars, nonceLog' # nonceLog
    PROVE  \E h \in Handlers : Commit(h)
BY DEF AnyNext, Step, PutSteps, StoreSteps, Receive, HasKey, CountKeys, LimitQueryFails,
   CheckNonce, QueryNonce, QuerySeq, Note, StoreFails, Get, Prune, Tick, Restart, vars, db

\* Only DhtStore::put's first query notes that two handlers meet, at the key of its
\* request; it writes neither table.
LEMMA MeetChange ==
    ASSUME TypeOK, [AnyNext]_vars, contended' # contended
    PROVE  \E k \in Keys : Register!Meet(k)
<1>1. PICK h \in Handlers : QueryNonce(h)
  BY DEF AnyNext, Step, PutSteps, StoreSteps, Receive, HasKey, CountKeys, LimitQueryFails,
     CheckNonce, QuerySeq, Commit, Note, StoreFails, Get, Prune, Tick, Restart, vars, ghosts
<1>2. req[h].key \in Keys /\ UNCHANGED <<kv, nonceLog>>
  BY <1>1, WriterFields DEF QueryNonce, At, db
<1>3. contended' = contended \cup {req[h].key}
  BY <1>1 DEF QueryNonce
<1> QED
  BY <1>2, <1>3 DEF Register!Meet

\* A commit is a write of the register, an overwrite if two handlers have met at its
\* key; every other step of the node is a meeting or a stutter.
LEMMA RegisterStep ==
    ASSUME TypeOK, WriteInv, [AnyNext]_vars
    PROVE  [Register!Next]_<<kv, nonceLog, contended>>
<1>1. CASE contended' # contended
  BY <1>1, MeetChange DEF Register!Next
<1>2. CASE ~UNCHANGED <<kv, nonceLog>>
  <2>1. PICK h \in Handlers : Commit(h)
    BY <1>2, RowChange, LogChange
  <2>2. /\ kv' = [kv EXCEPT ![req[h].key] = row[h]]
        /\ nonceLog' = nonceLog \cup {WriteOf(h)}
        /\ pc[h] = "commit" /\ contended' = contended
    BY <2>1 DEF Commit, At, WriteOf
  <2>3. req[h].key \in Keys /\ row[h] \in Rows /\ row[h].by = req[h].nonce
    BY <2>2, WriterFields
  <2>4. kv'[req[h].key] = row[h] /\ WriteOf(h) = <<req[h].key, row[h].by>>
    BY <2>2, <2>3 DEF TypeOK, WriteOf
  <2>5. row[h] \in Register!Rows
    BY <2>3 DEF Rows, Register!Rows
  <2>6. CASE req[h].key \notin contended
    <3>1. /\ WriteOf(h) \notin nonceLog
          /\ kv[req[h].key] # NoRow => row[h].seq > kv[req[h].key].seq
      BY <2>2, <2>3, <2>6 DEF WriteInv, ReadInv, Writing, TypeOK, Rows
    <3>2. Register!Write(req[h].key)
      BY <2>2, <2>4, <2>5, <3>1 DEF Register!Write
    <3> QED
      BY <2>3, <3>2 DEF Register!Next
  <2>7. CASE req[h].key \in contended
    <3>1. Register!Overwrite(req[h].key)
      BY <2>2, <2>4, <2>5, <2>7 DEF Register!Overwrite
    <3> QED
      BY <2>3, <3>1 DEF Register!Next
  <2> QED
    BY <2>6, <2>7
<1>3. CASE UNCHANGED <<kv, nonceLog, contended>>
  BY <1>3
<1> QED
  BY <1>1, <1>2, <1>3

LEMMA RegisterInit == Init => Register!Init
BY DEF Init, Register!Init

\* With any number of connections at work the node implements the versioned
\* register: a transaction of DhtStore::put is a write with a greater seq and a new
\* nonce, unless two handlers have met at that key, and touches no other key.
THEOREM NodeRefinesRegister == Spec => ImplementsRegister
<1>1. TypeOK /\ WriteInv /\ [Next]_vars => [Register!Next]_<<kv, nonceLog, contended>>
  BY RegisterStep, NextIsAny
<1>2. ImplementsRegister
        <=> Register!Init /\ [][Register!Next]_<<kv, nonceLog, contended>>
  BY DEF ImplementsRegister, Register!Spec
<1> QED
  BY <1>1, <1>2, RegisterInit, DhtTypeCorrect, WriteInvariant, PTL DEF Spec

-----------------------------------------------------------------------------
(* Registration                                                             *)

\* The put that dht_register sends when its solver finds n.
PutOf(n) == [op |-> "put", key |-> Owner, seq |-> seq, nonce |-> n,
             ttl |-> StoreTTL, valid |-> TRUE]

BeforeCommit == {"haskey", "count", "nonce", "log", "seq", "commit"}

\* This call of dht_register has chosen its seq and has not been committed.
Pending ==
    \/ client = "solving"
    \/ client = "putting" /\ pc[Conn] \in BeforeCommit

ClientTypes ==
    /\ client \in {"rest", "asking", "solving", "putting"}
    /\ seq \in Nat /\ seq <= clock
    /\ attempts \in 0 .. MaxAttempts

\* What the client waits for is what its connection's handler works on; a record it
\* was told of is still there when it reads the answer.
ConnInv ==
    /\ client \in {"rest", "solving"} => pc[Conn] = "idle"
    /\ client = "asking" =>
          \/ pc[Conn] = "get" /\ req[Conn].key = Owner
          \/ pc[Conn] = "idle" /\ (answer[Conn] = "found" => kv[Owner] # NoRow)
    /\ client = "putting" =>
          \/ /\ pc[Conn] \in BeforeCommit \cup {"note"}
             /\ \E n \in Nonces : req[Conn] = PutOf(n)
             /\ row[Conn].seq = seq
          \/ pc[Conn] = "idle"

\* Rows are not ahead of the clock, a nonce that was new when it was sent is still
\* new, and a seq chosen in the knowledge of the row is not behind it.
OwnRowInv ==
    /\ kv[Owner] # NoRow => kv[Owner].seq <= clock
    /\ client = "putting" /\ pc[Conn] \in BeforeCommit /\ ~reused
          => <<Owner, req[Conn].nonce>> \notin nonceLog
    /\ Pending /\ ~lapsed /\ kv[Owner] # NoRow => seq > 0 /\ kv[Owner].seq <= seq

Excused == lapsed \/ reused \/ (seq > 0 /\ kv[Owner].seq = seq)

\* A refusal on its way to the client is excused too.
RefusalInv ==
    /\ client # "rest" => result = "none"
    /\ client = "putting" /\ pc[Conn] = "idle" /\ answer[Conn] = "stale" => Excused
    /\ RefusedOnlyAfterLapse

RegInv == ClientTypes /\ ConnInv /\ OwnRowInv /\ RefusalInv

\* Every step of RegNext is a step of the node or leaves it alone.
LEMMA RegIsAny ==
    ASSUME TypeOK, ClientTypes, [RegNext]_allVars
    PROVE  [AnyNext]_vars
<1> USE DhtAssumption, RegistrationAssumption
<1>1. CASE Ask
  <2>1. [op |-> "get", key |-> Owner] \in AllRequests
    BY DEF AllRequests, GetReqs
  <2> QED
    BY <1>1, <2>1 DEF Ask, AnyNext
<1>2. CASE Submit
  <2>1. PICK n \in Nonces : Receive(Conn, PutOf(n))
    BY <1>2 DEF Submit, PutOf
  <2>2. PutOf(n) \in AllRequests
    BY DEF PutOf, AllRequests, PutReqs, ClientTypes
  <2> QED
    BY <2>1, <2>2 DEF AnyNext
<1>3. CASE Learn \/ GiveUp \/ Conclude
  BY <1>3 DEF Learn, GiveUp, Conclude
<1>4. CASE Disconnect
  BY <1>4 DEF Disconnect, AnyNext
<1>5. CASE NodeStep
  BY <1>5 DEF NodeStep, AnyNext
<1>6. CASE UNCHANGED allVars
  BY <1>6 DEF allVars
<1> QED
  BY <1>1, <1>2, <1>3, <1>4, <1>5, <1>6 DEF RegNext

LEMMA RegInitInv == RegInit => RegInv
<1> SUFFICES ASSUME RegInit PROVE RegInv
  OBVIOUS
<1>1. kv[Owner] = NoRow /\ pc[Conn] = "idle" /\ nonceLog = {} /\ clock = 1
  BY RegistrationAssumption DEF RegInit, Init
<1>2. /\ client = "rest" /\ seq = 0 /\ attempts = 0 /\ result = "none"
      /\ lapsed = FALSE /\ reused = FALSE
  BY DEF RegInit
<1>3. ClientTypes
  BY <1>1, <1>2, RegistrationAssumption DEF ClientTypes
<1>4. ConnInv /\ OwnRowInv /\ RefusalInv
  BY <1>1, <1>2 DEF ConnInv, OwnRowInv, RefusalInv, Pending, RefusedOnlyAfterLapse
<1> QED
  BY <1>3, <1>4 DEF RegInv

\* What a step of the client's handler does to what the client depends on.
LEMMA AskedStep ==
    ASSUME TypeOK, RegInv, client = "asking", Step(Conn), UNCHANGED clientVars
    PROVE  RegInv'
<1> USE RegistrationAssumption DEF At, Stay, db, ghosts, clientVars, observations
<1>1. pc[Conn] = "get" /\ req[Conn].key = Owner
  BY DEF RegInv, ConnInv, Step, PutSteps, StoreSteps, HasKey, CountKeys, LimitQueryFails,
     CheckNonce, QueryNonce, QuerySeq, Commit, StoreFails, Note, Get
<1>2. /\ UNCHANGED <<kv, nonceLog, clock>> /\ pc'[Conn] = "idle"
      /\ answer'[Conn] = "found" => kv[Owner] # NoRow
  BY <1>1 DEF Step, PutSteps, StoreSteps, HasKey, CountKeys, LimitQueryFails,
     CheckNonce, QueryNonce, QuerySeq, Commit, StoreFails, Note, Get, Finish, Goto, TypeOK, Live
<1> QED
  BY <1>2 DEF RegInv, ClientTypes, ConnInv, OwnRowInv, RefusalInv, Excused, Pending,
     RefusedOnlyAfterLapse

LEMMA PutFrame ==
    ASSUME TypeOK, RegInv, client = "putting", UNCHANGED clientVars,
           pc[Conn] \in BeforeCommit \cup {"note"},
           UNCHANGED <<kv, nonceLog, clock>>,
           \/ /\ pc'[Conn] = "idle"
              /\ answer'[Conn] = "stale" => Excused
           \/ /\ pc[Conn] \in BeforeCommit /\ pc'[Conn] \in BeforeCommit
              /\ req'[Conn] = req[Conn] /\ row'[Conn].seq = row[Conn].seq
    PROVE  RegInv'
BY DEF RegInv, ClientTypes, ConnInv, OwnRowInv, RefusalInv, Excused, Pending, PutOf,
   RefusedOnlyAfterLapse, BeforeCommit, clientVars, observations

LEMMA PuttingStep ==
    ASSUME TypeOK, RegInv, client = "putting", Step(Conn), UNCHANGED clientVars
    PROVE  RegInv'
<1> USE RegistrationAssumption DEF At, Stay, db, ghosts
<1>1. /\ pc[Conn] \in BeforeCommit \cup {"note"}
      /\ \E n \in Nonces : req[Conn] = PutOf(n)
      /\ row[Conn].seq = seq /\ row[Conn] \in Rows
  <2>1. pc[Conn] # "idle"
    BY DEF Step, PutSteps, StoreSteps, HasKey, CountKeys, LimitQueryFails,
       CheckNonce, QueryNonce, QuerySeq, Commit, StoreFails, Note, Get
  <2>2. /\ pc[Conn] \in BeforeCommit \cup {"note"}
        /\ \E n \in Nonces : req[Conn] = PutOf(n)
        /\ row[Conn].seq = seq
    BY <2>1 DEF RegInv, ConnInv
  <2> QED
    BY <2>2, WriterFields DEF BeforeCommit
<1>2. req[Conn].key = Owner /\ req[Conn].op = "put"
  BY <1>1 DEF PutOf
<1>3. CASE PutSteps(Conn) \/ StoreFails(Conn)
  BY <1>1, <1>3, PutFrame
  DEF PutSteps, HasKey, CountKeys, LimitQueryFails, CheckNonce, StoreFails, Finish, Goto,
      BeforeCommit, TypeOK
<1>4. CASE QueryNonce(Conn)
  <2>1. pc[Conn] = "log" /\ UNCHANGED <<kv, nonceLog, clock>>
    BY <1>4 DEF QueryNonce
  <2>2. CASE <<Owner, req[Conn].nonce>> \in nonceLog
    <3>1. Excused
      BY <2>1, <2>2 DEF RegInv, OwnRowInv, BeforeCommit, Excused
    <3>2. pc'[Conn] = "idle"
      BY <1>2, <1>4, <2>2 DEF QueryNonce, Finish, Goto, TypeOK
    <3> QED
      BY <1>1, <2>1, <3>1, <3>2, PutFrame
  <2>3. CASE <<Owner, req[Conn].nonce>> \notin nonceLog
    <3>1. /\ pc'[Conn] = "seq" /\ req' = req
          /\ row' = [row EXCEPT ![Conn].exp = clock + Ttl(req[Conn])]
      BY <1>2, <1>4, <2>3 DEF QueryNonce, Goto, TypeOK
    <3>2. row'[Conn].seq = row[Conn].seq
      BY <1>1, <3>1 DEF TypeOK, Rows
    <3> QED
      BY <1>1, <2>1, <3>1, <3>2, PutFrame DEF BeforeCommit
  <2> QED
    BY <2>2, <2>3
<1>5. CASE QuerySeq(Conn)
  <2>1. pc[Conn] = "seq" /\ UNCHANGED <<kv, nonceLog, clock>>
    BY <1>5 DEF QuerySeq
  <2>2. CASE kv[Owner] # NoRow /\ kv[Owner].seq >= row[Conn].seq
    <3>1. Excused
      BY <1>1, <2>1, <2>2 DEF RegInv, OwnRowInv, Pending, BeforeCommit, Excused, TypeOK, Rows, ClientTypes
    <3>2. pc'[Conn] = "idle"
      BY <1>2, <1>5, <2>2 DEF QuerySeq, Finish, Goto, TypeOK
    <3> QED
      BY <1>1, <2>1, <3>1, <3>2, PutFrame
  <2>3. CASE ~(kv[Owner] # NoRow /\ kv[Owner].seq >= row[Conn].seq)
    <3>1. pc'[Conn] = "commit" /\ UNCHANGED <<req, row>>
      BY <1>2, <1>5, <2>3 DEF QuerySeq, Goto, TypeOK
    <3> QED
      BY <1>1, <2>1, <3>1, PutFrame DEF BeforeCommit
  <2> QED
    BY <2>2, <2>3
<1>6. CASE Commit(Conn)
  <2>1. /\ kv' = [kv EXCEPT ![Owner] = row[Conn]]
        /\ pc'[Conn] = "note" /\ UNCHANGED <<req, row, answer, clock>>
    BY <1>2, <1>6 DEF Commit, AfterCommit, Goto, TypeOK
  <2>2. kv'[Owner] = row[Conn]
    BY <2>1 DEF TypeOK
  <2>3. UNCHANGED <<client, seq, attempts, result, lapsed, reused>>
    BY DEF clientVars, observations
  <2>4. ClientTypes' /\ ConnInv'
    BY <1>1, <2>1, <2>3 DEF RegInv, ClientTypes, ConnInv, PutOf
  <2>5. OwnRowInv'
    <3>1. ~Pending' /\ ~(pc'[Conn] \in BeforeCommit)
      BY <2>1, <2>3 DEF Pending, BeforeCommit
    <3>2. kv'[Owner].seq <= clock
      BY <1>1, <2>2 DEF RegInv, ClientTypes
    <3> QED
      BY <2>1, <2>3, <3>1, <3>2 DEF OwnRowInv
  <2>6. RefusalInv'
    BY <2>1, <2>3 DEF RegInv, RefusalInv, RefusedOnlyAfterLapse
  <2> QED
    BY <2>4, <2>5, <2>6 DEF RegInv
<1>7. CASE Note(Conn)
  BY <1>1, <1>7, PutFrame DEF Note, Finish, Goto, TypeOK
<1>8. ~Get(Conn)
  BY <1>1 DEF Get, BeforeCommit
<1> QED
  BY <1>3, <1>4, <1>5, <1>6, <1>7, <1>8 DEF Step, StoreSteps

LEMMA RegStep ==
    ASSUME TypeOK, RegInv, [RegNext]_allVars
    PROVE  RegInv'
<1> USE RegistrationAssumption DEF db, ghosts
<1> USE DEF RegInv, ClientTypes, ConnInv, OwnRowInv, RefusalInv, Excused, Pending,
        RefusedOnlyAfterLapse
<1>1. CASE Ask
  <2>1. /\ pc'[Conn] = "get" /\ req'[Conn].key = Owner
        /\ UNCHANGED <<kv, nonceLog, clock>>
    BY <1>1 DEF Ask, Receive, Goto, TypeOK
  <2>2. ClientTypes'
    BY <1>1, <2>1 DEF Ask
  <2>3. ConnInv'
    BY <1>1, <2>1 DEF Ask
  <2>4. OwnRowInv'
    BY <1>1, <2>1 DEF Ask
  <2>5. RefusalInv'
    BY <1>1 DEF Ask
  <2> QED
    BY <2>2, <2>3, <2>4, <2>5
<1>2. CASE Learn
  <2>1. /\ client = "asking" /\ client' = "solving" /\ pc[Conn] = "idle"
        /\ seq' = IF answer[Conn] = "found" THEN clock ELSE 0
        /\ lapsed' = (answer[Conn] # "found" /\ kv[Owner] # NoRow)
        /\ UNCHANGED <<kv, nonceLog, clock, pc, req, row, answer, attempts, result, reused>>
    BY <1>2 DEF Learn, SeqFor, At, vars
  <2>2. clock \in Nat \ {0}
    BY DEF TypeOK
  <2>3. ClientTypes'
    <3>1. client' = "solving" /\ attempts' = attempts /\ clock' = clock
      BY <2>1
    <3>2. seq' \in Nat /\ seq' <= clock
      BY <2>1, <2>2
    <3>3. attempts \in 0 .. MaxAttempts
      BY <2>1
    <3> HIDE DEF RegInv, ConnInv, OwnRowInv, RefusalInv
    <3> QED
      BY <3>1, <3>2, <3>3
  <2>4. ConnInv'
    BY <2>1
  <2>5. OwnRowInv'
    <3>1. ~lapsed' /\ kv[Owner] # NoRow => seq' = clock
      BY <2>1
    <3>2. /\ client' = "solving" /\ client = "asking"
          /\ UNCHANGED <<kv, nonceLog, clock, attempts>>
      BY <2>1
    <3> QED
      BY <2>2, <3>1, <3>2
  <2>6. RefusalInv'
    BY <2>1
  <2> QED
    BY <2>3, <2>4, <2>5, <2>6
<1>3. CASE Submit
  <2>1. PICK n \in Nonces : /\ Receive(Conn, PutOf(n))
                            /\ reused' = (<<Owner, n>> \in nonceLog)
    BY <1>3 DEF Submit, PutOf
  <2>2. /\ client = "solving" /\ client' = "putting"
        /\ UNCHANGED <<seq, attempts, result, lapsed>>
    BY <1>3 DEF Submit
  <2>3. /\ pc'[Conn] = "haskey" /\ req'[Conn] = PutOf(n) /\ row'[Conn].seq = seq
        /\ UNCHANGED <<kv, nonceLog, clock>>
    BY <2>1 DEF Receive, Goto, TypeOK, PutOf
  <2>4. req'[Conn].nonce = n /\ PutOf(n)' = PutOf(n)
    BY <2>2, <2>3 DEF PutOf
  <2>5. ClientTypes' /\ RefusalInv'
    BY <2>2, <2>3
  <2>6. ConnInv'
    BY <2>2, <2>3, <2>4 DEF BeforeCommit
  <2>7. OwnRowInv'
    BY <2>1, <2>2, <2>3, <2>4 DEF BeforeCommit
  <2> QED
    BY <2>5, <2>6, <2>7
<1>4. CASE Conclude \/ GiveUp
  BY <1>4 DEF Conclude, GiveUp, At, vars, observations
<1>5. CASE Disconnect
  <2>1. pc'[Conn] = "idle" /\ UNCHANGED <<kv, nonceLog, clock>>
    BY <1>5 DEF Disconnect, Restart
  <2> QED
    BY <1>5, <2>1 DEF Disconnect, observations
<1>6. CASE NodeStep
  <2>1. UNCHANGED <<client, seq, attempts, result, lapsed, reused>>
    BY <1>6 DEF NodeStep, clientVars, observations
  <2>2. CASE Step(Conn)
    <3>1. client \in {"asking", "putting"}
      BY <2>2 DEF Step, PutSteps, StoreSteps, HasKey, CountKeys, LimitQueryFails,
         CheckNonce, QueryNonce, QuerySeq, Commit, StoreFails, Note, Get, At
    <3> QED
      BY <1>6, <2>2, <3>1, AskedStep, PuttingStep DEF NodeStep
  <2>3. CASE Prune
    BY <2>1, <2>3 DEF Prune, Stay, PutOf
  <2>4. CASE Tick
    <3>1. /\ clock' = clock + 1 /\ clock \in Nat
          /\ UNCHANGED <<kv, nonceLog, pc, req, row, answer>>
      BY <2>4 DEF Tick, TypeOK
    <3>2. kv[Owner] # NoRow => kv[Owner].seq \in Nat
      BY DEF TypeOK, Rows
    <3> QED
      BY <2>1, <3>1, <3>2 DEF PutOf
  <2> QED
    BY <1>6, <2>2, <2>3, <2>4 DEF NodeStep
<1>7. CASE UNCHANGED allVars
  BY <1>7 DEF allVars, vars, clientVars, observations, PutOf
<1> QED
  BY <1>1, <1>2, <1>3, <1>4, <1>5, <1>6, <1>7 DEF RegNext

LEMMA RegInvariant == RegSpec => [](TypeOK /\ RegInv)
<1>1. RegInit => TypeOK /\ RegInv
  BY RegInitInv, TypeInit DEF RegInit
<1>2. TypeOK /\ RegInv /\ [RegNext]_allVars => TypeOK' /\ RegInv'
  BY RegStep, RegIsAny, TypeStep DEF RegInv
<1> QED
  BY <1>1, <1>2, PTL DEF RegSpec

\* dht_register is refused as stale only if it was not told of the node's row, if its
\* solver found a nonce the key has used, or if the row is of the very second its seq
\* was taken: whatever else runs on the node between its query and its put, with any
\* number of calls, restarts and failing statements.
THEOREM RefusalsExcused == RegSpec => []RefusedOnlyAfterLapse
<1>1. RegInv => RefusedOnlyAfterLapse
  BY DEF RegInv, RefusalInv
<1> QED
  BY <1>1, RegInvariant, PTL

\* The client's connection is the only one at work, so no two handlers meet.
AloneInv ==
    /\ contended = {}
    /\ \A h \in Handlers : h # Conn => pc[h] = "idle"

LEMMA AloneStep ==
    ASSUME TypeOK, AloneInv, [RegNext]_allVars
    PROVE  AloneInv'
<1> USE RegistrationAssumption DEF AloneInv, ghosts
<1>1. CASE Ask \/ Submit
  BY <1>1 DEF Ask, Submit, Receive, Goto, TypeOK
<1>2. CASE Learn \/ GiveUp \/ Conclude \/ UNCHANGED allVars
  BY <1>2 DEF Learn, GiveUp, Conclude, allVars, vars
<1>3. CASE Disconnect
  BY <1>3 DEF Disconnect, Restart
<1>4. CASE Step(Conn)
  <2>1. CASE QueryNonce(Conn)
    BY <2>1 DEF QueryNonce, Finish, Goto, Writing, TypeOK
  <2>2. CASE ~QueryNonce(Conn)
    BY <1>4, <2>2 DEF Step, PutSteps, StoreSteps, HasKey, CountKeys, LimitQueryFails,
       CheckNonce, QuerySeq, Commit, AfterCommit, StoreFails, Note, Get, Finish, Goto, TypeOK
  <2> QED
    BY <2>1, <2>2
<1>5. CASE Prune \/ Tick
  BY <1>5 DEF Prune, Tick
<1> QED
  BY <1>1, <1>2, <1>3, <1>4, <1>5 DEF RegNext, NodeStep

\* A client that registers as often as it likes sees the versioned register, and no
\* two writers ever meet in it: the solver may return a nonce again, the node may
\* restart and its statements fail.
THEOREM RegistrationRefinesRegister ==
    RegSpec => ImplementsRegister /\ [](contended = {})
<1>1. RegInit => Register!Init /\ WriteInv /\ AloneInv
  BY RegisterInit, WriteInit DEF RegInit, Init, AloneInv
<1>2. TypeOK /\ RegInv /\ WriteInv /\ AloneInv /\ [RegNext]_allVars
        => WriteInv' /\ AloneInv' /\ [Register!Next]_<<kv, nonceLog, contended>>
  BY RegIsAny, WriteStep, AloneStep, RegisterStep DEF RegInv
<1>3. ImplementsRegister
        <=> Register!Init /\ [][Register!Next]_<<kv, nonceLog, contended>>
  BY DEF ImplementsRegister, Register!Spec
<1>4. AloneInv => contended = {}
  BY DEF AloneInv
<1> QED
  BY <1>1, <1>2, <1>3, <1>4, RegInvariant, PTL DEF RegSpec
=============================================================================
