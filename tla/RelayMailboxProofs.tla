------------------------- MODULE RelayMailboxProofs -------------------------
(***************************************************************************)
(* Proofs about RelayMailbox, for any number of handlers, messages,         *)
(* recipients, restarts and SQL errors.                                     *)
(***************************************************************************)
EXTENDS RelayMailbox, FiniteSetTheorems, WellFoundedInduction, TLAPS

(***************************************************************************)
(* The inductive invariant has three layers, each resting on the ones       *)
(* before it: DurableInv, CompleteInv and SettleInv.                        *)
(***************************************************************************)

\* A message under store is waiting for its answer, and one handler stores it.
StoreInv ==
    \A h \in Handlers : req[h].op = "store" =>
        /\ told[req[h].msg] = "waiting"
        /\ \A g \in Handlers \ {h} : req[g].op = "store" => req[g].msg # req[h].msg

\* Between its INSERT and its answer a message is in the table or was taken from it.
ReplyInv ==
    \A h \in Handlers : At(h, "reply", "store") =>
        row[req[h].msg] = "new" \/ req[h].msg \in discarded

DurableInv == StoreInv /\ ReplyInv /\ Durable

\* What a request was observed to be due stays confirmed and in its reach.
DueInv ==
    \A h \in Handlers :
        /\ due[h] \subseteq Confirmed
        /\ pc[h] # "idle" => due[h] \subseteq Reach(req[h])

\* A fetch that fell back to memory after an empty SELECT is due nothing.
FallbackInv ==
    \A h \in Handlers :
        At(h, "lock", "fetch") /\ ~blind[h] => due[h] \subseteq discarded

CompleteInv == DueInv /\ FallbackInv /\ FetchComplete

\* Entries are in their recipient's mailbox, and what an ack or purge has removed
\* from memory does not come back before its SQL statement runs.
MemInv ==
    /\ \A r \in Recipients : mem[r] \subseteq MailOf(r)
    /\ \A h \in Handlers : At(h, "db", "ack") \/ At(h, "db", "purge") =>
          \A r \in Recipients : due[h] \cap mem[r] = {}

\* A settled message is confirmed, in no mailbox and in no undelivered row.
SettledInv ==
    /\ \A m \in settled :
          /\ told[m] = "ok"
          /\ row[m] # "new"
          /\ \A r \in Recipients : m \notin mem[r]
    /\ \A h \in Handlers : gone[h] \subseteq settled

\* Only a fetch about to answer holds an answer.
AnswerInv == \A h \in Handlers : ~At(h, "reply", "fetch") => got[h] = {}

SettleInv == MemInv /\ SettledInv /\ AnswerInv /\ SettledNeverReturns

-----------------------------------------------------------------------------
LEMMA TypeInit == Init => TypeOK
BY MailboxAssumption
DEF Init, TypeOK, Tasks, PcOf, None

\* What Oldest chooses need not be known: a mailbox only gains the new entry.
LEMMA MailboxStoreGains ==
    ASSUME NEW box, NEW m
    PROVE  MailboxStore(box, m) \subseteq box \cup {m}
BY DEF MailboxStore

LEMMA CardinalityNat ==
    ASSUME NEW S \in SUBSET Msgs
    PROVE  Cardinality(S) \in Nat
BY MailboxAssumption, FS_Subset, FS_CardinalityType

\* The fields of a handler's request.
LEMMA RequestFields ==
    ASSUME TypeOK, NEW h \in Handlers, pc[h] # "idle"
    PROVE  /\ req[h] \in Requests
           /\ req[h].op \in {"store", "fetch", "purge", "ack"}
           /\ req[h].op = "store" => req[h].msg \in Msgs
           /\ req[h].op # "store" => req[h].to \in Recipients
BY DEF TypeOK, Requests, StoreReqs, BoxReqs, AckReqs

LEMMA TypeStep == TypeOK /\ [Next]_vars => TypeOK'
<1> SUFFICES ASSUME TypeOK, [Next]_vars PROVE TypeOK'
  OBVIOUS
<1> USE MailboxAssumption DEF Tasks, PcOf, Goto, At, store, ghosts
<1>1. ASSUME NEW h \in Handlers, NEW q \in Requests, Receive(h, q) PROVE TypeOK'
  BY <1>1 DEF Receive, TypeOK, Requests, StoreReqs, BoxReqs, AckReqs, Reach,
     MailOf, Confirmed
<1>2. ASSUME NEW h \in Handlers, StoreMem(h) PROVE TypeOK'
  <2> DEFINE m == req[h].msg
  <2>1. m \in Msgs /\ RecipientOf[m] \in Recipients
    BY <1>2, RequestFields DEF StoreMem
  <2>2. MailboxStore(mem[RecipientOf[m]], m) \subseteq Msgs
    BY <2>1, MailboxStoreGains DEF TypeOK
  <2>3. 1 + Cardinality({n \in Msgs : arrival[n] > 0}) \in Nat
    BY CardinalityNat
  <2> QED
    BY <1>2, <2>1, <2>2, <2>3 DEF StoreMem, TypeOK
<1>3. ASSUME NEW h \in Handlers, StoreInsert(h) PROVE TypeOK'
  BY <1>3, RequestFields DEF StoreInsert, TypeOK
<1>4. ASSUME NEW h \in Handlers, StoreInsertFails(h) PROVE TypeOK'
  BY <1>4, RequestFields DEF StoreInsertFails, TypeOK, Finish, DbError
<1>5. ASSUME NEW h \in Handlers, StoreReply(h) PROVE TypeOK'
  BY <1>5, RequestFields DEF StoreReply, TypeOK, Finish
<1>6. ASSUME NEW h \in Handlers, FetchQuery(h) PROVE TypeOK'
  BY <1>6, RequestFields DEF FetchQuery, TypeOK, Undelivered, MailOf
<1>7. ASSUME NEW h \in Handlers, FetchQueryFails(h) PROVE TypeOK'
  BY <1>7, RequestFields DEF FetchQueryFails, TypeOK, DbError
<1>8. ASSUME NEW h \in Handlers, FetchMem(h) PROVE TypeOK'
  BY <1>8, RequestFields DEF FetchMem, TypeOK, MailboxFetch
<1>9. ASSUME NEW h \in Handlers, FetchReply(h) PROVE TypeOK'
  BY <1>9, RequestFields DEF FetchReply, TypeOK, Finish
<1>10. ASSUME NEW h \in Handlers, AckMem(h) PROVE TypeOK'
  BY <1>10, RequestFields DEF AckMem, TypeOK, MailboxAck
<1>11. ASSUME NEW h \in Handlers, PurgeMem(h) PROVE TypeOK'
  BY <1>11, RequestFields DEF PurgeMem, TypeOK
<1>12. ASSUME NEW h \in Handlers, AckUpdate(h) PROVE TypeOK'
  BY <1>12, RequestFields DEF AckUpdate, TypeOK, Discard, Finish, Undelivered, MailOf
<1>13. ASSUME NEW h \in Handlers, PurgeDelete(h) PROVE TypeOK'
  BY <1>13, RequestFields DEF PurgeDelete, TypeOK, Discard, Finish, MailOf
<1>14. ASSUME NEW h \in Handlers, DiscardFails(h) PROVE TypeOK'
  BY <1>14, RequestFields DEF DiscardFails, TypeOK, DbError, Finish
<1>15. CASE CleanupMem
  BY <1>15 DEF CleanupMem, TypeOK, MailboxFetch, CleanupReqs
<1>16. CASE CleanupDelete
  BY <1>16 DEF CleanupDelete, TypeOK, CleanerRests
<1>17. CASE CleanupDeleteFails
  BY <1>17 DEF CleanupDeleteFails, TypeOK, CleanerRests, DbError
<1>18. CASE Tick
  BY <1>18 DEF Tick, TypeOK
<1>19. CASE Restart
  BY <1>19 DEF Restart, TypeOK
<1>20. CASE UNCHANGED vars
  BY <1>20 DEF vars, TypeOK
<1> QED
  BY <1>1, <1>2, <1>3, <1>4, <1>5, <1>6, <1>7, <1>8, <1>9, <1>10, <1>11, <1>12, <1>13, <1>14, <1>15, <1>16, <1>17, <1>18, <1>19, <1>20
  DEF Next, Step, StoreSteps, FetchSteps, DiscardSteps, CleanerStep

-----------------------------------------------------------------------------
(* Durability                                                               *)

LEMMA DurableStep ==
    ASSUME TypeOK, TypeOK', DurableInv, [Next]_vars
    PROVE  DurableInv'
<1> USE MailboxAssumption DEF Tasks, Goto, At, store, ghosts, TypeOK
<1> USE DEF DurableInv, StoreInv, ReplyInv, Durable, Confirmed, None
<1>1. ASSUME NEW h \in Handlers, NEW q \in Requests, Receive(h, q) PROVE DurableInv'
  BY <1>1 DEF Receive
<1>2. ASSUME NEW h \in Handlers, StoreMem(h) PROVE DurableInv'
  BY <1>2, RequestFields DEF StoreMem
<1>3. ASSUME NEW h \in Handlers, StoreInsert(h) PROVE DurableInv'
  BY <1>3, RequestFields DEF StoreInsert
<1>4. ASSUME NEW h \in Handlers, StoreInsertFails(h) PROVE DurableInv'
  BY <1>4, RequestFields DEF StoreInsertFails, Finish, DbError
<1>5. ASSUME NEW h \in Handlers, StoreReply(h) PROVE DurableInv'
  BY <1>5, RequestFields DEF StoreReply, Finish
<1>6. ASSUME NEW h \in Handlers, FetchQuery(h) PROVE DurableInv'
  BY <1>6, RequestFields DEF FetchQuery
<1>7. ASSUME NEW h \in Handlers, FetchQueryFails(h) PROVE DurableInv'
  BY <1>7, RequestFields DEF FetchQueryFails, DbError
<1>8. ASSUME NEW h \in Handlers, FetchMem(h) PROVE DurableInv'
  BY <1>8, RequestFields DEF FetchMem
<1>9. ASSUME NEW h \in Handlers, FetchReply(h) PROVE DurableInv'
  BY <1>9, RequestFields DEF FetchReply, Finish
<1>10. ASSUME NEW h \in Handlers, AckMem(h) PROVE DurableInv'
  BY <1>10, RequestFields DEF AckMem
<1>11. ASSUME NEW h \in Handlers, PurgeMem(h) PROVE DurableInv'
  BY <1>11, RequestFields DEF PurgeMem
<1>12. ASSUME NEW h \in Handlers, AckUpdate(h) PROVE DurableInv'
  BY <1>12, RequestFields, SMTT(60) DEF AckUpdate, Discard, Finish, Undelivered, MailOf
<1>13. ASSUME NEW h \in Handlers, PurgeDelete(h) PROVE DurableInv'
  BY <1>13, RequestFields DEF PurgeDelete, Discard, Finish, MailOf
<1>14. ASSUME NEW h \in Handlers, DiscardFails(h) PROVE DurableInv'
  BY <1>14, RequestFields DEF DiscardFails, DbError, Finish
<1>15. CASE CleanupMem
  BY <1>15 DEF CleanupMem
<1>16. CASE CleanupDelete
  <2>1. \A m \in Msgs : row[m] = "new" => row'[m] = "new"
    BY <1>16 DEF CleanupDelete
  <2>2. \A h \in Handlers : req'[h] = req[h] /\ pc'[h] = pc[h]
    BY <1>16 DEF CleanupDelete, CleanerRests
  <2>3. UNCHANGED <<told, discarded>>
    BY <1>16 DEF CleanupDelete
  <2> QED
    BY <2>1, <2>2, <2>3, RequestFields
<1>17. CASE CleanupDeleteFails
  BY <1>17 DEF CleanupDeleteFails, CleanerRests, DbError
<1>18. CASE Tick
  BY <1>18 DEF Tick
<1>19. CASE Restart
  BY <1>19 DEF Restart
<1>20. CASE UNCHANGED vars
  BY <1>20 DEF vars
<1> QED
  BY <1>1, <1>2, <1>3, <1>4, <1>5, <1>6, <1>7, <1>8, <1>9, <1>10, <1>11, <1>12, <1>13, <1>14, <1>15, <1>16, <1>17, <1>18, <1>19, <1>20
  DEF Next, Step, StoreSteps, FetchSteps, DiscardSteps, CleanerStep

-----------------------------------------------------------------------------
(* Fetch completeness                                                       *)

LEMMA CompleteStep ==
    ASSUME TypeOK, TypeOK', DurableInv, CompleteInv, [Next]_vars
    PROVE  CompleteInv'
<1> USE MailboxAssumption DEF Tasks, Goto, At, store, ghosts, TypeOK
<1> USE DEF CompleteInv, DueInv, FallbackInv, FetchComplete, DurableInv, StoreInv, Durable, Confirmed, Reach, None
<1>1. ASSUME NEW h \in Handlers, NEW q \in Requests, Receive(h, q) PROVE CompleteInv'
  BY <1>1 DEF Receive
<1>2. ASSUME NEW h \in Handlers, StoreMem(h) PROVE CompleteInv'
  BY <1>2, RequestFields DEF StoreMem
<1>3. ASSUME NEW h \in Handlers, StoreInsert(h) PROVE CompleteInv'
  BY <1>3, RequestFields DEF StoreInsert
<1>4. ASSUME NEW h \in Handlers, StoreInsertFails(h) PROVE CompleteInv'
  BY <1>4, RequestFields DEF StoreInsertFails, Finish, DbError
<1>5. ASSUME NEW h \in Handlers, StoreReply(h) PROVE CompleteInv'
  BY <1>5, RequestFields DEF StoreReply, Finish
<1>6. ASSUME NEW h \in Handlers, FetchQuery(h) PROVE CompleteInv'
  <2>1. /\ UNCHANGED <<row, req, told, due, discarded, blind>>
        /\ \A g \in Handlers \ {h} : pc'[g] = pc[g] /\ got'[g] = got[g]
    BY <1>6 DEF FetchQuery
  <2>2. DueInv'
    BY <1>6, <2>1 DEF FetchQuery
  <2>3. due[h] \subseteq Undelivered(req[h].to) \cup discarded
    BY <1>6 DEF FetchQuery, Undelivered, MailOf
  <2>4. FallbackInv'
    BY <1>6, <2>1, <2>3 DEF FetchQuery
  <2>5. FetchComplete'
    BY <1>6, <2>1, <2>3 DEF FetchQuery
  <2> QED
    BY <2>2, <2>4, <2>5
<1>7. ASSUME NEW h \in Handlers, FetchQueryFails(h) PROVE CompleteInv'
  BY <1>7, RequestFields DEF FetchQueryFails, DbError
<1>8. ASSUME NEW h \in Handlers, FetchMem(h) PROVE CompleteInv'
  BY <1>8, RequestFields DEF FetchMem
<1>9. ASSUME NEW h \in Handlers, FetchReply(h) PROVE CompleteInv'
  BY <1>9, RequestFields DEF FetchReply, Finish
<1>10. ASSUME NEW h \in Handlers, AckMem(h) PROVE CompleteInv'
  BY <1>10, RequestFields DEF AckMem
<1>11. ASSUME NEW h \in Handlers, PurgeMem(h) PROVE CompleteInv'
  BY <1>11, RequestFields DEF PurgeMem
<1>12. ASSUME NEW h \in Handlers, AckUpdate(h) PROVE CompleteInv'
  BY <1>12, RequestFields DEF AckUpdate, Discard, Finish
<1>13. ASSUME NEW h \in Handlers, PurgeDelete(h) PROVE CompleteInv'
  BY <1>13, RequestFields DEF PurgeDelete, Discard, Finish
<1>14. ASSUME NEW h \in Handlers, DiscardFails(h) PROVE CompleteInv'
  BY <1>14, RequestFields DEF DiscardFails, DbError, Finish
<1>15. CASE CleanupMem
  BY <1>15 DEF CleanupMem
<1>16. CASE CleanupDelete
  BY <1>16 DEF CleanupDelete, CleanerRests
<1>17. CASE CleanupDeleteFails
  BY <1>17 DEF CleanupDeleteFails, CleanerRests, DbError
<1>18. CASE Tick
  BY <1>18 DEF Tick
<1>19. CASE Restart
  BY <1>19 DEF Restart
<1>20. CASE UNCHANGED vars
  BY <1>20 DEF vars
<1> QED
  BY <1>1, <1>2, <1>3, <1>4, <1>5, <1>6, <1>7, <1>8, <1>9, <1>10, <1>11, <1>12, <1>13, <1>14, <1>15, <1>16, <1>17, <1>18, <1>19, <1>20
  DEF Next, Step, StoreSteps, FetchSteps, DiscardSteps, CleanerStep

-----------------------------------------------------------------------------
(* No resurrection                                                          *)

LEMMA SettleStep ==
    ASSUME TypeOK, TypeOK', DurableInv, CompleteInv, SettleInv, [Next]_vars
    PROVE  SettleInv'
<1> USE MailboxAssumption DEF Tasks, Goto, At, store, ghosts, TypeOK
<1> USE DEF SettleInv, MemInv, SettledInv, AnswerInv, SettledNeverReturns, DurableInv, StoreInv, CompleteInv, DueInv, Confirmed, Reach, MailOf
<1>1. ASSUME NEW h \in Handlers, NEW q \in Requests, Receive(h, q) PROVE SettleInv'
  BY <1>1 DEF Receive
<1>2. ASSUME NEW h \in Handlers, StoreMem(h) PROVE SettleInv'
  BY <1>2, RequestFields, MailboxStoreGains, SMTT(60) DEF StoreMem
<1>3. ASSUME NEW h \in Handlers, StoreInsert(h) PROVE SettleInv'
  BY <1>3, RequestFields DEF StoreInsert
<1>4. ASSUME NEW h \in Handlers, StoreInsertFails(h) PROVE SettleInv'
  BY <1>4, RequestFields DEF StoreInsertFails, Finish, DbError
<1>5. ASSUME NEW h \in Handlers, StoreReply(h) PROVE SettleInv'
  BY <1>5, RequestFields DEF StoreReply, Finish
<1>6. ASSUME NEW h \in Handlers, FetchQuery(h) PROVE SettleInv'
  <2>1. /\ UNCHANGED <<mem, row, req, told, due, gone, settled>>
        /\ \A g \in Handlers \ {h} : pc'[g] = pc[g] /\ got'[g] = got[g]
    BY <1>6 DEF FetchQuery
  <2>2. MemInv'
    BY <1>6, <2>1 DEF FetchQuery
  <2>3. SettledInv'
    BY <2>1
  <2>4. AnswerInv'
    BY <1>6, <2>1 DEF FetchQuery
  <2>5. Undelivered(req[h].to) \cap gone[h] = {}
    BY DEF Undelivered
  <2>6. got[h] = {}
    BY <1>6 DEF FetchQuery
  <2>7. SettledNeverReturns'
    BY <1>6, <2>1, <2>5, <2>6 DEF FetchQuery
  <2> QED
    BY <2>2, <2>3, <2>4, <2>7
<1>7. ASSUME NEW h \in Handlers, FetchQueryFails(h) PROVE SettleInv'
  BY <1>7, RequestFields DEF FetchQueryFails, DbError
<1>8. ASSUME NEW h \in Handlers, FetchMem(h) PROVE SettleInv'
  BY <1>8, RequestFields DEF FetchMem, MailboxFetch
<1>9. ASSUME NEW h \in Handlers, FetchReply(h) PROVE SettleInv'
  BY <1>9, RequestFields DEF FetchReply, Finish
<1>10. ASSUME NEW h \in Handlers, AckMem(h) PROVE SettleInv'
  BY <1>10, RequestFields DEF AckMem, MailboxAck
<1>11. ASSUME NEW h \in Handlers, PurgeMem(h) PROVE SettleInv'
  BY <1>11, RequestFields DEF PurgeMem
<1>12. ASSUME NEW h \in Handlers, AckUpdate(h) PROVE SettleInv'
  BY <1>12, RequestFields DEF AckUpdate, Discard, Finish, Undelivered
<1>13. ASSUME NEW h \in Handlers, PurgeDelete(h) PROVE SettleInv'
  <2>1. MemInv'
    BY <1>13 DEF PurgeDelete, Discard, Finish
  <2>2. due[h] \subseteq MailOf(req[h].to)
    BY <1>13 DEF PurgeDelete
  <2>3. SettledInv'
    BY <1>13, <2>2 DEF PurgeDelete, Discard, Finish
  <2>4. AnswerInv' /\ SettledNeverReturns'
    BY <1>13 DEF PurgeDelete, Discard, Finish
  <2> QED
    BY <2>1, <2>3, <2>4
<1>14. ASSUME NEW h \in Handlers, DiscardFails(h) PROVE SettleInv'
  BY <1>14, RequestFields DEF DiscardFails, DbError, Finish
<1>15. CASE CleanupMem
  BY <1>15 DEF CleanupMem, MailboxFetch
<1>16. CASE CleanupDelete
  BY <1>16 DEF CleanupDelete, CleanerRests
<1>17. CASE CleanupDeleteFails
  BY <1>17 DEF CleanupDeleteFails, CleanerRests, DbError
<1>18. CASE Tick
  BY <1>18 DEF Tick
<1>19. CASE Restart
  BY <1>19 DEF Restart
<1>20. CASE UNCHANGED vars
  BY <1>20 DEF vars
<1> QED
  BY <1>1, <1>2, <1>3, <1>4, <1>5, <1>6, <1>7, <1>8, <1>9, <1>10, <1>11, <1>12, <1>13, <1>14, <1>15, <1>16, <1>17, <1>18, <1>19, <1>20
  DEF Next, Step, StoreSteps, FetchSteps, DiscardSteps, CleanerStep

-----------------------------------------------------------------------------
(* Theorems                                                                 *)

LEMMA InvInit == Init => TypeOK /\ DurableInv /\ CompleteInv /\ SettleInv
BY TypeInit
DEF Init, DurableInv, StoreInv, ReplyInv, Durable, CompleteInv, DueInv, FallbackInv,
    FetchComplete, SettleInv, MemInv, SettledInv, AnswerInv, SettledNeverReturns,
    Confirmed, At, Tasks, None

\* Type correctness of the mailbox store, for every value of the constants.
THEOREM TypeCorrect == Spec => []TypeOK
BY TypeInit, TypeStep, PTL DEF Spec

\* Durability of store_message: an ok answered to a sender means an undelivered row
\* until an ack or purge takes it, whatever restarts, SQL errors, evictions and
\* cleanups come in between.
THEOREM MailDurable == Spec => []Durable
<1>1. DurableInv /\ TypeOK /\ TypeOK' /\ [Next]_vars => DurableInv'
  BY DurableStep
<1>2. DurableInv => Durable
  BY DEF DurableInv
<1> QED
  BY <1>1, <1>2, InvInit, TypeCorrect, PTL DEF Spec

\* The layers together hold in every reachable state.
LEMMA LayersHold == Spec => [](TypeOK /\ DurableInv /\ CompleteInv /\ SettleInv)
<1> DEFINE Layers == TypeOK /\ DurableInv /\ CompleteInv /\ SettleInv
<1>1. Layers /\ [Next]_vars => Layers'
  BY TypeStep, DurableStep, CompleteStep, SettleStep
<1> QED
  BY <1>1, InvInit, PTL DEF Spec

\* Completeness of fetch_messages: a fetch whose SELECT succeeds returns all mail
\* confirmed before it was received, less what an ack or purge took meanwhile.
THEOREM FetchIsComplete == Spec => []FetchComplete
<1>1. CompleteInv => FetchComplete
  BY DEF CompleteInv
<1> QED
  BY <1>1, LayersHold, PTL

\* No resurrection: what a finished ack_message or purge_all_messages was about, its
\* SQL having succeeded, is in no later answer of fetch_messages.
THEOREM SettledIsFinal == Spec => []SettledNeverReturns
<1>1. SettleInv => SettledNeverReturns
  BY DEF SettleInv
<1> QED
  BY <1>1, LayersHold, PTL

-----------------------------------------------------------------------------
(* The caps                                                                 *)

\* Every nonempty set of naturals has a least element.
LEMMA LeastOf ==
    ASSUME NEW T \in SUBSET Nat, T # {}
    PROVE  \E x \in T : \A y \in T : x <= y
<1> DEFINE R == {ss \in Nat \X Nat : ss[1] < ss[2]}
<1>1. IsWellFoundedOn(R, Nat)
  BY NatLessThanWellFounded DEF OpToRel
<1> HIDE DEF R
<1>2. \E x \in T : \A y \in T : ~ (<<y, x>> \in R)
  BY <1>1, WFMin
<1>3. ASSUME NEW x \in Nat, NEW y \in Nat, ~ (<<y, x>> \in R)
      PROVE  x <= y
  <2>1. <<y, x>> \in Nat \X Nat
    OBVIOUS
  <2>2. ~(<<y, x>>[1] < <<y, x>>[2])
    BY <1>3, <2>1 DEF R
  <2> QED
    BY <2>2
<1> QED
  BY <1>2, <1>3

\* The eviction of Mailbox::store finds an entry to evict.
LEMMA OldestIsThere ==
    ASSUME TypeOK, NEW S \in SUBSET Msgs, S # {}
    PROVE  Oldest(S) \in S
<1>1. arrival \in [Msgs -> Nat]
  BY DEF TypeOK
<1> DEFINE T == {arrival[m] : m \in S}
<1>2. T \in SUBSET Nat /\ T # {}
  BY <1>1
<1>3. PICK x \in T : \A y \in T : x <= y
  BY <1>2, LeastOf
<1>4. PICK m \in S : x = arrival[m]
  BY <1>3
<1>5. \A n \in S : arrival[m] <= arrival[n]
  BY <1>3, <1>4
<1> QED
  BY <1>5 DEF Oldest

LEMMA FiniteMsgs ==
    ASSUME NEW S \in SUBSET Msgs
    PROVE  IsFiniteSet(S) /\ Cardinality(S) \in Nat
BY MailboxAssumption, FS_Subset, FS_CardinalityType

\* Neither cap is exceeded when one entry makes room for another.
LEMMA AddWithinCap ==
    ASSUME NEW S \in SUBSET Msgs, NEW m \in Msgs, NEW n \in Nat, Cardinality(S) < n
    PROVE  Cardinality({m} \cup S) <= n
<1>1. IsFiniteSet(S) /\ Cardinality(S) \in Nat
  BY FiniteMsgs
<1>2. Cardinality(S \cup {m}) <= Cardinality(S) + 1
  BY <1>1, FS_AddElement
<1>3. Cardinality(S \cup {m}) \in Nat
  BY FiniteMsgs
<1>4. Cardinality(S \cup {m}) <= n
  BY <1>1, <1>2, <1>3
<1>5. {m} \cup S = S \cup {m}
  OBVIOUS
<1> QED
  BY <1>4, <1>5, Zenon

LEMMA RemoveMakesRoom ==
    ASSUME NEW S \in SUBSET Msgs, NEW m \in S
    PROVE  Cardinality(S \ {m}) = Cardinality(S) - 1
<1>1. IsFiniteSet(S)
  BY FiniteMsgs
<1> QED
  BY <1>1, FS_RemoveElement

LEMMA SubsetCount ==
    ASSUME NEW S \in SUBSET Msgs, NEW T \in SUBSET S
    PROVE  Cardinality(T) <= Cardinality(S)
BY FiniteMsgs, FS_Subset

\* What MailboxBounds says of one mailbox.
Bounded(box) ==
    /\ Cardinality(box) <= MaxMailbox
    /\ \A s \in Senders : Cardinality({m \in box : SenderOf[m] = s}) <= MaxPerSender

LEMMA SmallerIsBounded ==
    ASSUME NEW box \in SUBSET Msgs, NEW part \in SUBSET box, Bounded(box)
    PROVE  Bounded(part)
<1>1. Cardinality(part) <= MaxMailbox
  <2>1. Cardinality(part) <= Cardinality(box)
    BY SubsetCount
  <2>2. Cardinality(part) \in Nat /\ Cardinality(box) \in Nat
    BY FiniteMsgs
  <2> QED
    BY <2>1, <2>2, MailboxAssumption DEF Bounded
<1>2. ASSUME NEW s \in Senders
      PROVE  Cardinality({m \in part : SenderOf[m] = s}) <= MaxPerSender
  <2> DEFINE P == {m \in part : SenderOf[m] = s}
             B == {m \in box : SenderOf[m] = s}
  <2>1. B \in SUBSET Msgs /\ P \in SUBSET B
    OBVIOUS
  <2> HIDE DEF P, B
  <2>2. Cardinality(P) <= Cardinality(B)
    BY <2>1, SubsetCount
  <2>3. Cardinality(P) \in Nat /\ Cardinality(B) \in Nat
    BY <2>1, FiniteMsgs
  <2>4. Cardinality(B) <= MaxPerSender
    BY DEF Bounded, B
  <2>5. Cardinality(P) <= MaxPerSender
    BY <2>2, <2>3, <2>4, MailboxAssumption
  <2> QED
    BY <2>5 DEF P
<1> QED
  BY <1>1, <1>2 DEF Bounded

\* Mailbox::store keeps both caps: a sender at its cap loses its own oldest entry,
\* and a full mailbox its oldest.
LEMMA StoreIsBounded ==
    ASSUME TypeOK, NEW box \in SUBSET Msgs, NEW m \in Msgs, Bounded(box)
    PROVE  Bounded(MailboxStore(box, m))
<1> DEFINE From(S, s) == {n \in S : SenderOf[n] = s}
           mine == From(box, SenderOf[m])
           rest == IF Cardinality(mine) >= MaxPerSender THEN box \ {Oldest(mine)}
                   ELSE IF Cardinality(box) >= MaxMailbox THEN box \ {Oldest(box)}
                   ELSE box
<1>1. mine \in SUBSET box /\ mine \in SUBSET Msgs /\ rest \in SUBSET box
  OBVIOUS
<1>2. MailboxStore(box, m) = {m} \cup rest
  BY DEF MailboxStore
<1>3. Cardinality(box) \in Nat /\ Cardinality(mine) \in Nat
  BY <1>1, FiniteMsgs
<1>4. Cardinality(mine) >= MaxPerSender => Oldest(mine) \in mine
  <2>1. mine = {} => Cardinality(mine) = 0
    BY FS_EmptySet
  <2> QED
    BY <1>1, <1>3, <2>1, OldestIsThere, MailboxAssumption
<1>5. Cardinality(box) >= MaxMailbox => Oldest(box) \in box
  <2>1. box = {} => Cardinality(box) = 0
    BY FS_EmptySet
  <2> QED
    BY <1>3, <2>1, OldestIsThere, MailboxAssumption
<1>6. Cardinality({m} \cup rest) <= MaxMailbox
  <2>1. Cardinality(box) <= MaxMailbox
    BY DEF Bounded
  <2>2. Cardinality(rest) < MaxMailbox
    <3>1. CASE Cardinality(mine) >= MaxPerSender
      BY <1>1, <1>3, <1>4, <2>1, <3>1, RemoveMakesRoom, MailboxAssumption
    <3>2. CASE Cardinality(mine) < MaxPerSender /\ Cardinality(box) >= MaxMailbox
      BY <1>3, <1>5, <2>1, <3>2, RemoveMakesRoom, MailboxAssumption
    <3>3. CASE Cardinality(mine) < MaxPerSender /\ Cardinality(box) < MaxMailbox
      BY <1>3, <3>3, MailboxAssumption
    <3> QED
      BY <1>3, <3>1, <3>2, <3>3, MailboxAssumption
  <2> QED
    BY <1>1, <2>2, AddWithinCap, MailboxAssumption
<1>7. ASSUME NEW s \in Senders
      PROVE  Cardinality(From({m} \cup rest, s)) <= MaxPerSender
  <2>1. CASE s # SenderOf[m]
    <3>1. From({m} \cup rest, s) \in SUBSET From(box, s) /\ From(box, s) \in SUBSET Msgs
      BY <1>1, <2>1
    <3>2. Cardinality(From(box, s)) <= MaxPerSender
      BY DEF Bounded
    <3> HIDE DEF From
    <3>3. Cardinality(From({m} \cup rest, s)) <= Cardinality(From(box, s))
      BY <3>1, SubsetCount
    <3>4. Cardinality(From({m} \cup rest, s)) \in Nat /\ Cardinality(From(box, s)) \in Nat
      BY <3>1, FiniteMsgs
    <3> QED
      BY <3>2, <3>3, <3>4, MailboxAssumption
  <2>2. CASE s = SenderOf[m]
    <3> DEFINE less == IF Cardinality(mine) >= MaxPerSender THEN mine \ {Oldest(mine)}
                       ELSE mine
    <3>1. From({m} \cup rest, s) \in SUBSET ({m} \cup less) /\ less \in SUBSET mine
      BY <2>2
    <3>2. Cardinality(mine) <= MaxPerSender
      BY <2>2 DEF Bounded
    <3>3. Cardinality(less) < MaxPerSender
      BY <1>1, <1>3, <1>4, <3>2, RemoveMakesRoom, MailboxAssumption
    <3>4. Cardinality({m} \cup less) <= MaxPerSender
      BY <1>1, <3>1, <3>3, AddWithinCap, MailboxAssumption
    <3>5. {m} \cup less \in SUBSET Msgs
      BY <1>1, <3>1
    <3> HIDE DEF From, less
    <3>6. Cardinality(From({m} \cup rest, s)) <= Cardinality({m} \cup less)
      BY <3>1, <3>5, SubsetCount
    <3>7. Cardinality(From({m} \cup rest, s)) \in Nat /\ Cardinality({m} \cup less) \in Nat
      BY <3>1, <3>5, FiniteMsgs
    <3> QED
      BY <3>4, <3>6, <3>7, MailboxAssumption
  <2> QED
    BY <2>1, <2>2
<1> QED
  BY <1>2, <1>6, <1>7 DEF Bounded

LEMMA BoundsInit == Init => MailboxBounds
BY FS_EmptySet, MailboxAssumption DEF Init, MailboxBounds

\* Only store_message adds an entry; the other operations shrink mailboxes or leave
\* them alone.
LEMMA BoundsStep ==
    ASSUME TypeOK, MailboxBounds, [Next]_vars
    PROVE  MailboxBounds'
<1>0. /\ \A r \in Recipients : mem[r] \in SUBSET Msgs /\ Bounded(mem[r])
      /\ mem \in [Recipients -> SUBSET Msgs]
  BY DEF TypeOK, MailboxBounds, Bounded
<1>1. ASSUME NEW h \in Handlers, StoreMem(h), NEW r \in Recipients
      PROVE  Bounded(mem'[r])
  <2> DEFINE m == req[h].msg
  <2>1. m \in Msgs /\ RecipientOf[m] \in Recipients
    BY <1>1, RequestFields, MailboxAssumption DEF StoreMem, At
  <2>2. mem'[r] = IF r = RecipientOf[m] THEN MailboxStore(mem[r], m) ELSE mem[r]
    BY <1>0, <1>1 DEF StoreMem
  <2> QED
    BY <1>0, <2>1, <2>2, StoreIsBounded
<1>2. ASSUME \A r \in Recipients : mem'[r] \in SUBSET mem[r], NEW r \in Recipients
      PROVE  Bounded(mem'[r])
  BY <1>0, <1>2, SmallerIsBounded
<1>3. (\E h \in Handlers : StoreMem(h)) \/ \A r \in Recipients : mem'[r] \in SUBSET mem[r]
  BY <1>0
  DEF Next, vars, Receive, Step, StoreSteps, FetchSteps, DiscardSteps, StoreInsert,
      StoreInsertFails, StoreReply, FetchQuery, FetchQueryFails, FetchMem, FetchReply,
      AckMem, PurgeMem, AckUpdate, PurgeDelete, DiscardFails, Discard, CleanerStep,
      CleanupMem, CleanupDelete, CleanupDeleteFails, Tick, Restart, MailboxAck,
      MailboxFetch, store
<1>4. \A r \in Recipients : Bounded(mem'[r])
  BY <1>1, <1>2, <1>3
<1> QED
  BY <1>4 DEF MailboxBounds, Bounded

\* The caps of Mailbox::store hold in every mailbox at every time, whatever their
\* values, the number of senders and the order of requests.
THEOREM MailboxesBounded == Spec => []MailboxBounds
<1>1. TypeOK /\ MailboxBounds /\ [Next]_vars => MailboxBounds'
  BY BoundsStep
<1> QED
  BY <1>1, BoundsInit, TypeCorrect, PTL DEF Spec

-----------------------------------------------------------------------------
(* The write lock                                                           *)

\* The write lock of `mailboxes' is held exactly by the task that stands at the INSERT of
\* store_message or the DELETE of cleanup_expired.
LockHeldAcrossSql ==
    \A t \in Tasks : lock = t <=> pc[t] = "db" /\ req[t].op \in {"store", "cleanup"}

LEMMA LockStep ==
    ASSUME TypeOK, LockHeldAcrossSql, [Next]_vars
    PROVE  LockHeldAcrossSql'
<1> USE MailboxAssumption DEF Tasks, Goto, At, store, ghosts, TypeOK, LockHeldAcrossSql, None
<1>0. \A t \in Tasks : pc[t] = "idle" => req[t] = None
  OBVIOUS
<1>1. ASSUME NEW h \in Handlers, NEW q \in Requests, Receive(h, q) PROVE LockHeldAcrossSql'
  <2>1. q.op \in {"store", "fetch", "purge", "ack"}
    BY DEF Requests, StoreReqs, BoxReqs, AckReqs
  <2> QED
    BY <1>1, <2>1 DEF Receive
<1>2. ASSUME NEW h \in Handlers, StoreMem(h) PROVE LockHeldAcrossSql'
  BY <1>2, RequestFields DEF StoreMem
<1>3. ASSUME NEW h \in Handlers, StoreInsert(h) PROVE LockHeldAcrossSql'
  BY <1>3, RequestFields DEF StoreInsert
<1>4. ASSUME NEW h \in Handlers, StoreInsertFails(h) PROVE LockHeldAcrossSql'
  BY <1>4, RequestFields DEF StoreInsertFails, Finish, DbError
<1>5. ASSUME NEW h \in Handlers, StoreReply(h) PROVE LockHeldAcrossSql'
  BY <1>5, RequestFields DEF StoreReply, Finish
<1>6. ASSUME NEW h \in Handlers, FetchQuery(h) PROVE LockHeldAcrossSql'
  BY <1>6, RequestFields DEF FetchQuery
<1>7. ASSUME NEW h \in Handlers, FetchQueryFails(h) PROVE LockHeldAcrossSql'
  BY <1>7, RequestFields DEF FetchQueryFails, DbError
<1>8. ASSUME NEW h \in Handlers, FetchMem(h) PROVE LockHeldAcrossSql'
  BY <1>8, RequestFields DEF FetchMem
<1>9. ASSUME NEW h \in Handlers, FetchReply(h) PROVE LockHeldAcrossSql'
  BY <1>9, RequestFields DEF FetchReply, Finish
<1>10. ASSUME NEW h \in Handlers, AckMem(h) PROVE LockHeldAcrossSql'
  BY <1>10, RequestFields DEF AckMem
<1>11. ASSUME NEW h \in Handlers, PurgeMem(h) PROVE LockHeldAcrossSql'
  BY <1>11, RequestFields DEF PurgeMem
<1>12. ASSUME NEW h \in Handlers, AckUpdate(h) PROVE LockHeldAcrossSql'
  BY <1>12, RequestFields DEF AckUpdate, Discard, Finish
<1>13. ASSUME NEW h \in Handlers, PurgeDelete(h) PROVE LockHeldAcrossSql'
  BY <1>13, RequestFields DEF PurgeDelete, Discard, Finish
<1>14. ASSUME NEW h \in Handlers, DiscardFails(h) PROVE LockHeldAcrossSql'
  BY <1>14, RequestFields DEF DiscardFails, Finish, DbError
<1>15. CASE CleanupMem
  BY <1>15 DEF CleanupMem
<1>16. CASE CleanupDelete
  BY <1>16 DEF CleanupDelete, CleanerRests, CleanupReqs
<1>17. CASE CleanupDeleteFails
  BY <1>17 DEF CleanupDeleteFails, CleanerRests, CleanupReqs, DbError
<1>18. CASE Tick
  BY <1>18 DEF Tick
<1>19. CASE Restart
  BY <1>19 DEF Restart
<1>20. CASE UNCHANGED vars
  BY <1>20 DEF vars
<1> QED
  BY <1>1, <1>2, <1>3, <1>4, <1>5, <1>6, <1>7, <1>8, <1>9, <1>10, <1>11, <1>12, <1>13, <1>14, <1>15, <1>16, <1>17, <1>18, <1>19, <1>20
  DEF Next, Step, StoreSteps, FetchSteps, DiscardSteps, CleanerStep

\* The safety half of RequestsFinish: store_message and cleanup_expired give the lock up on
\* every path, errors and restarts included, no two of them are past it at once, and no
\* task asks for it while it holds it, so nobody waits for a task that itself waits.
THEOREM LockIsReleased == Spec => []LockHeldAcrossSql
<1>1. Init => LockHeldAcrossSql
  BY MailboxAssumption DEF Init, LockHeldAcrossSql, Tasks
<1>2. TypeOK /\ LockHeldAcrossSql /\ [Next]_vars => LockHeldAcrossSql'
  BY LockStep
<1> QED
  BY <1>1, <1>2, TypeCorrect, PTL DEF Spec
=============================================================================
