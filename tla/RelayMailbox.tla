---------------------------- MODULE RelayMailbox ----------------------------
(***************************************************************************)
(* The mailbox store of the relay (relay/src/main.rs): the in-memory       *)
(* mailboxes behind one tokio RwLock, the SQLite table mailbox_entries     *)
(* beside them, and the operations that change the two one after the       *)
(* other: store_message, fetch_messages, ack_message, purge_all_messages   *)
(* and the hourly cleanup_expired.                                         *)
(*                                                                         *)
(* A task is one connection's handler; a request reaches this module after *)
(* handle_message has admitted it (module RelayAdmission).  Each .await of *)
(* the code is a boundary between two actions, so handlers interleave      *)
(* there.  store_message and cleanup_expired hold the write lock across    *)
(* their SQL statement; ack_message and purge_all_messages release it      *)
(* first.                                                                  *)
(*                                                                         *)
(* Messages are opaque.  A message's recipient, sender fingerprint and     *)
(* seq never change, so they are functions of it.  A mailbox is the set of *)
(* messages it holds; the order of its Vec is the order of arrival, which  *)
(* `arrival' keeps.                                                        *)
(***************************************************************************)
EXTENDS Integers, FiniteSets

CONSTANTS
    Handlers,      \* connection handler tasks
    Cleaner,       \* the background task that runs cleanup_expired
    NoTask,        \* the write lock is free
    Msgs,          \* messages that may be sent, each at most once
    Recipients,    \* recipient null ids
    Senders,       \* sender fingerprints
    Seqs,          \* values of the seq field
    RecipientOf, SenderOf, SeqOf,   \* the fields of a message
    MaxMailbox,    \* MAX_MAILBOX_SIZE
    MaxPerSender,  \* MAX_ENTRIES_PER_SENDER
    TTL,           \* MAILBOX_TTL_SECONDS, in clock ticks
    MaxClock,      \* bound: the clock stops here
    MaxCrashes,    \* bound: relay restarts
    MaxDbErrors    \* bound: failing SQL statements

ASSUME MailboxAssumption ==
    /\ Cleaner \notin Handlers /\ NoTask \notin Handlers /\ NoTask # Cleaner
    /\ IsFiniteSet(Msgs)
    /\ RecipientOf \in [Msgs -> Recipients]
    /\ SenderOf \in [Msgs -> Senders]
    /\ SeqOf \in [Msgs -> Seqs]
    /\ MaxMailbox \in Nat \ {0} /\ MaxPerSender \in Nat \ {0}
    /\ TTL \in Nat /\ MaxClock \in Nat
    /\ MaxCrashes \in Nat /\ MaxDbErrors \in Nat

VARIABLES
    mem,        \* mem[r]: the entries of r's in-memory mailbox
    arrival,    \* arrival[m]: m was the arrival[m]-th entry pushed, 0 if never
    storedAt,   \* storedAt[m]: the stored_at of m's entry and row
    row,        \* row[m]: m's row of mailbox_entries and its delivered flag
    lock,       \* the task that holds the write lock of `mailboxes'
    pc,         \* where each task is
    req,        \* the request each task works on
    clock,      \* wall clock of the relay host
    crashes, dbErrors,
    told,       \* told[m]: what the relay has answered m's sender
    got,        \* got[h]: the entries of the fetch answer h is about to send
    \* Observations the properties are stated with; no action reads them.
    due,        \* due[h]: messages confirmed to their senders, and in reach of
                \* h's request, when that request was received
    gone,       \* gone[h]: the settled messages at that moment
    blind,      \* blind[h]: the SELECT of h's fetch failed
    discarded,  \* messages whose row an UPDATE or DELETE has taken
    settled     \* due messages of an ack or purge whose SQL succeeded

store == <<mem, arrival, storedAt, row>>
ghosts == <<due, gone, blind, discarded, settled>>
vars == <<mem, arrival, storedAt, row, lock, pc, req, clock, crashes, dbErrors,
          told, got, due, gone, blind, discarded, settled>>

Tasks == Handlers \cup {Cleaner}
None == [op |-> "none"]
StoreReqs == [op : {"store"}, msg : Msgs]
BoxReqs == [op : {"fetch", "purge"}, to : Recipients]
AckReqs == [op : {"ack"}, to : Recipients, seq : Seqs]
Requests == StoreReqs \cup BoxReqs \cup AckReqs
CleanupReqs == [op : {"cleanup"}, now : 0 .. MaxClock]

MailOf(r) == {m \in Msgs : RecipientOf[m] = r}
Confirmed == {m \in Msgs : told[m] = "ok"}

\* The messages a request can return, acknowledge or delete.
Reach(q) ==
    CASE q.op = "store" -> {}
      [] q.op = "ack"   -> {m \in MailOf(q.to) : SeqOf[m] = q.seq}
      [] OTHER          -> MailOf(q.to)

-----------------------------------------------------------------------------
(* Mailbox                                                                  *)

Oldest(S) == CHOOSE m \in S : \A n \in S : arrival[m] <= arrival[n]

\* Mutant of MailboxStore: the global cap is compared with > instead of >=.
MailboxStoreOffByOne(box, m) ==
    LET mine == {n \in box : SenderOf[n] = SenderOf[m]} IN
    {m} \cup (IF Cardinality(mine) >= MaxPerSender THEN box \ {Oldest(mine)}
              ELSE IF Cardinality(box) > MaxMailbox THEN box \ {Oldest(box)}
              ELSE box)

\* Mailbox::store: a sender at its cap displaces its own oldest entry; otherwise
\* a full mailbox drops its oldest entry, whoever sent it.
MailboxStore(box, m) ==
    LET mine == {n \in box : SenderOf[n] = SenderOf[m]} IN
    {m} \cup (IF Cardinality(mine) >= MaxPerSender THEN box \ {Oldest(mine)}
              ELSE IF Cardinality(box) >= MaxMailbox THEN box \ {Oldest(box)}
              ELSE box)

Live(m, now) == now - storedAt[m] < TTL

\* Mailbox::fetch
MailboxFetch(box) == {m \in box : Live(m, clock)}

\* Mailbox::ack matches on seq alone.
MailboxAck(box, seq) == {m \in box : SeqOf[m] # seq}

Undelivered(r) == {m \in MailOf(r) : row[m] = "new"}

-----------------------------------------------------------------------------
Init ==
    /\ mem = [r \in Recipients |-> {}]
    /\ arrival = [m \in Msgs |-> 0]
    /\ storedAt = [m \in Msgs |-> 0]
    /\ row = [m \in Msgs |-> "absent"]
    /\ lock = NoTask
    /\ pc = [t \in Tasks |-> "idle"]
    /\ req = [t \in Tasks |-> None]
    /\ clock = 0 /\ crashes = 0 /\ dbErrors = 0
    /\ told = [m \in Msgs |-> "unsent"]
    /\ got = [h \in Handlers |-> {}]
    /\ due = [h \in Handlers |-> {}]
    /\ gone = [h \in Handlers |-> {}]
    /\ blind = [h \in Handlers |-> FALSE]
    /\ discarded = {} /\ settled = {}

Goto(t, label) == pc' = [pc EXCEPT ![t] = label]
At(h, label, op) == pc[h] = label /\ req[h].op = op

\* Mutant of Finish: the task keeps the request it has finished.
FinishKeepsRequest(h) ==
    /\ Goto(h, "idle")
    /\ req' = req
    /\ due' = [due EXCEPT ![h] = {}]
    /\ gone' = [gone EXCEPT ![h] = {}]
    /\ blind' = [blind EXCEPT ![h] = FALSE]

\* The handler returns to its message loop; what was observed of the request ends.
Finish(h) ==
    /\ Goto(h, "idle")
    /\ req' = [req EXCEPT ![h] = None]
    /\ due' = [due EXCEPT ![h] = {}]
    /\ gone' = [gone EXCEPT ![h] = {}]
    /\ blind' = [blind EXCEPT ![h] = FALSE]

\* An SQL statement may fail: the pool is exhausted or the file is locked.
DbError ==
    /\ dbErrors < MaxDbErrors
    /\ dbErrors' = dbErrors + 1

\* An admitted request.  fetch starts with its query, the others wait for the lock.
Receive(h, q) ==
    /\ pc[h] = "idle"
    /\ q.op = "store" => told[q.msg] = "unsent"
    /\ Goto(h, IF q.op = "fetch" THEN "db" ELSE "lock")
    /\ req' = [req EXCEPT ![h] = q]
    /\ told' = IF q.op = "store" THEN [told EXCEPT ![q.msg] = "waiting"] ELSE told
    /\ due' = [due EXCEPT ![h] = Reach(q) \cap Confirmed]
    /\ gone' = [gone EXCEPT ![h] = settled]
    /\ blind' = [blind EXCEPT ![h] = FALSE]
    /\ UNCHANGED <<store, lock, clock, crashes, dbErrors, got, discarded, settled>>

-----------------------------------------------------------------------------
(* store_message                                                            *)

StoreMem(h) ==
    LET m == req[h].msg
        r == RecipientOf[m] IN
    /\ At(h, "lock", "store")
    /\ lock = NoTask
    /\ lock' = h
    /\ mem' = [mem EXCEPT ![r] = MailboxStore(@, m)]
    /\ arrival' = [arrival EXCEPT
                     ![m] = 1 + Cardinality({n \in Msgs : arrival[n] > 0})]
    /\ storedAt' = [storedAt EXCEPT ![m] = clock]
    /\ Goto(h, "db")
    /\ UNCHANGED <<row, req, clock, crashes, dbErrors, told, got, ghosts>>

StoreInsert(h) ==
    /\ At(h, "db", "store")
    /\ row' = [row EXCEPT ![req[h].msg] = "new"]
    /\ lock' = NoTask
    /\ Goto(h, "reply")
    /\ UNCHANGED <<mem, arrival, storedAt, req, clock, crashes, dbErrors, told,
                   got, ghosts>>

\* Mutant of StoreInsertFails: the error is dropped, as ack and purge drop theirs,
\* and the sender is answered ok.
StoreInsertErrorDropped(h) ==
    /\ At(h, "db", "store")
    /\ DbError
    /\ lock' = NoTask
    /\ Goto(h, "reply")
    /\ UNCHANGED <<store, req, clock, crashes, told, got, ghosts>>

\* Mutant of StoreInsertFails: the error path does not release the lock.
StoreInsertFailsLocked(h) ==
    /\ At(h, "db", "store")
    /\ DbError
    /\ told' = [told EXCEPT ![req[h].msg] = "error"]
    /\ Finish(h)
    /\ UNCHANGED <<store, lock, clock, crashes, got, discarded, settled>>

\* The ? after the INSERT returns the error; the entry pushed before it stays.
StoreInsertFails(h) ==
    /\ At(h, "db", "store")
    /\ DbError
    /\ lock' = NoTask
    /\ told' = [told EXCEPT ![req[h].msg] = "error"]
    /\ Finish(h)
    /\ UNCHANGED <<store, clock, crashes, got, discarded, settled>>

StoreReply(h) ==
    /\ At(h, "reply", "store")
    /\ told' = [told EXCEPT ![req[h].msg] = "ok"]
    /\ Finish(h)
    /\ UNCHANGED <<store, lock, clock, crashes, dbErrors, got, discarded, settled>>

-----------------------------------------------------------------------------
(* fetch_messages                                                           *)

\* Mutant of FetchQuery: a nonempty in-memory mailbox is answered from, as the
\* comment "in-memory cache for fast reads" suggests.
FetchMemoryFirst(h) ==
    LET box == mem[req[h].to]
        rows == IF box # {} THEN box ELSE Undelivered(req[h].to) IN
    /\ At(h, "db", "fetch")
    /\ IF rows # {} THEN /\ got' = [got EXCEPT ![h] = rows]
                         /\ Goto(h, "reply")
                    ELSE /\ Goto(h, "lock")
                         /\ UNCHANGED got
    /\ UNCHANGED <<store, lock, req, clock, crashes, dbErrors, told, ghosts>>

\* Undelivered rows, of any age and number, are the answer if there are any.
FetchQuery(h) ==
    LET rows == Undelivered(req[h].to) IN
    /\ At(h, "db", "fetch")
    /\ IF rows # {} THEN /\ got' = [got EXCEPT ![h] = rows]
                         /\ Goto(h, "reply")
                    ELSE /\ Goto(h, "lock")
                         /\ UNCHANGED got
    /\ UNCHANGED <<store, lock, req, clock, crashes, dbErrors, told, ghosts>>

FetchQueryFails(h) ==
    /\ At(h, "db", "fetch")
    /\ DbError
    /\ blind' = [blind EXCEPT ![h] = TRUE]
    /\ Goto(h, "lock")
    /\ UNCHANGED <<store, lock, req, clock, crashes, told, got, due, gone,
                   discarded, settled>>

\* The in-memory fallback waits for the read lock.
FetchMem(h) ==
    /\ At(h, "lock", "fetch")
    /\ lock = NoTask
    /\ got' = [got EXCEPT ![h] = MailboxFetch(mem[req[h].to])]
    /\ Goto(h, "reply")
    /\ UNCHANGED <<store, lock, req, clock, crashes, dbErrors, told, ghosts>>

FetchReply(h) ==
    /\ At(h, "reply", "fetch")
    /\ got' = [got EXCEPT ![h] = {}]
    /\ Finish(h)
    /\ UNCHANGED <<store, lock, clock, crashes, dbErrors, told, discarded, settled>>

-----------------------------------------------------------------------------
(* ack_message and purge_all_messages                                       *)

\* Mutant of AckMem: only the table is updated.
AckMemSkipped(h) ==
    /\ At(h, "lock", "ack")
    /\ lock = NoTask
    /\ Goto(h, "db")
    /\ UNCHANGED <<store, lock, req, clock, crashes, dbErrors, told, got, ghosts>>

AckMem(h) ==
    /\ At(h, "lock", "ack")
    /\ lock = NoTask
    /\ mem' = [mem EXCEPT ![req[h].to] = MailboxAck(@, req[h].seq)]
    /\ Goto(h, "db")
    /\ UNCHANGED <<arrival, storedAt, row, lock, req, clock, crashes, dbErrors,
                   told, got, ghosts>>

PurgeMem(h) ==
    /\ At(h, "lock", "purge")
    /\ lock = NoTask
    /\ mem' = [mem EXCEPT ![req[h].to] = {}]
    /\ Goto(h, "db")
    /\ UNCHANGED <<arrival, storedAt, row, lock, req, clock, crashes, dbErrors,
                   told, got, ghosts>>

\* What a successful UPDATE or DELETE of h's request leaves behind.
Discard(h, taken) ==
    /\ discarded' = discarded \cup taken
    /\ settled' = settled \cup due[h]
    /\ Finish(h)
    /\ UNCHANGED <<mem, arrival, storedAt, lock, clock, crashes, dbErrors, told, got>>

AckUpdate(h) ==
    LET taken == {m \in Undelivered(req[h].to) : SeqOf[m] = req[h].seq} IN
    /\ At(h, "db", "ack")
    /\ row' = [m \in Msgs |-> IF m \in taken THEN "delivered" ELSE row[m]]
    /\ Discard(h, taken)

PurgeDelete(h) ==
    LET taken == MailOf(req[h].to) IN
    /\ At(h, "db", "purge")
    /\ row' = [m \in Msgs |-> IF m \in taken THEN "absent" ELSE row[m]]
    /\ Discard(h, {m \in taken : row[m] # "absent"})

\* `let _ =' drops the error; the requester is answered ok all the same.
DiscardFails(h) ==
    /\ At(h, "db", "ack") \/ At(h, "db", "purge")
    /\ DbError
    /\ Finish(h)
    /\ UNCHANGED <<store, lock, clock, crashes, told, got, discarded, settled>>

-----------------------------------------------------------------------------
(* cleanup_expired                                                          *)

CleanupMem ==
    /\ pc[Cleaner] = "idle"
    /\ lock = NoTask
    /\ lock' = Cleaner
    /\ mem' = [r \in Recipients |-> MailboxFetch(mem[r])]
    /\ req' = [req EXCEPT ![Cleaner] = [op |-> "cleanup", now |-> clock]]
    /\ Goto(Cleaner, "db")
    /\ UNCHANGED <<arrival, storedAt, row, clock, crashes, dbErrors, told, got,
                   ghosts>>

CleanerRests ==
    /\ lock' = NoTask
    /\ Goto(Cleaner, "idle")
    /\ req' = [req EXCEPT ![Cleaner] = None]

\* Only rows already delivered are deleted.
CleanupDelete ==
    /\ pc[Cleaner] = "db"
    /\ row' = [m \in Msgs |->
                 IF row[m] = "delivered" /\ storedAt[m] < req[Cleaner].now - TTL
                 THEN "absent" ELSE row[m]]
    /\ CleanerRests
    /\ UNCHANGED <<mem, arrival, storedAt, clock, crashes, dbErrors, told, got,
                   ghosts>>

CleanupDeleteFails ==
    /\ pc[Cleaner] = "db"
    /\ DbError
    /\ CleanerRests
    /\ UNCHANGED <<store, clock, crashes, told, got, ghosts>>

-----------------------------------------------------------------------------
Tick ==
    /\ clock < MaxClock
    /\ clock' = clock + 1
    /\ UNCHANGED <<store, lock, pc, req, crashes, dbErrors, told, got, ghosts>>

\* The process ends and RelayState::new runs again: the table is kept, the
\* mailboxes start empty, requests under way are never answered.
Restart ==
    /\ crashes < MaxCrashes
    /\ crashes' = crashes + 1
    /\ mem' = [r \in Recipients |-> {}]
    /\ lock' = NoTask
    /\ pc' = [t \in Tasks |-> "idle"]
    /\ req' = [t \in Tasks |-> None]
    /\ got' = [h \in Handlers |-> {}]
    /\ due' = [h \in Handlers |-> {}]
    /\ gone' = [h \in Handlers |-> {}]
    /\ blind' = [h \in Handlers |-> FALSE]
    /\ UNCHANGED <<arrival, storedAt, row, clock, dbErrors, told, discarded, settled>>

StoreSteps(h) ==
    StoreMem(h) \/ StoreInsert(h) \/ StoreInsertFails(h) \/ StoreReply(h)
FetchSteps(h) ==
    FetchQuery(h) \/ FetchQueryFails(h) \/ FetchMem(h) \/ FetchReply(h)
DiscardSteps(h) ==
    AckMem(h) \/ PurgeMem(h) \/ AckUpdate(h) \/ PurgeDelete(h) \/ DiscardFails(h)
Step(h) == StoreSteps(h) \/ FetchSteps(h) \/ DiscardSteps(h)
CleanerStep == CleanupMem \/ CleanupDelete \/ CleanupDeleteFails

Next ==
    \/ \E h \in Handlers : (\E q \in Requests : Receive(h, q)) \/ Step(h)
    \/ CleanerStep
    \/ Tick
    \/ Restart

Spec == Init /\ [][Next]_vars

\* Tokio polls every task that can run, and its RwLock serves waiters in order of
\* arrival: a task that waits for the lock gets it although others keep taking it.
FairSpec ==
    /\ Spec
    /\ \A h \in Handlers : SF_vars(Step(h))
    /\ WF_vars(CleanupDelete \/ CleanupDeleteFails)
-----------------------------------------------------------------------------
(* Properties                                                               *)

PcOf == {"idle", "lock", "db", "reply"}

\* Every variable has its type, and a task's label fits its request: only the
\* cleaner runs cleanup_expired, an idle task has no request.
TypeOK ==
    /\ mem \in [Recipients -> SUBSET Msgs]
    /\ arrival \in [Msgs -> Nat]
    /\ storedAt \in [Msgs -> 0 .. MaxClock]
    /\ row \in [Msgs -> {"absent", "new", "delivered"}]
    /\ lock \in Tasks \cup {NoTask}
    /\ pc \in [Tasks -> PcOf]
    /\ req \in [Tasks -> Requests \cup CleanupReqs \cup {None}]
    /\ \A h \in Handlers : req[h] \in IF pc[h] = "idle" THEN {None} ELSE Requests
    /\ req[Cleaner] \in IF pc[Cleaner] = "idle" THEN {None} ELSE CleanupReqs
    /\ clock \in 0 .. MaxClock
    /\ crashes \in 0 .. MaxCrashes
    /\ dbErrors \in 0 .. MaxDbErrors
    /\ told \in [Msgs -> {"unsent", "waiting", "ok", "error"}]
    /\ got \in [Handlers -> SUBSET Msgs]
    /\ due \in [Handlers -> SUBSET Msgs]
    /\ gone \in [Handlers -> SUBSET Msgs]
    /\ blind \in [Handlers -> BOOLEAN]
    /\ discarded \in SUBSET Msgs
    /\ settled \in SUBSET Msgs

\* Durability: a message whose sender was answered ok has an undelivered row,
\* through restarts, evictions from the in-memory mailbox and hourly cleanups,
\* until the SQL statement of an ack or a purge takes it.
Durable == \A m \in Confirmed : row[m] = "new" \/ m \in discarded

\* A fetch whose SELECT did not fail returns every message that was confirmed to
\* its sender before the fetch was received, unless an ack or purge took it in
\* the meantime; the in-memory fallback included.
FetchComplete ==
    \A h \in Handlers :
        At(h, "reply", "fetch") /\ ~blind[h] => due[h] \subseteq got[h] \cup discarded

\* No resurrection: once an ack or purge has finished, and its SQL statement did
\* not fail, the messages it was about are in no later fetch's answer: neither
\* from the table nor from the in-memory mailbox the fetch falls back to.
SettledNeverReturns == \A h \in Handlers : got[h] \cap gone[h] = {}

\* The caps of Mailbox::store: a mailbox holds at most MAX_MAILBOX_SIZE entries
\* and at most MAX_ENTRIES_PER_SENDER of one sender.
MailboxBounds ==
    \A r \in Recipients :
        /\ Cardinality(mem[r]) <= MaxMailbox
        /\ \A s \in Senders :
              Cardinality({m \in mem[r] : SenderOf[m] = s}) <= MaxPerSender

\* Every request a handler has taken up ends: no handler waits forever for the
\* lock that store_message and cleanup_expired hold across their SQL statement.
RequestsFinish == \A h \in Handlers : pc[h] # "idle" ~> pc[h] = "idle"

\* docs/security-delivery-review.md:100, on purge_all_messages: "Both cleared
\* atomically".  With no SQL error and no request under way, memory holds
\* nothing that the table has lost.
PurgeClearsBoth ==
    (dbErrors = 0 /\ \A t \in Tasks : pc[t] = "idle")
        => \A r \in Recipients : mem[r] \subseteq Undelivered(r)

\* DEVELOPER.md:396, on relay-fetch: "Return mailbox entries (TTL 7 days)".  An
\* entry older than the TTL is in no answer.
ExpiredNotServed ==
    [][\A h \in Handlers :
         got'[h] # got[h] => \A m \in got'[h] : clock - storedAt[m] < TTL]_vars
=============================================================================
