# NullNode in TLA+

NullNode is a messenger. Clients find each other through a DHT of bootstrap nodes,
leave mail for each other at relays, and talk directly when both are online. This
directory models the parts of it where steps of several tasks interleave, where
something is kept in memory and in SQLite at once, or where a message may come late,
twice or not at all. All paths below are relative to `src/`.

## The system

| Part | State | Operations | What makes it hard |
|---|---|---|---|
| relay mailbox store (`relay/src/main.rs`, `Mailbox`, `RelayState`) | `mailboxes` behind a tokio `RwLock`, table `mailbox_entries` | `store_message`, `fetch_messages`, `ack_message`, `purge_all_messages`, `cleanup_expired` | two copies changed one after the other, with and without the lock; failing SQL; restarts; two caps and a TTL |
| relay request admission (`handle_message`) | `seen_nonce_strs`, `cert_cache`, the clock | checks of signature, timestamp, HMAC and nonce for store, fetch, ack, purge and forward | copies of a request on several connections; the checks are not atomic; two clocks of different precision; a bounded nonce list that a restart empties |
| relay federation and onion delivery (`FederationState`) | routes, peers, a bounded channel per peer, pending challenges | gossip, who-has, forward, peer authentication, onion-v1 | stale routes, hop limits, peers that are dialled once, messages dropped at a full channel |
| relay connections (`handle_connection`) | rate limiters, `known_peers`, heartbeat | accept, message loop, heartbeat timeout | a bounded table that forgets |
| DHT node (`dht-core/src/dht_node.rs`) | `seen_nonces`, rate limiter | `handle_put`, `handle_get`, `handle_addr_record`, prune task | check and write in separate queries; restarts; key limit |
| DHT store (`dht-core/src/sqlite_store.rs`) | tables `kv_store`, `nonce_log` | `get`, `put`, `has_key`, `count_keys`, ... | seq and nonce are compared outside the transaction |
| client registration (`client/src/main.rs`, `dht_register`) | the seq it chooses | get, proof of work, put | the seq depends on an answer that hides expired rows; a solver that counts from 0 may come upon a used nonce |
| client relay delivery (`send_via_relay`, `relay_fetch`, `relay_decrypt_message`, `relay_purge`) | ratchet sessions and messages in SQLite | send, fetch, decrypt, purge | a lost answer, two sides opening a session at once, a crash between decrypt and save |
| double ratchet (`crypto/src/lib.rs`) | root and chain keys, counters | encrypt, decrypt | both sides must advance alike; a length guessed from the last two bytes |
| client home directory (`main`, `generate_identity`, `load_cert`, `DbEncryptionKey`, contacts, aliases) | PID file, database key, certificate, Kyber key, identity, two books | one process per command | every command is a process; kills between and inside writes |
| padding (`pad_message_bucket`), braid (`protocol/src/braid.rs`), PIR, delivery tokens | none, or a session | pure algorithms and small state machines | boundaries, a length in one byte, chunks out of order |
| p2p (`p2p/src`) | peers, pending queues, handshakes | connect, queue, drain, handshake with proof of work | bounded queues, timeouts, a removal in two halves under two locks |
| rate limiter, pin cache, certificate cache, bot log (`dht-core/src`) | windows, pins, an LRU, rotated files | check, save, evict, rotate | limits; concurrent processes or tasks on one file |
| bootstrap server (`bootstrap/src/main.rs`) | its null id, a Kyber key file | start, stop | restarts, a kill inside the save, files shared with the client |

Interaction: a client talks to DHT nodes and relays over WebSockets, one handler task per
connection; the handlers of one process share its state through `RwLock`s and the SQLite
pool. Relays talk to each other in the same protocol. Nothing else is shared.

What makes each part correct:

* mailbox: mail confirmed to its sender is neither lost nor withheld, mail that was
  acknowledged or purged does not come back, the caps hold, no request waits forever;
* admission: a request takes effect at most once, and the guard against copies is bounded;
* DHT: a key's version only grows, a publication is stored once, a valid registration is
  stored;
* client delivery: every message a sender was told is delivered can be decrypted, once, and goes
  from the mailbox when it was read;
* federation: what one relay advertises the others learn, expired routes and peers go, a
  challenge is good for one answer;
* home directory: one command at a time, an identity on disk that can be used, no contact lost;
* the tables of limiters, peers and certificates: bounded, and forgetting only what they may;
* files (pins, log, server key): what was pinned, logged or generated stays;
* handshake, braid, padding: the two sides agree, whatever order messages come in.

## Modules

| Module | Models | Role |
|---|---|---|
| `RelayMailbox` | the mailbox store | specification and properties |
| `RelayMailboxProofs` | | theorems |
| `RelayAdmission` | admission of a request | specification and properties |
| `RelayAdmissionProofs` | | theorems |
| `VersionedRegister` | what `DhtStore::put` promises | abstract specification |
| `DhtNode` | DHT node and store | specification, refinement mapping to `VersionedRegister` |
| `DhtNodeProofs` | `DhtNode`, `DhtRegistration` | theorems |
| `DhtRegistration` | `dht_register` with the node | composition: extends `DhtNode` |
| `ClientDelivery` | send, read and listen over ratchet sessions and one relay | specification, safety and liveness |
| `ClientDeliveryProofs` | | theorems |
| `Federation` | relays among each other | specification and properties |
| `FederationProofs` | | theorems |
| `ClientHome` | the files under `~/.nullnode` | specification and properties |
| `ClientHomeProofs` | | theorems |
| `PeerManager`, `Handshake` | the p2p library | specification and properties |
| `RateLimits`, `PinCache`, `CertCache`, `BotLog` | dht-core's tables and files | specification and properties |
| `Braid`, `Padding` | reassembly of keys, padding of messages | algorithm against its reference |
| `BootstrapIdentity` | the id of the bootstrap server | specification and property |
| `FileProofs` | `BootstrapIdentity`, `PinCache`, `BotLog` | theorems |
| `PartsProofs` | `PeerManager`, `RateLimits`, `CertCache`, `Handshake`, `Padding`, `Braid` | theorems |
| `MC...` | | instances for TLC |

### RelayMailbox

`mem[r]` is the `entries` of r's `Mailbox` (a set; `arrival` keeps the order of the `Vec`),
`row[m]` the row of m in `mailbox_entries` (`"new"` is `delivered = 0`), `lock` the writer of
`mailboxes`. A handler's `pc` names the await it stands at, `req` the request, `got` the
entries of the answer it will send, `told[m]` what m's sender was answered. A client sends each
message once; `seq` values of different senders may be equal, and an ack names only a `seq`.

| Action | Code |
|---|---|
| `Receive` | an admitted request enters its arm of `handle_message` |
| `StoreMem`, `StoreInsert`, `StoreInsertFails`, `StoreReply` | `store_message`: push under the lock, INSERT under the same lock, answer |
| `FetchQuery`, `FetchQueryFails`, `FetchMem`, `FetchReply` | `fetch_messages`: SELECT; on no rows or an error the in-memory mailbox; answer |
| `AckMem`, `AckUpdate`, `PurgeMem`, `PurgeDelete`, `DiscardFails` | the two halves of `ack_message` and `purge_all_messages`; the SQL result is ignored |
| `CleanupMem`, `CleanupDelete`, `CleanupDeleteFails` | `cleanup_expired`, under the lock throughout |
| `Restart` | the process stops anywhere; memory and connections are lost, the table stays |
| `Tick` | time passes |

`due`, `gone`, `blind`, `discarded` and `settled` are observations (history variables): what a
fetch must return, what it must not, whether its SELECT failed, what an ack or purge has taken
from the table. No guard reads them. A relay run without a database is not modelled: nothing is
durable there.

### RelayAdmission

`seen[f]` is the list `seen_nonce_strs[f]`, a set of pairs numbered by `n`; `certs` is
`cert_cache`. `Check` does everything an arm does before the wait for the lock of
`seen_nonce_strs`: the order of its checks, which differs between arms, decides whether a
certificate is cached (`ReachesVerify`, `CertsAfter`). `CheckBusy` is a failing `try_write` or
`try_read` of `cert_cache`. `Refuse` and `Record` are `check_and_record_nonce_str`, in one step
as the lock is held throughout. `Record` also ends the admission: an HMAC that fails for a fetch
fails after its nonce was recorded. `DeliverCopy` may deliver any request again, at any time. The
clock counts half seconds, as the freshness check uses fractions and the nonce list whole
seconds. The federation's own checks of a forward are the predicate `Eligible`. The timestamp
of the envelope is not part of what is signed, and is taken to be current.

### DhtNode, VersionedRegister, DhtRegistration

`kv[k]` is a row of `kv_store` (seq, expiry and the nonce that wrote it), `nonceLog` the table
`nonce_log`, `seenNonces` the map beside them. The queries of `handle_put` and of
`DhtStore::put` are one action each: `HasKey`, `CountKeys` (with `LimitQueryFails`),
`CheckNonce`, `QueryNonce`, `QuerySeq`, `Commit` (the transaction), `Note`; `StoreFails` is any
of the store's queries failing. An address record skips to `QueryNonce` with the node's time as
seq. `Get` is `handle_get`, `Prune` the background task. Signature, fingerprint and proof of
work are the field `valid`. `contended` (keys that two handlers were writing at once) and
`stored` are observations.

`VersionedRegister` is the promise: `Write` is a record with a greater seq and a nonce new to the key,
until two writers meet at a key (`Meet`), which may be overwritten from then on (`Overwrite`).
`Register` maps `reg` to `kv`, `used` to `nonceLog` and `raced` to `contended`. `Commit` is a write, or an
overwrite of a contended key, the arrival of a second writer is a meeting, everything else stutters.

`DhtRegistration` adds a client that calls `dht_register` repeatedly: `Ask`, `Learn` (chooses the
seq), `Submit` or `GiveUp`, `Conclude`; `Disconnect` is a restart of the node. The client moves only when the
handler has answered. `pow_solve` returns the first solution counting from 0 and the salt is new in every call, so
`Submit` takes any nonce, one of an earlier call too; `nonce_log` is never pruned and refuses it.

### ClientDelivery

`sess[u][v]` is u's row of `ratchet_sessions` for v, `mail[u]` what the relay holds for u, `read[u]`
the rows of u's messages table; `req`, `work`, `todo` and `got` are the memory of the command u
runs. Keys are symbolic: a chain key is the secret it stems from, its half, and all that was
mixed into it, so two chain keys are equal exactly when the code's are (up to hash collisions).

| Action | Code |
|---|---|
| `Connect`, `HelloRefused` | `send_message` to a listener: the hello is signed over its payload and verified against the envelope, so it is refused and the command fails |
| `Send` | `send_via_relay` up to the request: session loaded or opened, message encrypted |
| `Store`, `StoreFails`, `Confirm`, `LoseAnswer` | the relay's part, and the ok that makes the sender save its session |
| `Fetch`, `DecryptNext`, `Show`, `Purge` | `relay_fetch`, one `relay_decrypt_message` per entry (which saves the session), printing and storing, `relay_purge` |
| `Kill` | the command ends anywhere |

`Purge` compares the fields `relay_purge` sends with those `RelayEnvelope` requires: they do not
suffice, so the mailbox is never emptied and every read fetches all of it again (`delivery_purge`). That
nothing is read twice rests on the ratchet alone. `parses` says whether the last two bytes of a message that
opens a session happen to look like a ciphertext length. `told`, `cut`, `missed` and `dropped` are
observations. All messages carry seq 1, and SQLite returns rows of equal seq in the order of
insertion here; the relay's caps, TTL and restarts are `RelayMailbox`'s.

### Federation

`local`, `peers`, `routes`, `pending` are the maps of `FederationState` and the mailboxes' keys, `dial` and
`chan` the connection `connect_to_peer` opens once and its channel. A gossip interval has
`GossipInterval` ticks, and `phase` says how many have passed since a relay's last round; each relay starts
anywhere in its interval, so routes and peers expire between rounds as well as at one. `Gossip` is a round of `gossip_task` with `cleanup_expired_routes` (`Swept`) at its end,
`GossipSkipped` the round that returns early without mailboxes. `Deliver` handles what a peer sent;
the other arms (`RouteAdvertise` with its ack, `PeerAuth`, `PeerAuthReply`, `RelayForward`, `Onion`) take their
input from any program, as no part of the repository sends it. `WhoHas` is the answer to who-has.

### ClientHome

A process goes through the steps of `hpc`: `Start` or `Refused` at the PID file, `OpenPid` (which empties it),
`WritePid`, the files of its command, `Exit`. `LoadOrCreateKey` is `DbEncryptionKey`, `Confirm` to `SaveIdentity` is `init` with and
without a passphrase, the books are loaded and saved whole. `Kill` is a kill between two writes,
`KillInWrite` one that leaves a file cut short, the PID file included: an empty one counts as stale. The signal handlers only notify a `Notify` that
nothing awaits, so a signal is a kill. PIDs are not reused.

### The smaller modules

* `PeerManager`: the two maps of `PeerManager`, `removing` the removal that holds the peers lock and
  waits for the pending lock. `PeerInfo::mark_sent` and `mark_received` reach only clones.
* `Handshake`: both handlers over one connection. The responder's ack is on the wire before its send returns
  (`AckSent`) or fails (`SendFails`). `Zeros` is the hash; the nonce starts anywhere in
  a `NonceSpace` and is refused above `NonceLimit`, as the code does with u64 and 10^9.
* `RateLimits`: `RateLimiter::allow` and `prune` for the DHT node, `conn_limiters` with its eviction and
  clean-up for the relay; `granted` is what was let in since the last eviction. `allow` and `prune` read
  the time before they wait for the lock, so at the DHT node they run with any time that has been;
  the limit is stated for the window that ends now, by the times that were entered.
* `PinCache`: `pin_update` and `bootstrap_pin_check` as load, open (which truncates) and write, behind the
  domain and issuer checks of `verify_bootstrap_cert`.
* `CertCache`: `cache_cert`, and `get_cached_cert` as a lookup and a later `Touch`; an entry is its date.
* `BotLog`: the connection loop of the DHT node and `rotate_if_needed`, a file operation per step.
* `Braid`: `split_key_to_chunks`, `add_chunk`, `reconstruct_enc_key`; the reference is the key itself.
* `Padding`: `pad_message_bucket` and `unpad_message_bucket`; the reference is the message itself. Sizes
  are scaled so that one byte has 4 values and the smallest bucket is 4, as 256 and 256.
* `BootstrapIdentity`: how the server comes by its null id at each start.

## Runs

| Run | Instance | Checks | Shows |
|---|---|---|---|
| `mailbox` | 2 handlers and the cleaner, 2 messages of one sender, clock 0..2 with TTL 1, one restart, one failing statement | `TypeOK`, `Durable`, `FetchComplete`, `SettledNeverReturns` | hold |
| `mailbox_caps` | 1 handler and the cleaner, 4 messages of 3 senders, mailbox of 2 with 1 per sender | `MailboxBounds`, `RequestsFinish` | hold |
| `mailbox_purge` | as `mailbox` | `PurgeClearsBoth` | violated, see findings |
| `mailbox_ttl` | as `mailbox` | `ExpiredNotServed` | violated, see findings |
| `dht` | either 2 handlers, 2 keys with room for 1, and 6 requests delivered 4 times in all, or a client that calls `dht_register` 3 times and 4 nonces; TTL 1, clock up to 3, one restart, one failing statement | `TypeOK`, `StoredOnce`, `SeenLogged`, `RefusedOnlyAfterLapse`, `SeqGrows`, `ImplementsRegister` | hold |
| `dht_race` | 2 handlers, two puts of one key | `SeqNeverDecreases` | violated, see findings |
| `registration_lapse` | the client alone, without failures | `RegisterStored` | violated, see findings |
| `delivery` | 2 users, 3 messages in any direction, one kill, any number of failed stores and lost answers | `TypeOK`, `ReadInOrderOnce`, `MissedOnlyIfUpset`, `ToldIsRead` | hold |
| `delivery_purge` | 2 users, 1 message, no kill | `PurgedAfterRead` | violated, see findings |
| `gossip` | 2 relays, one dials the other, one null id | `GossipHeard` | violated, see findings |
| `padding_strip` | as `Padding` below | `PaddingStripped` | violated, see findings |
| `parts` | one part at a time, see below | 22 properties | hold |

`parts` checks the twelve components that share no state. `active` names the part a behaviour is
about; the others keep their initial state, so the state spaces add up instead of multiplying. Its
instances:

| Part | Instance | Properties |
|---|---|---|
| `RelayAdmission` | 2 handlers, 9 requests of every kind on one fingerprint and 3 nonces, a list of 2 nonces, 4 deliveries, tolerance 1 s, clock 0..5 half seconds, one restart | `AdmissionTypeOK`, `AdmittedOnce`, `GuardBounded` |
| `Federation` | 2 relays, gossip every 2 ticks, route TTL and peer timeout 3 ticks, clock 0..4, channel of 1, 3 inputs | `FedTypeOK`, `SweptEveryRound`, `OneProofPerChallenge` |
| `ClientHome` | 2 processes at once, 3 in all, 2 contacts, one kill | `HomeTypeOK`, `OverlapOnlyAfterRace`, `IdentityUsable`, `BooksKept` |
| `PeerManager` | 2 peers, room for 1, queues of 2, 4 messages | `PeerTablesBounded`, `QueueKept` |
| `RateLimits` | 3 addresses, 2 buckets, 2 operations per window of 2, clock 0..4 | `RateHeld`, `LimitersBounded` |
| `PinCache` | 2 processes, 2 addresses, 4 certificates, one kill | `PinKept`, `SeedPinsTrusted` |
| `CertCache` | 2 threads, 3 certificates, room for 2, 9 instants | `EvictsLeastRecent` |
| `BotLog` | 2 connections, 2 lines per file, 2 rotated files, 8 lines | `LatestLinesKept` |
| `Handshake` | 7 nonces of which 2 are above the limit, 3 attempts, 2 challenges | `HonestSidesAgree` |
| `Braid` | 2 keys, one not a multiple of the chunk size | `BraidRebuildsKey` |
| `Padding` | all lengths that fit buckets of 4, 8, 16, 32 | `MessageSurvivesPadding` |
| `BootstrapIdentity` | 5 starts, kills | `StableIdentity` |

Why the bounds are enough. Two handlers are the fewest that interleave, and every race named
above is between two; the theorems cover more. Two messages of one sender differ in seq, which
lets an ack hit one and miss the other and the cap of 1 per sender evict. The clock passes the
TTL (or the tolerance) at least once with room on either side. One restart and one failing
statement may strike at every point. In the admission part the list of two nonces makes the cap bite
on the third push, and each of the three exceptions of `AdmittedOnce` is reached: dropping any
one of them from the property makes the run fail. In `dht` a client's record can be renewed, expire and be
registered again after that, with a nonce it has used or a new one; a route of the federation part can expire
in the middle of an interval and still be answered. In `delivery` three messages open a conversation, answer it
and go on, or cross; the exceptions of its properties (lost answers, killed reads, openings that do not parse or that cross)
all occur. In `parts` every table has one entry more than it has room for, every clock passes
every timeout, every file operation can meet a second process, and of each exception a property
names there is a behaviour that needs it. Symmetry is used on handlers only, and in no run with a liveness
property. `CHECK_DEADLOCK FALSE` everywhere: with its clock and its requests used up, a bounded
instance comes to rest.

### Fairness

`RequestsFinish` is checked under `FairSpec`: strong fairness of each handler's step and weak
fairness of the cleaner's DELETE. Tokio polls every runnable task, a SQL statement ends (with a
result or an error), and the write lock of a tokio `RwLock` is given out in the order it was
asked for, so a handler that waits while the lock is taken and released again is served; that is
what strong fairness says. Requests need not arrive, the cleaner need not start, and the relay
need not crash. `FairSpec` of `DhtNode` (weak fairness of a handler's step) only makes the
counterexample of `dht_race` a behaviour in which both handlers go on to the end, and
`FedFairSpec` (weak fairness of `gossip_task` and of handling what a connection delivers) that of
`gossip` one in which no relay simply stops.

`ToldIsRead` is checked under `FairSpec` of `ClientDelivery`: a command that was started goes on (weak
fairness of its steps, where a request may succeed or fail), and each user runs the read command
again and again, whatever else it runs in between (strong fairness of `Fetch`, which is disabled
while another command runs). The latter is an assumption about users, as is the property.
Nothing needs to be sent, and no kill needs to happen.

## Theorems

All are proved for every value of the constants, so for any number of handlers, users, messages,
keys, requests, restarts, kills and failing statements, and for every cap, timeout and table size.
Each rests on the assumption named in the module that declares the constants, which TLC evaluates
for the instances it checks:

* fields of messages and requests have their types, sets that are counted are finite, caps are
  positive (`MailboxAssumption`, `AdmissionAssumption`, `DhtAssumption`, `PeerManagerAssumption` and
  the like);
* the gossip interval, the route TTL and the peer timeout are positive (`FederationAssumption`; no relation between
  them is needed);
* a relay's idle limiter is kept for longer than a window (`RateLimitsAssumption`; 240 s against 60 s),
  and what a hello offers is within what a responder accepts (`HandshakeAssumption`);
* there is a largest bucket, and one of as many bytes as a byte has values, 256 (`PaddingAssumption`); keys
  are nonempty sequences of bytes (`BraidAssumption`);
* the value that stands for "nothing" (`Absent`, `Torn`, `None`, `NoPin`, `TornPins`, `NoLog`, `NoBucket`,
  `NoCert`) is none of the values a file, a table or a session can hold.

`RelayMailboxProofs`: `TypeCorrect`, `MailDurable`, `FetchIsComplete`, `SettledIsFinal`,
`MailboxesBounded`, `LockIsReleased`. `MailboxBounds` is a counting argument on what `Mailbox::store` evicts before it
pushes. The other invariants are inductive only in layers, each resting on the ones below:

1. `TypeOK`, with the request a handler can have at each place.
2. `DurableInv`: a message under store waits for its answer and only one handler stores it; at
   the reply its row is there or was taken. `Durable` alone says nothing of a message whose
   answer is still to come.
3. `CompleteInv`: what a fetch is due was confirmed and is in its reach; in the fallback after
   an empty SELECT that worked, all of it is already discarded.
4. `SettleInv`: what an ack or purge has taken from memory does not come back there before its
   SQL runs, a settled message is in no mailbox and no undelivered row, and only a fetch about
   to answer holds entries.

`LockIsReleased` says that the write lock is held exactly by the task at the INSERT of `store_message` or the DELETE of
`cleanup_expired`: errors and restarts release it, and no task asks for it while it holds it. For
`RequestsFinish` fairness has then only to add that statements end and that the lock is given out in turn.

`RelayAdmissionProofs`: `AdmissionTypeCorrect`, `AtMostOnce`, `GuardIsBounded`. `AdmittedOnce` is not inductive: it
does not say why a copy is refused. The strengthening `Remembered` does: the key of an admitted
request is still in `seen` with a time no earlier than its first admission, or its timestamp has
run out, or one of the exceptions holds. The step that carries the proof is arithmetic
(`PrunedIsStale`): a pair dropped by whole seconds belongs to a timestamp that is already stale
in half seconds, so truncation opens no gap.

`DhtNodeProofs`: `DhtTypeCorrect`, `StoredAtMostOnce`, `SeqMonotone`, `SeenIsLogged`,
`NodeRefinesRegister`. `WriteInv` says of a handler inside `put`, for a key not contended, that
no other handler is writing the key, that the nonce it looked up is still not logged and that
the seq it read is still the row's. `SeenInv` adds that the handler at `Note` has committed.
`NodeRefinesRegister` holds for any number of handlers: at a key where no two writers have met, `WriteInv` makes
`Commit` a `Write`; at any other it is an `Overwrite`, which touches no other key, and `MeetChange` makes the
arrival of a second writer a `Meet`. A key at which writers met has no promise left; `dht_race` shows why.

The same module proves `RefusalsExcused` and `RegistrationRefinesRegister` of the client and the node together
(`DhtRegistration`). The step lemmas of the node are stated for `AnyNext`, a step of the node whatever request
arrives, so they hold under a client that chooses its requests from what it was answered. `ConnInv` ties what the
client waits for to what its connection's handler works on, `OwnRowInv` says that a nonce that was new when it was sent
is not logged before its commit and that a seq chosen in the knowledge of the row is not behind it at any query in between, and
`RefusalInv` that a refusal on its way to the client is already excused. Here the register's promise is kept without
exception: `AloneInv` says that only the client's connection is at work, so no key is ever contended.

`FederationProofs`: `FedTypeCorrect`, `StaleRoutesSwept`, `ChallengesUsedOnce`. `SweptEveryRound`
looks only at what who-has would answer; the inductive `SweptInv` says it of every entry of a relay
that has had its round, looked at or not: an entry has outlived its time by no more ticks than `phase` counts.
A tick adds one to both, a round that sweeps leaves nothing expired, and what a relay learns in
between carries the current time.

`ClientHomeProofs`: `HomeTypeCorrect`, `OneCommandAtATime`, `ContactsKept`, `IdentityStaysUsable`. All rest
on `AloneInv`: without a race for the PID file one process at most is alive, and once it runs the
file holds its PID. `BookInv` then says that what a command loaded is what the file still holds when it
saves, and `InitInv` what an `init` that has come so far has left in the files.

`ClientDeliveryProofs`: `DeliveryTypeCorrect`, `ReadingKeepsOrder`, `MissesAreExcused`,
`EntriesAreTaken`. As the mailbox is
never emptied, order and uniqueness come from the ratchet alone, and the proof says how. `MailInv`: ids
are used once, and what was fetched or read is still in the mailbox. `RequestInv`: a pending send holds
the newest message of its user, made with the session still in the table. `SentInv`: a stored message
whose sender knows of it is in its sending chain, and in the chain of every later message.
`TakenInv`: a receiving chain consists of what was decrypted and of nothing else. A message is decrypted only
where the two chains are equal, so all that was sent before it was taken, and it was not. `OrderInv`
carries that from the decrypted messages to the printed ones.

`MissesAreExcused` (`MissedOnlyIfUpset`) needs the converse: that a message can be decrypted at all. `StepInv` relates
the two sides of every conversation that was not upset. `Held` is the session a side has once the relay has stored
its message, before the answer makes it a row; for each direction, `Direction` says that the relay holds
exactly the messages that brought the sending chain to where it is, one per position and in the order of their ids,
that the receiving chain is the sending chain at an earlier time (`Within`), and that the messages before it are what was
decrypted. While one side has no session yet, the other has opened one and heard nothing. Four lemmas say
what happens to a direction: a message is stored (`DirectionGrows`), the message waited for is decrypted
(`DirectionTakes`), the first message not decrypted is the one waited for (`DirectionNext`), nothing was sent
(`DirectionFresh`). A lost answer breaks the invariant and makes the conversation upset in the same step; two
sides that open a session each are upset because the first message of either is in the mailbox (`OpenersCross`).
`PassInv` adds that a read command goes through the entries in order and has left nothing
undecrypted behind, so that what it cannot decrypt was decrypted before (`SkipsOld`).
`EntriesAreTaken` states this of every step of a read command. It is the safety half of `ToldIsRead`: fairness has only
to add that read commands come to their end. `StepInv`, `PassInv` and `KnownInv` were checked with TLC
before they were proved, with two users and up to four messages.

`FileProofs`: `ServerKeepsItsId` (`SameFiles`: the files still lead to the last id, and a server
that is saving a key had none), `FirstPinStays` (`PinsInv`: what a process is about to write agrees with
every first pin, and one process at most is between load and write of a file), `PinnedCertsTrusted` (`ChecksInv`: the
same of the checks, with no exception for races and kills), `RotationKeepsLines`. For the
latter `LogInv` divides the lines written so far among the files: `Divides(b, k)` says that file i holds the
lines from `b[i + 1]` to `b[i]`, where the files up to k have already moved up by one. It holds for a `b` at every
step of a rotation.

`PartsProofs`: `PeerTablesStayBounded`, `QueuesKept`, `SidesAgree`, `LeastRecentEvicted`, `RatesHeld`,
`LimiterTablesBounded`, `PaddedReadsBack`, `KeyRebuilt`. `DatesInv` says that an entry of the certificate cache is dated no earlier than its
last use unless a thread is still to date it. `RateInv` says that a bucket still has every operation that
was let in and counts, and was used no earlier than its latest time, which is why the clean-up by last access is safe;
an address without a bucket has nothing that counts. `HandInv` says that an answer comes only after a hello that
passed the checks, and that what a program of the repository sends for a puzzle has the difficulty it promises and
solves that puzzle, unless none of the nonces tried does (`HonestProof`).
For `PaddedReadsBack` the lemmas follow the bytes: `PadBytes` what is at each place of a padded message,
`UnpadPadded` how much of it the header byte removes, which is the padding's length modulo 256 and so all of it
below that. `BraidInv` says that what a
handshake has collected are chunks of one key, each once, and that it is complete when there are as many as the key has;
as chunks are numbered, that many different ones are all of them (`AllThere`), and each byte of the key is covered by
exactly one (`Reconstructed`). Both algorithms are written as functions of the position, not by
recursion, so that no induction over data is needed.

Only model-checked:

* `RequestsFinish` and `ToldIsRead`: liveness under fairness is out of the prover's reach. The safety half of
  each is a theorem (`LockIsReleased`, `EntriesAreTaken`).

Every other property of the passing runs is stated by a theorem.

## Findings

* `mailbox_purge`: `docs/security-delivery-review.md:100` says memory and disk are "cleared
  atomically". `purge_all_messages` gives up the lock in between; a message stored then keeps
  its place in memory and loses its row. `Durable` counts it as taken by the purge, as a message
  stored a moment earlier would be.
* `mailbox_ttl`: `DEVELOPER.md:396` promises a TTL of seven days. The SELECT of
  `fetch_messages` has none, and `cleanup_expired` deletes delivered rows only.
* `dht_race`: the comment on `DhtStore::put` says it stores only a higher seq. Two concurrent
  puts compare with the same old row, and the one that commits last stays.
* `registration_lapse`: `DEVELOPER.md:452` says a valid registration is stored. After its record
  has expired the client is told it is unknown and sends seq 0; the node compares with the
  expired row, which nothing deletes, and answers "stale sequence", every time.
* `delivery_purge`: `docs/security-delivery-review.md:151` and `DEVELOPER.md:717` say that the mailbox is purged
  after every successful read. `relay_purge` sends its fields without the envelope that `RelayEnvelope` requires;
  the relay parses none of it and deletes nothing.
* `padding_strip`: the comments at `client/src/main.rs:2370` and `2402` say that the header byte holds the length of
  the padding so that the receiver can strip it. The length is cast to a byte; from 256 bytes of padding on
  the reader gets a multiple of 256 random bytes after the message.
* `gossip`: the comment at `relay/src/main.rs:1786` and `DEVELOPER.md:728` say that `gossip_task`
  advertises the known null ids to connected peers. It fills in `relay_url` and `null_ids`;
  `RouteAdvertise` also requires `route_count` and `ttl`, so the receiver answers with an error and
  learns no route.

## Not modelled, and why

* Kyber, OpenPGP, Argon2id, AES-GCM, locked memory: what they compute is out of TLC's reach; a
  signature, a proof of work or a ciphertext is valid or not.
* SOCKS5, STUN, TLS and the WebSocket layer: I/O around fixed formats.
* PIR: linear algebra over a database in memory, without state. Delivery tokens, cover traffic
  and cbnp: no caller in the programs. `SharedBotLogger`: no caller.
* Relay heartbeat and overload answers: they change no state the models have. The pinning of peer
  certificates in the relay cannot run, as its acceptor asks for no client certificate.
* Code without a caller: `send_via_onion` of the client; `add_peer`, `record_nonce`, `forward_to_peer` and
  `seen_nonces` of the federation; `PeerInfo.routes`, which nothing reads; `delete_expired`, `record_nonce`,
  `prune_old_nonces` of the DHT store, which only tests call. What `send_message` and
  `handle_incoming_connection` do after an accepted hello cannot be reached: the hello never verifies.
* `PeerManager`, `Handshake`, `Braid` and `PinCache` model library code that the programs export or test but
  do not call; they are checked as the library promises, not in a composition.
* `verify_bootstrap_cert` parses its host with `unwrap_or(LOCALHOST)`, so a host name leads to the
  local machine; the TLS connection it then makes is left out.
* A clock that is set back, with the unsigned subtraction in `Mailbox::fetch`: a debug build panics
  there and a release build wraps; neither changes what the mailbox keeps.
* `MAX_TOTAL_KEYS` of the DHT: modelled as the queries it is, but there is no bound to state (address
  records and renewed expired rows are not counted).
* The exceptions of the properties that a reader should know are gaps of the code and not of the models: two
  commands that look at the PID file at once, an `init` that is killed or that leaves an old `own_cert.age` behind,
  a contacts file cut short, unlocked pin files, concurrent log rotation, and a handshake nonce that
  starts at a random u64 and is refused above 10^9, as nearly every one is.
* An address record takes the place of an identity record under the same key: modelled, but there is nothing in the
  repository to hold it against, and the key's version grows as it should.
* File permissions, metadata encryption of rows, log texts.

## Plan

Done: mailbox store, admission, DHT node with its abstract register, registration, client delivery
with the ratchet, federation with onion delivery, the home directory, p2p peers and handshake, the
tables and files of dht-core, braid, padding, the bootstrap server's identity.

Left:

* Composition of `RelayAdmission` with `RelayMailbox`: a message is stored once per admission.
