--------------------------- MODULE ClientDelivery ---------------------------
(***************************************************************************)
(* How the client sends and reads messages (client/src/main.rs: the send,  *)
(* read and listen commands) over the ratchet sessions of crypto/src/lib.rs *)
(* and the mailboxes of one relay.  Every command is a process of its own: *)
(* what it keeps in memory is lost when it ends, sessions are rows of      *)
(* ratchet_sessions.  A user runs one command at a time (see ClientHome).  *)
(*                                                                         *)
(* Keys are symbolic.  A chain key is the secret it was derived from, the  *)
(* half of the derivation it started as, and what was mixed into it since; *)
(* a message can be decrypted with exactly the chain key it was made with. *)
(*                                                                         *)
(* The relay appends what it stores and returns it in that order: all      *)
(* messages carry seq 1, by which it sorts.  RelayMailbox models it.       *)
(***************************************************************************)
EXTENDS Naturals, Sequences, FiniteSets, Functions

CONSTANTS
    Users,
    None,          \* no session, no message
    MaxMessages,   \* bound: messages made by send commands
    MaxKills       \* bound: commands that are killed

ASSUME DeliveryAssumption ==
    /\ IsFiniteSet(Users)
    /\ MaxMessages \in Nat /\ MaxKills \in Nat

VARIABLES
    mail,      \* mail[u]: what the relay holds for u, in order
    sess,      \* sess[u][v]: u's row of ratchet_sessions for v
    pc,        \* where u's command is
    to,        \* whom u's send command is for
    req,       \* the message u's send command has made
    work,      \* the session in the memory of u's send command
    todo,      \* entries u's read command has fetched and not yet tried
    got,       \* messages it has decrypted and not yet printed
    read,      \* read[u]: messages printed and put into u's messages table
    made, kills,
    \* Observations the properties are stated with; no action reads them.
    told,      \* messages whose sender was told "delivered"
    cut,       \* messages stored whose sender was not told
    missed,    \* entries that could not be decrypted when first tried
    dropped    \* messages decrypted by a read that was killed before it printed

local == <<to, req, work, todo, got>>
ghosts == <<told, cut, missed, dropped>>
vars == <<mail, sess, pc, local, read, made, kills, ghosts>>

Ids == 1 .. MaxMessages

-----------------------------------------------------------------------------
(* DoubleRatchetSession                                                     *)

Chains == [secret : Ids, half : {1, 2}, mixed : Seq(Ids \cup {0})]
Sessions == [send : Chains, recv : Chains]

\* What stands for no row of ratchet_sessions is not a session.
ASSUME NoneAssumption == None \notin Sessions

\* new: both chain keys come from the secret; the side that did not open the
\* session swaps them.
NewSession(secret, initiator) ==
    LET half(n) == [secret |-> secret, half |-> n, mixed |-> <<>>] IN
    IF initiator THEN [send |-> half(1), recv |-> half(2)]
                 ELSE [send |-> half(2), recv |-> half(1)]

\* derive_message_key, after `x' (the secret of a fresh encapsulation, 0 for none)
\* was mixed into the chain key.
Advance(chain, x) == [chain EXCEPT !.mixed = Append(@, x)]

\* A message on the wire.  `opens' is the secret of the encapsulation in
\* kyber_ciphertext, 0 when there is none.
Messages ==
    [id : Ids, from : Users, chain : Chains, mix : Ids \cup {0},
     opens : Ids \cup {0}, parses : BOOLEAN]

\* encrypt_first, encrypt_message
Encrypted(session, id, from, opens, parses) ==
    [id |-> id, from |-> from, chain |-> session.send,
     mix |-> IF opens = 0 THEN id ELSE 0, opens |-> opens, parses |-> parses]
AfterEncrypt(session, m) == [session EXCEPT !.send = Advance(@, m.mix)]

\* decrypt_message succeeds: the last two bytes are a length exactly when there
\* is one, and the chain keys agree.
Decrypts(session, m) == m.parses /\ session.recv = m.chain
AfterDecrypt(session, m) == [session EXCEPT !.recv = Advance(@, m.mix)]

-----------------------------------------------------------------------------
Init ==
    /\ mail = [u \in Users |-> <<>>]
    /\ sess = [u \in Users |-> [v \in Users |-> None]]
    /\ pc = [u \in Users |-> "idle"]
    /\ to = [u \in Users |-> u]
    /\ req = [u \in Users |-> None]
    /\ work = [u \in Users |-> None]
    /\ todo = [u \in Users |-> <<>>]
    /\ got = [u \in Users |-> <<>>]
    /\ read = [u \in Users |-> <<>>]
    /\ made = 0 /\ kills = 0
    /\ told = {} /\ cut = {} /\ missed = {} /\ dropped = {}

\* save_session and load_session of the MessageStore.
LoadSession(u, v) == sess[u][v]
SaveSession(u, v, session) == sess' = [sess EXCEPT ![u][v] = session]

Goto(u, label) == pc' = [pc EXCEPT ![u] = label]

\* The command of u ends, and its memory with it.
End(u) ==
    /\ Goto(u, "idle")
    /\ to' = [to EXCEPT ![u] = u]
    /\ req' = [req EXCEPT ![u] = None]
    /\ work' = [work EXCEPT ![u] = None]
    /\ todo' = [todo EXCEPT ![u] = <<>>]
    /\ got' = [got EXCEPT ![u] = <<>>]

-----------------------------------------------------------------------------
(* send_message, when the recipient's listener can be reached               *)

\* The DHT has an address of v, and v runs the listen command there: between two
\* other commands, as all of them.
Connect(u, v) ==
    /\ pc[u] = "idle" /\ u # v
    /\ pc[v] = "idle"
    /\ Goto(u, "hello")
    /\ to' = [to EXCEPT ![u] = v]
    /\ UNCHANGED <<mail, sess, req, work, todo, got, read, made, kills, ghosts>>

\* What the hello is signed over, and what handle_incoming_connection verifies it
\* against; it also looks for the key's fingerprint beside the payload, not in it.
HelloSignedText == "payload"
HelloVerifiedText == "envelope"

\* The listener closes the connection, and send_message ends with an error.
HelloRefused(u) ==
    /\ pc[u] = "hello"
    /\ HelloSignedText # HelloVerifiedText
    /\ End(u)
    /\ UNCHANGED <<mail, sess, read, made, kills, ghosts>>

-----------------------------------------------------------------------------
(* send_via_relay                                                           *)

\* Mutant of Encrypt: the session a first message opens goes out of scope before the
\* relay has answered.
EncryptForgets(u, v, id) ==
    LET opening == LoadSession(u, v) = None
        session == IF opening THEN NewSession(id, TRUE) ELSE LoadSession(u, v) IN
    \E parses \in {TRUE, ~opening} :
        LET m == Encrypted(session, id, u, IF opening THEN id ELSE 0, parses) IN
        /\ req' = [req EXCEPT ![u] = m]
        /\ work' = [work EXCEPT ![u] = IF opening THEN None ELSE AfterEncrypt(session, m)]

\* The message is encrypted with the session of ratchet_sessions, or opens one;
\* the last bytes of a message that opens one may look like a length.
Encrypt(u, v, id) ==
    LET opening == LoadSession(u, v) = None
        session == IF opening THEN NewSession(id, TRUE) ELSE LoadSession(u, v) IN
    \E parses \in {TRUE, ~opening} :
        LET m == Encrypted(session, id, u, IF opening THEN id ELSE 0, parses) IN
        /\ req' = [req EXCEPT ![u] = m]
        /\ work' = [work EXCEPT ![u] = AfterEncrypt(session, m)]

\* send_message to v when the DHT has no address of v, or none that answers.
Send(u, v) ==
    /\ pc[u] = "idle" /\ u # v
    /\ made < MaxMessages
    /\ made' = made + 1
    /\ Encrypt(u, v, made')
    /\ to' = [to EXCEPT ![u] = v]
    /\ Goto(u, "request")
    /\ UNCHANGED <<mail, sess, todo, got, read, kills, ghosts>>

\* The relay cannot be reached, refuses the request, or the connection ends
\* before it is stored.
StoreFails(u) ==
    /\ pc[u] = "request"
    /\ End(u)
    /\ UNCHANGED <<mail, sess, read, made, kills, ghosts>>

\* The relay stores the message and answers.
Store(u) ==
    /\ pc[u] = "request"
    /\ mail' = [mail EXCEPT ![to[u]] = Append(@, req[u])]
    /\ Goto(u, "answer")
    /\ UNCHANGED <<sess, local, read, made, kills, ghosts>>

\* Mutant of Confirm: the session is written back as it was loaded.
ConfirmUnsaved(u) ==
    /\ pc[u] = "answer"
    /\ sess' = [sess EXCEPT ![u][to[u]] =
                  IF @ = None THEN NewSession(req[u].opens, TRUE) ELSE @]
    /\ told' = told \cup {req[u].id}
    /\ End(u)
    /\ UNCHANGED <<mail, read, made, kills, cut, missed, dropped>>

\* ok: the session is saved.
Confirm(u) ==
    /\ pc[u] = "answer"
    /\ SaveSession(u, to[u], work[u])
    /\ told' = told \cup {req[u].id}
    /\ End(u)
    /\ UNCHANGED <<mail, read, made, kills, cut, missed, dropped>>

\* The answer is lost: the command ends with an error and saves nothing.
LoseAnswer(u) ==
    /\ pc[u] = "answer"
    /\ cut' = cut \cup {req[u].id}
    /\ End(u)
    /\ UNCHANGED <<mail, sess, read, made, kills, told, missed, dropped>>

-----------------------------------------------------------------------------
(* relay_fetch, relay_decrypt_message and the read command                  *)

Fetch(u) ==
    /\ pc[u] = "idle"
    /\ mail[u] # <<>>
    /\ todo' = [todo EXCEPT ![u] = mail[u]]
    /\ Goto(u, "decrypt")
    /\ UNCHANGED <<mail, sess, to, req, work, got, read, made, kills, ghosts>>

\* The session an entry is decrypted with: the one for its sender, else a new one
\* if the entry opens one.
SessionsFor(u, m) ==
    IF LoadSession(u, m.from) # None THEN {LoadSession(u, m.from)}
    ELSE IF m.opens # 0 THEN {NewSession(m.opens, FALSE)}
    ELSE {}

\* Mutant of Accept: the session is not saved after a decryption.
AcceptUnsaved(u, session, m) ==
    /\ sess' = sess
    /\ got' = [got EXCEPT ![u] = Append(@, m)]
    /\ todo' = [todo EXCEPT ![u] = Tail(@)]
    /\ UNCHANGED missed

Accept(u, session, m) ==
    /\ SaveSession(u, m.from, AfterDecrypt(session, m))
    /\ got' = [got EXCEPT ![u] = Append(@, m)]
    /\ todo' = [todo EXCEPT ![u] = Tail(@)]
    /\ UNCHANGED missed

\* Mutant of Skip: the first entry that fails ends the loop.
SkipAll(u, m) ==
    /\ todo' = [todo EXCEPT ![u] = <<>>]
    /\ UNCHANGED <<sess, got, missed>>

\* relay_fetch warns and goes on with the next entry.
Skip(u, m) ==
    /\ todo' = [todo EXCEPT ![u] = Tail(@)]
    /\ missed' = IF m.id \in dropped \/ \E i \in DOMAIN read[u] : read[u][i].id = m.id
                 THEN missed ELSE missed \cup {m.id}
    /\ UNCHANGED <<sess, got>>

DecryptNext(u) ==
    LET m == Head(todo[u])
        usable == {s \in SessionsFor(u, m) : Decrypts(s, m)} IN
    /\ pc[u] = "decrypt"
    /\ todo[u] # <<>>
    /\ \/ \E s \in usable : Accept(u, s, m)
       \/ usable = {} /\ Skip(u, m)
    /\ UNCHANGED <<mail, pc, to, req, work, read, made, kills, told, cut, dropped>>

\* All entries tried: the messages are printed and stored, then the relay is asked
\* to purge the mailbox, if there were any.
Show(u) ==
    /\ pc[u] = "decrypt"
    /\ todo[u] = <<>>
    /\ read' = [read EXCEPT ![u] = @ \o got[u]]
    /\ IF got[u] = <<>> THEN End(u) ELSE Goto(u, "purge") /\ UNCHANGED local
    /\ UNCHANGED <<mail, sess, made, kills, ghosts>>

\* The fields of RelayEnvelope, and those of the object relay_purge sends.
EnvelopeFields == {"msg_type", "payload", "msg_id", "ts"}

PurgeFields ==
    {"type", "recipient_nid", "requester_fp", "sender_sig", "timestamp", "nonce", "auth_hmac"}

\* A request the relay cannot parse is answered with an error, which relay_purge
\* prints.
Purge(u) ==
    /\ pc[u] = "purge"
    /\ mail' = IF EnvelopeFields \subseteq PurgeFields THEN [mail EXCEPT ![u] = <<>>]
                                                       ELSE mail
    /\ End(u)
    /\ UNCHANGED <<sess, read, made, kills, ghosts>>

\* A send or read command is killed, or the machine stops.
Kill(u) ==
    /\ pc[u] # "idle"
    /\ kills < MaxKills
    /\ kills' = kills + 1
    /\ cut' = IF pc[u] = "answer" THEN cut \cup {req[u].id} ELSE cut
    /\ dropped' = IF pc[u] = "decrypt" THEN dropped \cup {m.id : m \in Range(got[u])}
                                       ELSE dropped
    /\ End(u)
    /\ UNCHANGED <<mail, sess, read, made, told, missed>>

ReadStep(u) == Fetch(u) \/ DecryptNext(u) \/ Show(u) \/ Purge(u)

Next ==
    \E u \in Users :
        \/ \E v \in Users : Send(u, v) \/ Connect(u, v)
        \/ HelloRefused(u)
        \/ StoreFails(u)
        \/ Store(u)
        \/ Confirm(u)
        \/ LoseAnswer(u)
        \/ ReadStep(u)
        \/ Kill(u)

\* Commands go on while nothing kills them, and every user runs the read command
\* again and again, whatever else it runs in between.
Fairness ==
    \A u \in Users :
        /\ SF_vars(Fetch(u))
        /\ WF_vars(DecryptNext(u) \/ Show(u) \/ Purge(u))
        /\ WF_vars(Store(u) \/ StoreFails(u))
        /\ WF_vars(Confirm(u) \/ LoseAnswer(u))
        /\ WF_vars(HelloRefused(u))

Spec == Init /\ [][Next]_vars
FairSpec == Spec /\ Fairness
-----------------------------------------------------------------------------
(* Properties                                                               *)

IdsOf(s) == {m.id : m \in Range(s)}

\* Every variable has its type, and a send command that waits for the relay has the
\* message it sent and the session it is going to save.
TypeOK ==
    /\ \A u \in Users :
          /\ Range(mail[u]) \cup Range(todo[u]) \cup Range(got[u]) \cup Range(read[u])
                \subseteq Messages
          /\ sess[u] \in [Users -> Sessions \cup {None}]
          /\ pc[u] \in {"idle", "hello", "request", "answer", "decrypt", "purge"}
          /\ to[u] \in Users
          /\ req[u] \in Messages \cup {None} /\ work[u] \in Sessions \cup {None}
          /\ pc[u] \in {"request", "answer"} => req[u] \in Messages /\ work[u] \in Sessions
    /\ made \in 0 .. MaxMessages
    /\ told \cup cut \cup missed \cup dropped \subseteq Ids

\* The messages of one sender.
From(s, v) == {m \in Range(s) : m.from = v}

\* The conversation of u and v was upset: an answer between them was lost, a first
\* message did not parse, or each opened a session to the other.
Upset(u, v) ==
    LET between == From(mail[u], v) \cup From(mail[v], u) IN
    \/ \E m \in between : m.id \in cut \/ ~m.parses
    \/ \E m, n \in between : m.opens # 0 /\ n.opens # 0 /\ m.from # n.from

\* What a user reads of a sender comes in the order it was sent, once, although
\* the mailbox is never emptied and everything is fetched again and again; and an
\* older message of that sender it has not read was lost by a killed read, or is one
\* the sender was not told of.
ReadInOrderOnce ==
    \A u \in Users :
        /\ \A i, j \in DOMAIN read[u] :
              i < j /\ read[u][i].from = read[u][j].from => read[u][i].id < read[u][j].id
        /\ \A r \in Range(read[u]) : \A m \in From(mail[u], r.from) :
              m.id < r.id => \/ m \in Range(read[u])
                             \/ m.id \in dropped \cup cut

\* A message the relay holds can be decrypted when the recipient first fetches it,
\* unless the conversation was upset: the sessions of the two sides stay in step
\* through failed sends, killed commands and any interleaving of their commands.
MissedOnlyIfUpset ==
    \A u \in Users : \A m \in Range(mail[u]) :
        m.id \in missed => Upset(u, m.from)

\* While the recipient reads again and again, a message its sender was told is
\* delivered is read, unless a killed read lost it or the conversation was upset.
ToldIsRead ==
    \A u \in Users : \A v \in Users \ {u} : \A id \in Ids :
        (id \in told /\ \E m \in From(mail[u], v) : m.id = id)
            ~> (\/ id \in IdsOf(read[u])
                \/ id \in dropped
                \/ Upset(u, v))

\* docs/security-delivery-review.md:151, on stale ciphertext: "`relay-purge` called
\* after every successful `read`. Mailbox entries deleted."  A read command that goes
\* through its purge leaves the mailbox empty.
PurgedAfterRead ==
    [][\A u \in Users :
         pc[u] = "purge" /\ pc'[u] = "idle" /\ kills' = kills => mail'[u] = <<>>]_vars
=============================================================================
