----------------------------- MODULE Federation -----------------------------
(***************************************************************************)
(* How relays find each other's mailboxes (relay/src/main.rs,              *)
(* FederationState, the federation arms of handle_message, connect_to_peer *)
(* and gossip_task).                                                       *)
(*                                                                         *)
(* A relay dials each configured peer once and queues what it sends them   *)
(* on a bounded channel.  Every interval gossip_task advertises the local  *)
(* mailboxes to the peers and then drops routes and peers that are too     *)
(* old.  Other programs may send the relay any federation message too:     *)
(* nothing in the repository sends who-has, peer-auth or their answers,    *)
(* and the only relay-forward sent is the one of an onion message.         *)
(*                                                                         *)
(* An interval is several ticks of the clock and starts at another tick on *)
(* each relay, so that entries expire between two rounds.  A relay is      *)
(* known by the URL it advertises.  PeerInfo.routes, which nothing reads,  *)
(* is left out.                                                            *)
(***************************************************************************)
EXTENDS Integers, Sequences, FiniteSets

CONSTANTS
    Relays,         \* relays, by URL
    Nids,           \* null ids that have mailboxes
    Unknown,        \* no entry
    Configured,     \* pairs <<r, p>>: r was started with --peer p
    AllowRelay,     \* relays that run with --allow-relay
    SharedSecret,   \* whether they were given a shared secret
    GossipInterval, \* FEDERATION_GOSSIP_INTERVAL_SECONDS, in ticks
    RouteTtl,       \* FEDERATION_ROUTE_TTL_SECONDS, in ticks
    PeerTimeout,    \* FEDERATION_PEER_TIMEOUT_SECONDS, in ticks
    ChallengeTtl,   \* how long a challenge may be answered, in ticks
    MaxHops,        \* FEDERATION_MAX_RELAY_HOPS
    ChannelCap,     \* messages a peer's channel holds (100)
    MaxFedClock,    \* bound: the clock stops here
    MaxInputs       \* bound: messages from other programs, and onion messages

ASSUME FederationAssumption ==
    /\ IsFiniteSet(Relays)
    /\ Configured \subseteq Relays \X Relays
    /\ AllowRelay \subseteq Relays /\ SharedSecret \in BOOLEAN
    /\ GossipInterval \in Nat \ {0}
    /\ RouteTtl \in Nat \ {0} /\ PeerTimeout \in Nat \ {0} /\ ChallengeTtl \in Nat
    /\ MaxHops \in Nat /\ ChannelCap \in Nat \ {0}
    /\ MaxFedClock \in Nat /\ MaxInputs \in Nat

VARIABLES
    fedClock,
    local,      \* local[r]: null ids with a mailbox in r's memory
    peers,      \* peers[r][p]: last_seen and authenticated, or Unknown
    dial,       \* dial[r][p]: r's connection to p
    chan,       \* chan[r][p]: messages queued on it
    routes,     \* routes[r][n]: remote_routes[n], or Unknown
    pending,    \* pending[r][p]: when the challenge p sent was stored, or Unknown
    phase,      \* phase[r]: ticks since gossip_task's interval of r last fired
    due,        \* relays whose gossip_task has yet to run the round that is due
    inputs,
    \* Observations the properties are stated with; no action reads them.
    idle,       \* relays whose last gossip round ended early
    heard,      \* heard[r][p]: the mailboxes of the last advertisement of p that r handled
    challenged, \* challenged[r][p]: challenges of p that r stored
    proved      \* proved[r][p]: answers of p that r found right

fedVars == <<fedClock, local, peers, dial, chan, routes, pending, phase, due,
             inputs, idle, heard, challenged, proved>>
fedGhosts == <<idle, heard, challenged, proved>>

Pairs(S) == [Relays -> [Relays -> S]]
\* RouteAdvertise, and the fields gossip_task fills in.
RouteAdvertiseFields == {"relay_url", "route_count", "ttl"}
GossipFields == {"relay_url", "null_ids"}

\* What a relay queues for its peers.
FedMessages ==
    [kind : {"advertise"}, from : Relays, ids : SUBSET Nids, fields : {GossipFields}]
    \cup [kind : {"forward"}, source : Relays]

FedInit ==
    /\ fedClock = 0
    /\ local = [r \in Relays |-> {}]
    /\ peers = [r \in Relays |-> [p \in Relays |-> Unknown]]
    /\ dial = [r \in Relays |-> [p \in Relays |->
                 IF <<r, p>> \in Configured THEN "dialing" ELSE "none"]]
    /\ chan = [r \in Relays |-> [p \in Relays |-> << >>]]
    /\ routes = [r \in Relays |-> [n \in Nids |-> Unknown]]
    /\ pending = [r \in Relays |-> [p \in Relays |-> Unknown]]
    /\ phase \in [Relays -> 0..(GossipInterval - 1)]
    /\ due = {}
    /\ inputs = 0
    /\ idle = {}
    /\ heard = [r \in Relays |-> [p \in Relays |-> {}]]
    /\ challenged = [r \in Relays |-> [p \in Relays |-> 0]]
    /\ proved = challenged

-----------------------------------------------------------------------------
(* FederationState                                                          *)

\* Mutant of SendToPeer: send without a limit instead of try_send.
SendToPeerUnbounded(c, r, p, m) ==
    IF peers[r][p] # Unknown /\ dial[r][p] = "open"
    THEN [c EXCEPT ![r][p] = Append(@, m)] ELSE c

\* send_to_peer: try_send fails on a full or closed channel, and the message is
\* dropped.
SendToPeer(c, r, p, m) ==
    IF peers[r][p] # Unknown /\ dial[r][p] = "open" /\ Len(c[r][p]) < ChannelCap
    THEN [c EXCEPT ![r][p] = Append(@, m)] ELSE c

\* Mutant of Swept: a route is kept that expires at this very moment.
SweptLate(r) ==
    /\ routes' = [routes EXCEPT ![r] = [n \in Nids |->
           IF @[n] # Unknown /\ fedClock - @[n].at > RouteTtl THEN Unknown ELSE @[n]]]
    /\ peers' = [peers EXCEPT ![r] = [p \in Relays |->
           IF @[p] # Unknown /\ fedClock - @[p].seen >= PeerTimeout THEN Unknown ELSE @[p]]]

\* cleanup_expired_routes: peers that have not been heard go too.
Swept(r) ==
    /\ routes' = [routes EXCEPT ![r] = [n \in Nids |->
           IF @[n] # Unknown /\ fedClock - @[n].at >= RouteTtl THEN Unknown ELSE @[n]]]
    /\ peers' = [peers EXCEPT ![r] = [p \in Relays |->
           IF @[p] # Unknown /\ fedClock - @[p].seen >= PeerTimeout THEN Unknown ELSE @[p]]]

\* add_route for each advertised null id, and last_seen of a peer we know.
Learn(r, p, ids) ==
    /\ routes' = [routes EXCEPT ![r] = [n \in Nids |->
           IF n \in ids THEN [url |-> p, at |-> fedClock] ELSE @[n]]]
    /\ peers' = IF peers[r][p] = Unknown THEN peers
                ELSE [peers EXCEPT ![r][p].seen = fedClock]

\* The relay a who-has is answered with: itself, or where the route points.
WhoHas(r, n) ==
    IF n \in local[r] THEN r
    ELSE IF routes[r][n] # Unknown THEN routes[r][n].url ELSE Unknown

-----------------------------------------------------------------------------
(* connect_to_peer: one attempt, at start-up                                *)

Connect(r, p) ==
    /\ dial[r][p] = "dialing"
    /\ dial' = [dial EXCEPT ![r][p] = "open"]
    /\ peers' = [peers EXCEPT ![r][p] = [seen |-> fedClock, auth |-> FALSE]]
    /\ UNCHANGED <<fedClock, local, chan, routes, pending, phase, due, inputs, fedGhosts>>

ConnectFails(r, p) ==
    /\ dial[r][p] = "dialing"
    /\ dial' = [dial EXCEPT ![r][p] = "closed"]
    /\ UNCHANGED <<fedClock, local, peers, chan, routes, pending, phase, due, inputs, fedGhosts>>

\* The socket fails: the sender task ends and its channel with it; the peer stays.
Break(r, p) ==
    /\ dial[r][p] = "open"
    /\ dial' = [dial EXCEPT ![r][p] = "closed"]
    /\ chan' = [chan EXCEPT ![r][p] = << >>]
    /\ UNCHANGED <<fedClock, local, peers, routes, pending, phase, due, inputs, fedGhosts>>

\* The receiver task: a route-advertise that comes back on our own connection.
AdvertiseBack(r, p) ==
    /\ dial[r][p] = "open" /\ peers[r][p] # Unknown
    /\ inputs < MaxInputs /\ inputs' = inputs + 1
    /\ peers' = [peers EXCEPT ![r][p].seen = fedClock]
    /\ UNCHANGED <<fedClock, local, dial, chan, routes, pending, phase, due, fedGhosts>>

-----------------------------------------------------------------------------
(* The federation arms of handle_message                                    *)

\* The checks of relay-forward, in order; what passes them is admitted like a
\* store request (RelayAdmission) and needs a signature.
ForwardRefusal(r, f) ==
    IF r \notin AllowRelay THEN "edge mode"
    ELSE IF SharedSecret /\ peers[r][f.source] # Unknown /\ ~peers[r][f.source].auth
         THEN "peer not authenticated"
    ELSE IF r \in f.via THEN "loop detected"
    ELSE IF f.hops >= MaxHops THEN "max hop count exceeded"
    ELSE IF ~f.signed THEN "missing sender signature"
    ELSE "accepted"

\* The relay-forward of an onion message carries neither signature nor recipient.
OnionForward(p) == [source |-> p, via |-> {}, hops |-> 1, signed |-> FALSE]

\* r handles the next message p sent it on p's connection.  An advertisement
\* without the fields of RouteAdvertise is answered with an error, which p's
\* receiver task cannot read.
Deliver(r, p) ==
    /\ chan[p][r] # << >> /\ dial[p][r] = "open"
    /\ chan' = [chan EXCEPT ![p][r] = Tail(@)]
    /\ LET m == Head(chan[p][r]) IN
       \/ /\ m.kind = "advertise"
          /\ heard' = [heard EXCEPT ![r][p] = m.ids]
          /\ IF RouteAdvertiseFields \subseteq m.fields THEN Learn(r, m.from, m.ids)
             ELSE UNCHANGED <<routes, peers>>
          /\ UNCHANGED local
       \/ /\ m.kind = "forward"
          /\ local' = IF ForwardRefusal(r, OnionForward(m.source)) = "accepted"
                      THEN [local EXCEPT ![r] = Nids] ELSE local
          /\ UNCHANGED <<routes, peers, heard>>
    /\ UNCHANGED <<fedClock, dial, pending, phase, due, inputs, idle, challenged, proved>>

\* A complete route-advertise, or a route-advertise-ack, of any program.
RouteAdvertise(r, p, ids) ==
    /\ inputs < MaxInputs /\ inputs' = inputs + 1
    /\ Learn(r, p, ids)
    /\ UNCHANGED <<fedClock, local, dial, chan, pending, phase, due, fedGhosts>>

\* peer-auth: the challenge is kept, also when there is no secret to answer with.
PeerAuth(r, p) ==
    /\ inputs < MaxInputs /\ inputs' = inputs + 1
    /\ pending' = [pending EXCEPT ![r][p] = fedClock]
    /\ challenged' = [challenged EXCEPT ![r][p] = @ + 1]
    /\ UNCHANGED <<fedClock, local, peers, dial, chan, routes, phase, due, idle, heard, proved>>

\* Mutant of PeerAuthReply: the challenge is read and not removed.
PeerAuthReplyKeeps(r, p, right) ==
    /\ inputs < MaxInputs /\ inputs' = inputs + 1
    /\ pending[r][p] # Unknown
    /\ LET ok == fedClock - pending[r][p] <= ChallengeTtl /\ SharedSecret /\ right IN
       /\ peers' = IF ok /\ peers[r][p] # Unknown THEN [peers EXCEPT ![r][p].auth = TRUE]
                   ELSE peers
       /\ proved' = IF ok THEN [proved EXCEPT ![r][p] = @ + 1] ELSE proved
    /\ UNCHANGED <<fedClock, local, dial, chan, routes, pending, phase, due, idle, heard, challenged>>

\* peer-auth-reply: the challenge is used up before anything is checked.
PeerAuthReply(r, p, right) ==
    /\ inputs < MaxInputs /\ inputs' = inputs + 1
    /\ pending[r][p] # Unknown
    /\ pending' = [pending EXCEPT ![r][p] = Unknown]
    /\ LET ok == fedClock - pending[r][p] <= ChallengeTtl /\ SharedSecret /\ right IN
       /\ peers' = IF ok /\ peers[r][p] # Unknown THEN [peers EXCEPT ![r][p].auth = TRUE]
                   ELSE peers
       /\ proved' = IF ok THEN [proved EXCEPT ![r][p] = @ + 1] ELSE proved
    /\ UNCHANGED <<fedClock, local, dial, chan, routes, phase, due, idle, heard, challenged>>

\* relay-forward of any program: an accepted one is stored for its recipient.
RelayForward(r, n, f) ==
    /\ inputs < MaxInputs /\ inputs' = inputs + 1
    /\ ForwardRefusal(r, f) = "accepted"
    /\ local' = [local EXCEPT ![r] = @ \cup {n}]
    /\ UNCHANGED <<fedClock, peers, dial, chan, routes, pending, phase, due, fedGhosts>>

\* onion-v1: the sender is told ok whether or not the forward could be queued.
Onion(r, p) ==
    /\ inputs < MaxInputs /\ inputs' = inputs + 1
    /\ chan' = SendToPeer(chan, r, p, [kind |-> "forward", source |-> r])
    /\ UNCHANGED <<fedClock, local, peers, dial, routes, pending, phase, due, fedGhosts>>

\* A store creates a mailbox, a purge removes it (RelayMailbox).
MailboxOpens(r, n) ==
    /\ n \notin local[r]
    /\ inputs < MaxInputs /\ inputs' = inputs + 1
    /\ local' = [local EXCEPT ![r] = @ \cup {n}]
    /\ UNCHANGED <<fedClock, peers, dial, chan, routes, pending, phase, due, fedGhosts>>

MailboxCloses(r, n) ==
    /\ n \in local[r]
    /\ local' = [local EXCEPT ![r] = @ \ {n}]
    /\ UNCHANGED <<fedClock, peers, dial, chan, routes, pending, phase, due, inputs, fedGhosts>>

-----------------------------------------------------------------------------
(* gossip_task                                                              *)

\* Without a mailbox in memory the round ends before the clean-up.
GossipSkipped(r) ==
    /\ r \in due /\ local[r] = {}
    /\ due' = due \ {r}
    /\ idle' = idle \cup {r}
    /\ UNCHANGED <<fedClock, local, peers, dial, chan, routes, pending, phase, inputs,
                   heard, challenged, proved>>

\* One send to each peer, then the clean-up.
Gossip(r) ==
    /\ r \in due /\ local[r] # {}
    /\ due' = due \ {r}
    /\ LET m == [kind |-> "advertise", from |-> r, ids |-> local[r], fields |-> GossipFields]
       IN chan' = [chan EXCEPT ![r] = [p \in Relays |-> SendToPeer(chan, r, p, m)[r][p]]]
    /\ Swept(r)
    /\ idle' = idle \ {r}
    /\ UNCHANGED <<fedClock, local, dial, pending, phase, inputs, heard, challenged, proved>>

\* A round ends well before the clock moves on.
FedTick ==
    /\ fedClock < MaxFedClock /\ due = {}
    /\ fedClock' = fedClock + 1
    /\ phase' = [r \in Relays |-> IF phase[r] + 1 = GossipInterval THEN 0 ELSE phase[r] + 1]
    /\ due' = {r \in Relays : phase'[r] = 0}
    /\ UNCHANGED <<local, peers, dial, chan, routes, pending, inputs, fedGhosts>>

Forwards == [source : Relays, via : SUBSET Relays, hops : {0, MaxHops}, signed : {TRUE}]

FedNext ==
    \/ \E r, p \in Relays :
          \/ Connect(r, p) \/ ConnectFails(r, p) \/ Break(r, p) \/ Deliver(r, p)
          \/ r # p /\ (AdvertiseBack(r, p) \/ PeerAuth(r, p) \/ Onion(r, p))
          \/ r # p /\ \E right \in BOOLEAN : PeerAuthReply(r, p, right)
          \/ r # p /\ \E ids \in SUBSET Nids : RouteAdvertise(r, p, ids)
    \/ \E r \in Relays, n \in Nids :
          MailboxOpens(r, n) \/ MailboxCloses(r, n) \/ \E f \in Forwards : RelayForward(r, n, f)
    \/ \E r \in Relays : Gossip(r) \/ GossipSkipped(r)
    \/ FedTick

FedSpec == FedInit /\ [][FedNext]_fedVars

\* Tokio polls gossip_task and the task of each connection.
FedFairSpec ==
    /\ FedSpec
    /\ \A r \in Relays : WF_fedVars(Gossip(r) \/ GossipSkipped(r))
    /\ \A r, p \in Relays : WF_fedVars(Deliver(r, p))

-----------------------------------------------------------------------------
(* Properties                                                               *)

\* The federation tables hold what their types say, and a peer's channel never
\* holds more than its capacity.
FedTypeOK ==
    /\ fedClock \in 0..MaxFedClock /\ inputs \in 0..MaxInputs
    /\ local \in [Relays -> SUBSET Nids]
    /\ peers \in Pairs([seen : 0..MaxFedClock, auth : BOOLEAN] \cup {Unknown})
    /\ dial \in Pairs({"none", "dialing", "open", "closed"})
    /\ routes \in [Relays -> [Nids -> [url : Relays, at : 0..MaxFedClock] \cup {Unknown}]]
    /\ pending \in Pairs(0..MaxFedClock \cup {Unknown})
    /\ phase \in [Relays -> 0..(GossipInterval - 1)]
    /\ due \subseteq Relays /\ idle \subseteq Relays
    /\ \A r, p \in Relays :
          /\ Len(chan[r][p]) <= ChannelCap
          /\ chan[r][p] # << >> => dial[r][p] = "open"

\* An expired route answers who-has, and a peer that timed out is kept, only
\* until the relay's next round of gossip: a round that reaches
\* cleanup_expired_routes leaves nothing expired, and what a relay holds after it
\* has outlived its time by no more ticks than have passed since.  lookup_route
\* does not look at expires_at.  Exempt is a relay whose last round ended early
\* because it had no mailbox of its own: such rounds never clean up.
SweptEveryRound ==
    \A r \in Relays \ (due \cup idle) :
       /\ \A n \in Nids : WhoHas(r, n) \notin {r, Unknown} =>
                             fedClock - routes[r][n].at < RouteTtl + phase[r]
       /\ \A p \in Relays : peers[r][p] # Unknown =>
                             fedClock - peers[r][p].seen < PeerTimeout + phase[r]

\* A challenge is good for one answer: however peer-auth and peer-auth-reply
\* interleave with expiry, reconnects and dropped peers, a relay never finds more
\* answers right than it stored challenges.
OneProofPerChallenge ==
    \A r, p \in Relays :
       proved[r][p] + (IF pending[r][p] = Unknown THEN 0 ELSE 1) <= challenged[r][p]

\* What the comment of gossip_task says of it: it advertises our routes to all
\* connected peers.  A peer that has handled an advertisement knows its routes.
GossipHeard ==
    [][\A r, p \in Relays : heard'[r][p] # heard[r][p] =>
          \A n \in heard'[r][p] : routes'[r][n] # Unknown]_fedVars
=============================================================================
