---------------------------- MODULE PeerManager ----------------------------
(***************************************************************************)
(* The table of connected peers and the messages waiting for them          *)
(* (p2p/src/peer.rs, PeerManager).  Clones share the two tables, each      *)
(* behind a lock of its own: remove_peer and cleanup_idle take the peers   *)
(* lock and, still holding it, the pending lock; queue_message and         *)
(* drain_pending take the pending lock only, and run between the two.      *)
(*                                                                         *)
(* get_peer, list_peers, is_connected and connected_count only read.       *)
(* mark_sent and mark_received can only reach the copies these return, so  *)
(* set_state alone keeps a peer from counting as idle.                     *)
(***************************************************************************)
EXTENDS Integers, Sequences, FiniteSets

CONSTANTS
    Remotes,    \* peer ids
    NoInfo,     \* no entry
    MaxPeers,   \* max_peers
    MaxPending, \* MAX_PENDING_MESSAGES
    MaxQueued   \* bound: messages ever accepted

ASSUME PeerManagerAssumption ==
    MaxPeers \in Nat /\ MaxPending \in Nat /\ MaxQueued \in Nat

VARIABLES
    pmPeers,    \* peers: a PeerInfo or NoInfo
    pmPending,  \* pending: messages by number; no queue and an empty one are the same
    removing,   \* peers taken out of the table by the holder of the peers lock
    queued,     \* messages accepted so far
    handed      \* observation: the messages drain_pending returned, per peer

pmVars == <<pmPeers, pmPending, removing, queued, handed>>

PeerState == {"Connecting", "Connected", "Disconnected"}
PeerInfo == [state : PeerState, keyed : BOOLEAN, idle : BOOLEAN]
Registered == {q \in Remotes : pmPeers[q] # NoInfo}
PeersUnlocked == removing = {}

PmInit ==
    /\ pmPeers = [q \in Remotes |-> NoInfo]
    /\ pmPending = [q \in Remotes |-> << >>]
    /\ removing = {}
    /\ queued = 0
    /\ handed = [q \in Remotes |-> << >>]

\* Mutant of AddPeer: the peers lock is free again before the queue is removed.
AddPeerUnlocked(q) ==
    /\ Cardinality(Registered) < MaxPeers
    /\ pmPeers' = [pmPeers EXCEPT ![q] = [state |-> "Connecting", keyed |-> FALSE, idle |-> FALSE]]
    /\ UNCHANGED <<pmPending, removing, queued, handed>>

\* A peer that is already there is replaced; a full table refuses it as well.
AddPeer(q) ==
    /\ PeersUnlocked
    /\ Cardinality(Registered) < MaxPeers
    /\ pmPeers' = [pmPeers EXCEPT ![q] = [state |-> "Connecting", keyed |-> FALSE, idle |-> FALSE]]
    /\ UNCHANGED <<pmPending, removing, queued, handed>>

SetState(q, s) ==
    /\ PeersUnlocked /\ q \in Registered
    /\ pmPeers' = [pmPeers EXCEPT ![q].state = s, ![q].idle = FALSE]
    /\ UNCHANGED <<pmPending, removing, queued, handed>>

SetPublicKey(q) ==
    /\ PeersUnlocked /\ q \in Registered
    /\ pmPeers' = [pmPeers EXCEPT ![q].keyed = TRUE]
    /\ UNCHANGED <<pmPending, removing, queued, handed>>

\* MAX_IDLE_SECONDS pass without a set_state.
GrowsIdle(q) ==
    /\ q \in Registered
    /\ pmPeers' = [pmPeers EXCEPT ![q].idle = TRUE]
    /\ UNCHANGED <<pmPending, removing, queued, handed>>

\* The first halves of remove_peer and cleanup_idle: the peers lock stays held.
RemovePeer(q) ==
    /\ PeersUnlocked
    /\ pmPeers' = [pmPeers EXCEPT ![q] = NoInfo]
    /\ removing' = {q}
    /\ UNCHANGED <<pmPending, queued, handed>>

CleanupIdle ==
    /\ PeersUnlocked
    /\ removing' = {q \in Registered : pmPeers[q].idle}
    /\ pmPeers' = [q \in Remotes |-> IF q \in removing' THEN NoInfo ELSE pmPeers[q]]
    /\ UNCHANGED <<pmPending, queued, handed>>

\* Their second half, under both locks.
RemovePending ==
    /\ ~PeersUnlocked
    /\ pmPending' = [q \in Remotes |-> IF q \in removing THEN << >> ELSE pmPending[q]]
    /\ removing' = {}
    /\ UNCHANGED <<pmPeers, queued, handed>>

\* Mutant of QueueMessage: one message too many.
QueueMessageOver(q) ==
    /\ queued < MaxQueued /\ Len(pmPending[q]) <= MaxPending
    /\ queued' = queued + 1
    /\ pmPending' = [pmPending EXCEPT ![q] = Append(@, queued + 1)]
    /\ UNCHANGED <<pmPeers, removing, handed>>

\* A peer need not be registered to have messages queued.
QueueMessage(q) ==
    /\ queued < MaxQueued /\ Len(pmPending[q]) < MaxPending
    /\ queued' = queued + 1
    /\ pmPending' = [pmPending EXCEPT ![q] = Append(@, queued + 1)]
    /\ UNCHANGED <<pmPeers, removing, handed>>

DrainPending(q) ==
    /\ pmPending[q] # << >>
    /\ handed' = [handed EXCEPT ![q] = @ \o pmPending[q]]
    /\ pmPending' = [pmPending EXCEPT ![q] = << >>]
    /\ UNCHANGED <<pmPeers, removing, queued>>

PmNext ==
    \/ \E q \in Remotes :
          \/ AddPeer(q) \/ SetPublicKey(q) \/ GrowsIdle(q) \/ RemovePeer(q)
          \/ QueueMessage(q) \/ DrainPending(q)
          \/ \E s \in PeerState : SetState(q, s)
    \/ CleanupIdle
    \/ RemovePending

PmSpec == PmInit /\ [][PmNext]_pmVars

-----------------------------------------------------------------------------
(* Properties                                                               *)

\* Neither table grows past its limit, whatever clones of the manager do at the
\* same time: MaxPeers entries, MaxPending messages for each peer.
PeerTablesBounded ==
    /\ pmPeers \in [Remotes -> PeerInfo \cup {NoInfo}]
    /\ Cardinality(Registered) <= MaxPeers
    /\ \A q \in Remotes : Len(pmPending[q]) <= MaxPending
    /\ removing \subseteq Remotes

\* While a peer is registered its queue only grows at the end or is handed out
\* whole, in order: a removal that is still under way never discards messages of
\* the peer's next connection.
QueueKept ==
    [][\A q \in Registered :
          \/ pmPending'[q] = pmPending[q]
          \/ pmPending'[q] = Append(pmPending[q], queued')
          \/ pmPending'[q] = << >> /\ handed'[q] = handed[q] \o pmPending[q]]_pmVars
=============================================================================
