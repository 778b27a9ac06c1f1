---------------------------- MODULE PartsProofs ----------------------------
(***************************************************************************)
(* Proofs about the bounded tables kept in memory (the peer manager, the   *)
(* rate limiters, the certificate cache), the handshake, and the padding   *)
(* and chunking of what is sent.                                           *)
(***************************************************************************)
EXTENDS PeerManager, RateLimits, CertCache, Handshake, Padding, Braid,
        FiniteSetTheorems, SequenceTheorems, WellFoundedInduction, TLAPS

\* Every nonempty set of naturals has a least element.
LEMMA LeastOf ==
    ASSUME NEW T \in SUBSET Nat, T # {}
    PROVE  \E x \in T : \A y \in T : x <= y
<1> DEFINE R == {ss \in Nat \X Nat : ss[1] < ss[2]}
<1>1. IsWellFoundedOn(R, Nat)
  BY NatLessThanWellFounded DEF OpToRel
<1> HIDE DEF R
<1>2. \E x \in T : \A y \in T : ~ (<<y, x>> \in R)
  BY <1>1, WFMin
<1>3. ASSUME NEW x \in Nat, NEW y \in Nat, ~ (<<y, x>> \in R)
      PROVE  x <= y
  <2>1. <<y, x>> \in Nat \X Nat
    OBVIOUS
  <2>2. ~(<<y, x>>[1] < <<y, x>>[2])
    BY <1>3, <2>1 DEF R
  <2> QED
    BY <2>2
<1> QED
  BY <1>2, <1>3

\* A nonempty set of numbers up to n has a greatest element.
LEMMA GreatestOf ==
    ASSUME NEW n \in Nat, NEW T \in SUBSET (1 .. n), T # {}
    PROVE  \E x \in T : \A y \in T : y <= x
<1> DEFINE U == {z \in Nat : n - z \in T}
<1>1. U # {} /\ U \in SUBSET Nat
  <2>1. PICK x \in T : TRUE
    OBVIOUS
  <2>2. n - x \in Nat /\ n - (n - x) = x
    OBVIOUS
  <2> QED
    BY <2>1, <2>2
<1>2. PICK z \in U : \A v \in U : z <= v
  BY <1>1, LeastOf
<1>3. n - z \in T
  BY <1>2
<1>4. ASSUME NEW y \in T PROVE y <= n - z
  <2>1. n - y \in Nat /\ n - (n - y) = y
    OBVIOUS
  <2>2. n - y \in U
    BY <2>1
  <2> QED
    BY <1>2, <2>1, <2>2
<1> QED
  BY <1>3, <1>4

\* What division and remainder of the header byte and of chunk numbers return.
LEMMA QuotientRemainder ==
    ASSUME NEW a \in Nat, NEW b \in Nat \ {0}
    PROVE  /\ a \div b \in Nat /\ a % b \in Nat /\ b * (a \div b) \in Nat
           /\ a = b * (a \div b) + (a % b)
<1>1. a \div b \in Nat
  OBVIOUS
<1>2. a % b \in Nat
  OBVIOUS
<1>3. b * (a \div b) \in Nat
  BY <1>1
<1>4. a = b * (a \div b) + (a % b)
  OBVIOUS
<1> QED
  BY <1>1, <1>2, <1>3, <1>4

LEMMA ProductGrows ==
    ASSUME NEW a \in Nat, NEW b \in Nat, NEW c \in Nat, a <= b
    PROVE  a * c \in Nat /\ b * c \in Nat /\ a * c <= b * c
<1>1. PICK d \in Nat : b = a + d
  <2>1. b - a \in Nat /\ b = a + (b - a)
    OBVIOUS
  <2> QED
    BY <2>1
<1>2. a * c \in Nat /\ d * c \in Nat
  OBVIOUS
<1>3. b * c = a * c + d * c
  BY <1>1
<1> QED
  BY <1>2, <1>3

-----------------------------------------------------------------------------
(* Peers and pending messages                                               *)

\* The holder of the peers lock has already taken out the peers whose queues he is
\* about to discard, and AddPeer waits for him.
PeersInv ==
    /\ pmPeers \in [Remotes -> PeerInfo \cup {NoInfo}]
    /\ pmPending \in [Remotes -> Seq(Nat)]
    /\ handed \in [Remotes -> Seq(Nat)]
    /\ queued \in Nat
    /\ removing \subseteq Remotes /\ removing \cap Registered = {}
    /\ IsFiniteSet(Registered) /\ Cardinality(Registered) <= MaxPeers
    /\ \A q \in Remotes : Len(pmPending[q]) <= MaxPending

LEMMA FewerStillFit ==
    ASSUME NEW S, NEW T \in SUBSET S, NEW m \in Nat, IsFiniteSet(S), Cardinality(S) <= m
    PROVE  IsFiniteSet(T) /\ Cardinality(T) <= m
<1>1. IsFiniteSet(T) /\ Cardinality(T) <= Cardinality(S)
  BY FS_Subset
<1>2. Cardinality(T) \in Nat /\ Cardinality(S) \in Nat
  BY <1>1, FS_CardinalityType
<1> QED
  BY <1>1, <1>2

LEMMA OneMoreFits ==
    ASSUME NEW S, NEW x, NEW m \in Nat, IsFiniteSet(S), Cardinality(S) < m
    PROVE  IsFiniteSet(S \cup {x}) /\ Cardinality(S \cup {x}) <= m
<1>1. IsFiniteSet(S \cup {x}) /\ Cardinality(S \cup {x})
                                 = IF x \in S THEN Cardinality(S) ELSE Cardinality(S) + 1
  BY FS_AddElement
<1>2. Cardinality(S) \in Nat
  BY FS_CardinalityType
<1> QED
  BY <1>1, <1>2

LEMMA PeersStart == PmInit => PeersInv
<1> SUFFICES ASSUME PmInit PROVE PeersInv
  OBVIOUS
<1>1. Registered = {}
  BY DEF PmInit, Registered
<1>2. IsFiniteSet(Registered) /\ Cardinality(Registered) = 0
  BY <1>1, FS_EmptySet
<1>3. \A q \in Remotes : Len(pmPending[q]) = 0
  BY DEF PmInit
<1> QED
  BY <1>1, <1>2, <1>3, PeerManagerAssumption DEF PmInit, PeersInv

LEMMA PeersStep == PeersInv /\ [PmNext]_pmVars => PeersInv'
<1> SUFFICES ASSUME PeersInv, [PmNext]_pmVars PROVE PeersInv'
  OBVIOUS
<1> USE PeerManagerAssumption
<1>1. ASSUME NEW q \in Remotes, AddPeer(q)
      PROVE  PeersInv'
  <2>1. pmPeers' \in [Remotes -> PeerInfo \cup {NoInfo}] /\ removing' = {}
        /\ UNCHANGED <<pmPending, queued, handed>>
    BY <1>1 DEF AddPeer, PeersInv, PeersUnlocked, PeerInfo, PeerState
  <2>2. Registered' \subseteq Registered \cup {q}
    BY <1>1 DEF AddPeer, PeersInv, Registered
  <2>3. IsFiniteSet(Registered \cup {q}) /\ Cardinality(Registered \cup {q}) <= MaxPeers
    BY <1>1, OneMoreFits DEF AddPeer, PeersInv
  <2>4. IsFiniteSet(Registered') /\ Cardinality(Registered') <= MaxPeers
    BY <2>2, <2>3, FewerStillFit
  <2> QED
    BY <2>1, <2>4 DEF PeersInv
<1>2. ASSUME removing' \subseteq Remotes, removing' \cap Registered' = {},
             pmPeers' \in [Remotes -> PeerInfo \cup {NoInfo}],
             Registered' \subseteq Registered, UNCHANGED <<pmPending, queued, handed>>
      PROVE  PeersInv'
  <2>1. IsFiniteSet(Registered') /\ Cardinality(Registered') <= MaxPeers
    BY <1>2, FewerStillFit DEF PeersInv
  <2> QED
    BY <1>2, <2>1 DEF PeersInv
<1>3. ASSUME NEW q \in Remotes,
             \/ SetPublicKey(q) \/ GrowsIdle(q) \/ \E s \in PeerState : SetState(q, s)
      PROVE  PeersInv'
  <2>1. q \in Registered /\ pmPeers[q] \in PeerInfo
    BY <1>3 DEF SetPublicKey, GrowsIdle, SetState, PeersInv, Registered
  <2>2. PICK info \in PeerInfo : pmPeers' = [pmPeers EXCEPT ![q] = info]
    <3>1. CASE SetPublicKey(q)
      BY <2>1, <3>1 DEF SetPublicKey, PeerInfo
    <3>2. CASE GrowsIdle(q)
      BY <2>1, <3>2 DEF GrowsIdle, PeerInfo
    <3>3. ASSUME NEW s \in PeerState, SetState(q, s)
          PROVE  \E info \in PeerInfo : pmPeers' = [pmPeers EXCEPT ![q] = info]
      <4>1. [pmPeers[q] EXCEPT !.state = s, !.idle = FALSE] \in PeerInfo
        BY <2>1 DEF PeerInfo
      <4>2. pmPeers' = [pmPeers EXCEPT ![q] = [pmPeers[q] EXCEPT !.state = s, !.idle = FALSE]]
        BY <2>1, <3>3 DEF SetState, PeersInv
      <4> QED
        BY <4>1, <4>2
    <3> QED
      BY <1>3, <3>1, <3>2, <3>3
  <2>3. UNCHANGED <<pmPending, removing, queued, handed>>
    BY <1>3 DEF SetPublicKey, GrowsIdle, SetState
  <2>4. pmPeers' \in [Remotes -> PeerInfo \cup {NoInfo}] /\ Registered' \subseteq Registered
    BY <2>1, <2>2 DEF PeersInv, Registered
  <2> QED
    BY <1>2, <2>3, <2>4 DEF PeersInv
<1>4. ASSUME NEW q \in Remotes, RemovePeer(q)
      PROVE  PeersInv'
  <2>1. /\ pmPeers' \in [Remotes -> PeerInfo \cup {NoInfo}] /\ Registered' \subseteq Registered
        /\ removing' \cap Registered' = {}
    BY <1>4 DEF RemovePeer, PeersInv, Registered
  <2> QED
    BY <1>2, <1>4, <2>1 DEF RemovePeer
<1>5. CASE CleanupIdle
  <2>1. /\ pmPeers' \in [Remotes -> PeerInfo \cup {NoInfo}] /\ Registered' \subseteq Registered
        /\ removing' \cap Registered' = {} /\ removing' \subseteq Remotes
    BY <1>5 DEF CleanupIdle, PeersInv, Registered
  <2> QED
    BY <1>2, <1>5, <2>1 DEF CleanupIdle
<1>6. CASE RemovePending
  <2>1. UNCHANGED <<pmPeers, queued, handed>> /\ removing' = {} /\ Registered' = Registered
    BY <1>6 DEF RemovePending, Registered
  <2>2. pmPending' \in [Remotes -> Seq(Nat)]
    BY <1>6 DEF RemovePending, PeersInv
  <2>3. ASSUME NEW q \in Remotes
        PROVE  Len(pmPending'[q]) <= MaxPending
    <3>1. pmPending'[q] = << >> \/ pmPending'[q] = pmPending[q]
      BY <1>6 DEF RemovePending, PeersInv
    <3> QED
      BY <3>1 DEF PeersInv
  <2> QED
    BY <2>1, <2>2, <2>3 DEF PeersInv
<1>7. ASSUME NEW q \in Remotes, QueueMessage(q)
      PROVE  PeersInv'
  <2>1. UNCHANGED <<pmPeers, removing, handed>> /\ Registered' = Registered /\ queued' \in Nat
    BY <1>7 DEF QueueMessage, Registered, PeersInv
  <2>2. pmPending[q] \in Seq(Nat) /\ Len(pmPending[q]) < MaxPending /\ queued + 1 \in Nat
    BY <1>7 DEF QueueMessage, PeersInv
  <2>3. pmPending' = [pmPending EXCEPT ![q] = Append(pmPending[q], queued + 1)]
    BY <1>7 DEF QueueMessage
  <2>4. Append(pmPending[q], queued + 1) \in Seq(Nat)
        /\ Len(Append(pmPending[q], queued + 1)) <= MaxPending
    BY <2>2
  <2> QED
    BY <2>1, <2>3, <2>4 DEF PeersInv
<1>8. ASSUME NEW q \in Remotes, DrainPending(q)
      PROVE  PeersInv'
  <2>1. UNCHANGED <<pmPeers, removing, queued>> /\ Registered' = Registered
    BY <1>8 DEF DrainPending, Registered
  <2>2. handed' \in [Remotes -> Seq(Nat)] /\ pmPending' \in [Remotes -> Seq(Nat)]
    BY <1>8 DEF DrainPending, PeersInv
  <2>3. ASSUME NEW r \in Remotes
        PROVE  Len(pmPending'[r]) <= MaxPending
    <3>1. pmPending'[r] = << >> \/ pmPending'[r] = pmPending[r]
      BY <1>8 DEF DrainPending, PeersInv
    <3> QED
      BY <3>1 DEF PeersInv
  <2> QED
    BY <2>1, <2>2, <2>3 DEF PeersInv
<1>9. CASE UNCHANGED pmVars
  BY <1>9 DEF pmVars, PeersInv, Registered
<1> QED
  BY <1>1, <1>3, <1>4, <1>5, <1>6, <1>7, <1>8, <1>9 DEF PmNext

\* PeerManager (peer.rs): add_peer and queue_message keep both tables within their
\* limits, whatever clones of the manager do at the same time.
THEOREM PeerTablesStayBounded == PmSpec => []PeerTablesBounded
<1>1. PeersInv => PeerTablesBounded
  BY DEF PeersInv, PeerTablesBounded
<1> QED
  BY <1>1, PeersStart, PeersStep, PTL DEF PmSpec

\* remove_peer and cleanup_idle: a removal that is under way never discards what was
\* queued for the peer's next connection.
THEOREM QueuesKept == PmSpec => QueueKept
<1> DEFINE A == \A q \in Registered :
                   \/ pmPending'[q] = pmPending[q]
                   \/ pmPending'[q] = Append(pmPending[q], queued')
                   \/ pmPending'[q] = << >> /\ handed'[q] = handed[q] \o pmPending[q]
<1>1. PeersInv /\ [PmNext]_pmVars => [A]_pmVars
  <2> SUFFICES ASSUME PeersInv, PmNext, NEW q \in Registered
               PROVE  \/ pmPending'[q] = pmPending[q]
                      \/ pmPending'[q] = Append(pmPending[q], queued')
                      \/ pmPending'[q] = << >> /\ handed'[q] = handed[q] \o pmPending[q]
    BY DEF pmVars
  <2>0. q \in Remotes /\ pmPending[q] \in Seq(Nat)
    BY DEF PeersInv, Registered
  <2>1. CASE RemovePending
    BY <2>0, <2>1 DEF RemovePending, PeersInv
  <2>2. ASSUME NEW r \in Remotes, QueueMessage(r)
        PROVE  pmPending'[q] = pmPending[q] \/ pmPending'[q] = Append(pmPending[q], queued')
    BY <2>0, <2>2 DEF QueueMessage, PeersInv
  <2>3. ASSUME NEW r \in Remotes, DrainPending(r)
        PROVE  \/ pmPending'[q] = pmPending[q]
               \/ pmPending'[q] = << >> /\ handed'[q] = handed[q] \o pmPending[q]
    BY <2>0, <2>3 DEF DrainPending, PeersInv
  <2>4. CASE UNCHANGED pmPending
    BY <2>4
  <2> QED
    BY <2>1, <2>2, <2>3, <2>4 DEF PmNext, AddPeer, SetPublicKey, GrowsIdle, RemovePeer,
       SetState, CleanupIdle
<1> QED
  BY <1>1, PeersStart, PeersStep, PTL DEF PmSpec, QueueKept

-----------------------------------------------------------------------------
(* The handshake                                                            *)

\* What a program of this repository sends for puzzle c: the difficulty it promises,
\* and a solution or a nonce from which on the solver found none.
HonestProof(m, c) ==
    /\ m.bits = HelloBits /\ m.nonce \in Nonces
    /\ PowCheck(c, m.nonce, HelloBits) \/ Exhausted(c, m.nonce)

\* An answer is honest and comes after a hello that passed the checks.
HandInv ==
    /\ ack # NoMessage => /\ responder # "wait" /\ hello # NoMessage
                          /\ HelloRefusal(hello) = "none"
                          /\ HonestProof(ack, ack.challenge)
    /\ ours => initiator # "start" /\ HonestProof(hello, NoChallenge)
    /\ initiator = "wait" => ours
    /\ initiator = "done" => ours /\ ack # NoMessage
    /\ refusal \in {"parameters", "no proof", "difficulty"} => hello # NoMessage
    /\ HonestSidesAgree

\* What a refusal says about an honest message.
LEMMA RefusalMeans ==
    ASSUME NEW c, NEW m, HonestProof(m, c),
           m.nonce > NonceLimit \/ m.bits = 0 \/ m.bits > BitsLimit \/ ~PowCheck(c, m.nonce, m.bits)
    PROVE  m.nonce > NonceLimit \/ Exhausted(c, m.nonce)
<1>1. CASE m.nonce > NonceLimit
  BY <1>1
<1>2. CASE m.bits = 0
  BY <1>2, HandshakeAssumption DEF HonestProof, PowCheck
<1>3. CASE m.bits > BitsLimit
  BY <1>3, HandshakeAssumption DEF HonestProof
<1>4. CASE ~PowCheck(c, m.nonce, m.bits)
  BY <1>4 DEF HonestProof
<1> QED
  BY <1>1, <1>2, <1>3, <1>4

\* The solver answers with a u64, which solves the puzzle unless none it tried does.
LEMMA SolveSolves ==
    ASSUME NEW c, NEW base \in Nonces
    PROVE  /\ Solve(c, base) \in Nonces
           /\ PowCheck(c, Solve(c, base), HelloBits) \/ Exhausted(c, Solve(c, base))
<1> USE HandshakeAssumption
<1> DEFINE good == {i \in 0..Attempts - 1 : PowCheck(c, Tried(base, i), HelloBits)}
           first == CHOOSE i \in good : \A j \in good : i <= j
<1>1. CASE good = {}
  <2>1. Solve(c, base) = base
    BY <1>1 DEF Solve
  <2>2. Exhausted(c, base)
    BY <1>1 DEF Exhausted
  <2> QED
    BY <2>1, <2>2
<1>2. CASE good # {}
  <2>1. good \in SUBSET Nat
    OBVIOUS
  <2>2. \E i \in good : \A j \in good : i <= j
    BY <1>2, <2>1, LeastOf
  <2>3. first \in good
    BY <2>2
  <2>4. first \in Nat /\ PowCheck(c, Tried(base, first), HelloBits)
    BY <2>1, <2>3
  <2>5. Solve(c, base) = Tried(base, first)
    BY <1>2 DEF Solve
  <2> HIDE DEF first
  <2>6. base + first \in Nat /\ NonceSpace \in Nat \ {0}
    BY <2>4 DEF Nonces
  <2>7. Tried(base, first) \in 0..NonceSpace - 1
    BY <2>6 DEF Tried
  <2> QED
    BY <2>4, <2>5, <2>7 DEF Nonces
<1> QED
  BY <1>1, <1>2

LEMMA HandStart == HandInit => HandInv
BY DEF HandInit, HandInv, HonestSidesAgree

LEMMA HandStep == HandInv /\ [HandNext]_handVars => HandInv'
<1> SUFFICES ASSUME HandInv, [HandNext]_handVars PROVE HandInv'
  OBVIOUS
<1>1. ASSUME NEW base \in Nonces, SendHello(base)
      PROVE  HandInv'
  <2> DEFINE n == Solve(NoChallenge, base)
  <2>1. n \in Nonces /\ (PowCheck(NoChallenge, n, HelloBits) \/ Exhausted(NoChallenge, n))
    BY SolveSolves
  <2>2. hello' = [nonce |-> n, bits |-> HelloBits]
    BY <1>1 DEF SendHello
  <2> HIDE DEF n
  <2>3. hello'.nonce = n /\ hello'.bits = HelloBits
    BY <2>2
  <2>4. HonestProof(hello, NoChallenge)'
    BY <2>1, <2>3 DEF HonestProof, PowCheck, Exhausted
  <2>5. refusal \notin {"parameters", "no proof", "difficulty"} /\ ack = NoMessage
    BY <1>1 DEF SendHello, HandInv
  <2>6. initiator' = "wait" /\ ours' = TRUE /\ UNCHANGED <<responder, ack, refusal>>
    BY <1>1 DEF SendHello
  <2> QED
    BY <2>4, <2>5, <2>6 DEF HandInv, HonestSidesAgree
<1>2. ASSUME NEW n \in Nonces, NEW bits, OtherHello(n, bits)
      PROVE  HandInv'
  <2>1. refusal \notin {"parameters", "no proof", "difficulty"} /\ ~ours /\ ack = NoMessage
    BY <1>2 DEF OtherHello, HandInv
  <2>2. initiator = "start" /\ UNCHANGED <<initiator, responder, ack, ours, refusal>>
    BY <1>2 DEF OtherHello
  <2> QED
    BY <2>1, <2>2 DEF HandInv, HonestSidesAgree
<1>3. CASE RefuseHello
  <2>1. /\ responder = "wait" /\ hello # NoMessage /\ HelloRefusal(hello) # "none"
        /\ UNCHANGED <<initiator, hello, ack, ours>> /\ ack = NoMessage
    BY <1>3 DEF RefuseHello, HandInv
  <2>2. ours => hello.nonce > NonceLimit \/ Exhausted(NoChallenge, hello.nonce)
    <3>1. hello.nonce > NonceLimit \/ hello.bits = 0 \/ hello.bits > BitsLimit
          \/ ~PowCheck(NoChallenge, hello.nonce, hello.bits)
      BY <2>1 DEF HelloRefusal
    <3> QED
      BY <3>1, RefusalMeans DEF HandInv
  <2>3. ours' => hello'.nonce > NonceLimit \/ Exhausted(NoChallenge, hello.nonce)'
    BY <2>1, <2>2 DEF Exhausted, PowCheck
  <2>4. ours' => HonestProof(hello, NoChallenge)'
    BY <2>1 DEF HandInv, HonestProof, Exhausted, PowCheck
  <2>5. initiator' # "done" /\ responder' = "failed"
    BY <1>3, <2>1 DEF RefuseHello, HandInv
  <2> QED
    BY <2>1, <2>3, <2>4, <2>5 DEF HandInv, HonestSidesAgree
<1>4. ASSUME NEW base \in Nonces, NEW c \in Challenges, AnswerHello(c, base)
      PROVE  HandInv'
  <2> DEFINE n == Solve(c, base)
  <2>1. /\ responder = "wait" /\ hello # NoMessage /\ HelloRefusal(hello) = "none"
        /\ UNCHANGED <<initiator, hello, ours, refusal>> /\ ack = NoMessage
        /\ responder' = "sending"
    BY <1>4 DEF AnswerHello, HandInv
  <2>2. n \in Nonces /\ (PowCheck(c, n, HelloBits) \/ Exhausted(c, n))
    BY SolveSolves
  <2>3. ack' = [nonce |-> n, bits |-> HelloBits, challenge |-> c]
    BY <1>4 DEF AnswerHello
  <2> HIDE DEF n
  <2>4. ack'.nonce = n /\ ack'.bits = HelloBits /\ ack'.challenge = c
    BY <2>3
  <2>5. HonestProof(ack, ack.challenge)'
    BY <2>2, <2>4 DEF HonestProof, PowCheck, Exhausted
  <2> QED
    BY <2>1, <2>5 DEF HandInv, HonestSidesAgree, HelloRefusal, HonestProof, PowCheck, Exhausted
<1>5. CASE AckSent
  <2>1. UNCHANGED <<initiator, hello, ack, ours, refusal>> /\ responder' = "done"
    BY <1>5 DEF AckSent
  <2> QED
    BY <2>1 DEF HandInv, HonestSidesAgree, HelloRefusal, HonestProof, PowCheck, Exhausted
<1>6. CASE SendFails
  <2>1. /\ UNCHANGED <<initiator, hello, ours>> /\ responder' = "failed" /\ refusal' = "send"
        /\ \/ ack' = ack
           \/ initiator = "wait" /\ ack' = NoMessage
    BY <1>6 DEF SendFails
  <2>2. CASE ack' = ack
    BY <2>1, <2>2 DEF HandInv, HonestSidesAgree, HelloRefusal, HonestProof, PowCheck, Exhausted
  <2>3. CASE initiator = "wait" /\ ack' = NoMessage
    BY <2>1, <2>3 DEF HandInv, HonestSidesAgree, HonestProof, PowCheck, Exhausted
  <2> QED
    BY <2>1, <2>2, <2>3
<1>7. CASE TakeAck
  <2>1. /\ initiator = "wait" /\ ack # NoMessage /\ refusal' = AckRefusal(ack) /\ ours
        /\ UNCHANGED <<responder, hello, ack, ours>>
        /\ initiator' = IF AckRefusal(ack) = "none" THEN "done" ELSE "failed"
    BY <1>7 DEF TakeAck, HandInv
  <2>2. /\ responder # "wait" /\ hello # NoMessage /\ HelloRefusal(hello) = "none"
        /\ HonestProof(ack, ack.challenge) /\ HonestProof(hello, NoChallenge)
    BY <2>1 DEF HandInv
  <2>3. PowCheck(NoChallenge, hello.nonce, HelloBits)
    BY <2>2 DEF HelloRefusal, HonestProof
  <2>4. CASE AckRefusal(ack) = "none"
    <3>1. PowCheck(ack.challenge, ack.nonce, HelloBits)
      BY <2>2, <2>4 DEF AckRefusal, HonestProof
    <3> QED
      BY <2>1, <2>2, <2>3, <2>4, <3>1
         DEF HandInv, HonestSidesAgree, HelloRefusal, HonestProof, PowCheck, Exhausted
  <2>5. CASE AckRefusal(ack) # "none"
    <3>1. ack.nonce > NonceLimit \/ ack.bits = 0 \/ ack.bits > BitsLimit
          \/ ~PowCheck(ack.challenge, ack.nonce, ack.bits)
      BY <2>2, <2>5 DEF AckRefusal, HonestProof
    <3>2. ack.nonce > NonceLimit \/ Exhausted(ack.challenge, ack.nonce)
      BY <2>2, <3>1, RefusalMeans
    <3> QED
      BY <2>1, <2>2, <2>5, <3>2
         DEF HandInv, HonestSidesAgree, HelloRefusal, HonestProof, PowCheck, Exhausted
  <2> QED
    BY <2>4, <2>5
<1>8. CASE InitiatorTimeout \/ ResponderTimeout
  <2>1. refusal' = "timeout" /\ UNCHANGED <<hello, ack, ours>>
    BY <1>8 DEF InitiatorTimeout, ResponderTimeout
  <2>2. \/ initiator' = "failed" /\ responder' = responder
        \/ initiator' = initiator /\ responder' = "failed"
    BY <1>8 DEF InitiatorTimeout, ResponderTimeout
  <2> QED
    BY <2>1, <2>2 DEF HandInv, HonestSidesAgree, HelloRefusal, HonestProof, PowCheck, Exhausted
<1>9. CASE UNCHANGED handVars
  BY <1>9 DEF handVars, HandInv, HonestSidesAgree, HelloRefusal, HonestProof, PowCheck, Exhausted
<1> QED
  BY <1>1, <1>2, <1>3, <1>4, <1>5, <1>6, <1>7, <1>8, <1>9 DEF HandNext

\* handshake.rs: for any hash, limits and number of attempts, two programs of this
\* repository refuse each other's proof only for a nonce above the limit or where no
\* nonce that the solver tried solves the puzzle the other side checks, and the
\* initiator is done only when both proofs are good.
THEOREM SidesAgree == HandSpec => []HonestSidesAgree
<1>1. HandInv => HonestSidesAgree
  BY DEF HandInv
<1> QED
  BY <1>1, HandStart, HandStep, PTL DEF HandSpec

-----------------------------------------------------------------------------
(* The certificate cache                                                    *)

CertTypeInv ==
    /\ instant \in Nat
    /\ certCache \in [Prints -> Nat \cup {NoCert}]
    /\ touching \in [Threads -> Prints \cup {NoCert}]
    /\ sought \in [Prints -> Nat]

Touched(f) == \E t \in Threads : touching[t] = f

\* The date of an entry is that of its last use, unless the use is not over yet.
DatesInv ==
    /\ \A f \in Prints : sought[f] < instant
    /\ \A f \in Cached : Touched(f) \/ sought[f] <= certCache[f]

CertSizeInv == IsFiniteSet(Cached) /\ Cardinality(Cached) <= CacheMax

CertInv == CertTypeInv /\ DatesInv /\ CertSizeInv

LEMMA CertStart == CertInit => CertInv
<1> SUFFICES ASSUME CertInit PROVE CertInv
  OBVIOUS
<1>1. Cached = {}
  BY DEF CertInit, Cached
<1>2. IsFiniteSet(Cached) /\ Cardinality(Cached) = 0
  BY <1>1, FS_EmptySet
<1> QED
  BY <1>1, <1>2, CertCacheAssumption DEF CertInit, CertInv, CertTypeInv, DatesInv, CertSizeInv

\* What cache_cert does: the new entry, and the oldest one gone if there are too many.
LEMMA CacheCertDoes ==
    ASSUME CertInv, NEW f \in Prints, CacheCert(f)
    PROVE  \E with \in [Prints -> Nat \cup {NoCert}] :
              /\ with = [certCache EXCEPT ![f] = instant]
              /\ \A g \in Prints : with[g] # NoCert <=> g \in Cached \cup {f}
              /\ \/ certCache' = with /\ Cardinality(Cached \cup {f}) <= CacheMax
                 \/ \E lru \in Cached \cup {f} :
                       /\ \A h \in Cached \cup {f} : with[lru] <= with[h]
                       /\ certCache' = [with EXCEPT ![lru] = NoCert]
<1> USE CertCacheAssumption
<1> DEFINE entry == instant
           with == [certCache EXCEPT ![f] = entry]
           all == Cached \cup {f}
           oldest(g) == \A h \in all : with[g] <= with[h]
           lru == CHOOSE g \in all : oldest(g)
<1>1. entry \in Nat /\ entry # NoCert
  BY DEF CertInv, CertTypeInv
<1>2. with \in [Prints -> Nat \cup {NoCert}]
  BY <1>1 DEF CertInv, CertTypeInv
<1>3. \A g \in Prints : with[g] # NoCert <=> g \in all
  BY <1>1 DEF CertInv, CertTypeInv, Cached
<1>4. all \subseteq Prints /\ \A g \in all : with[g] \in Nat
  BY <1>2, <1>3 DEF Cached
<1>5. \E g \in all : oldest(g)
  <2> DEFINE T == {with[g] : g \in all}
  <2> HIDE DEF with, all
  <2>1. T \in SUBSET Nat
    BY <1>4
  <2>2. f \in all
    BY DEF all
  <2>3. T # {}
    BY <2>2
  <2>4. PICK x \in T : \A y \in T : x <= y
    BY <2>1, <2>3, LeastOf
  <2> QED
    BY <2>4
<1>6. lru \in all /\ oldest(lru)
  BY <1>5
<1>7. certCache' = IF Cardinality(all) > CacheMax THEN [with EXCEPT ![lru] = NoCert] ELSE with
  BY DEF CacheCert
<1>8. Cardinality(all) \in Nat
  BY FS_AddElement, FS_CardinalityType DEF CertInv, CertSizeInv
<1> HIDE DEF lru
<1>9. \/ certCache' = with /\ Cardinality(all) <= CacheMax
      \/ \E g \in all : oldest(g) /\ certCache' = [with EXCEPT ![g] = NoCert]
  <2>1. CASE Cardinality(all) > CacheMax
    BY <1>6, <1>7, <2>1
  <2>2. CASE ~(Cardinality(all) > CacheMax)
    BY <1>7, <1>8, <2>2
  <2> QED
    BY <2>1, <2>2
<1> WITNESS with \in [Prints -> Nat \cup {NoCert}]
<1> QED
  BY <1>3, <1>9

\* The size of the cache after cache_cert.
LEMMA CacheCertFits ==
    ASSUME CertInv, NEW f \in Prints, CacheCert(f)
    PROVE  CertSizeInv'
<1> USE CertCacheAssumption
<1>1. PICK with \in [Prints -> Nat \cup {NoCert}] :
              /\ \A g \in Prints : with[g] # NoCert <=> g \in Cached \cup {f}
              /\ \/ certCache' = with /\ Cardinality(Cached \cup {f}) <= CacheMax
                 \/ \E lru \in Cached \cup {f} : certCache' = [with EXCEPT ![lru] = NoCert]
  BY CacheCertDoes
<1>2. /\ IsFiniteSet(Cached \cup {f}) /\ Cardinality(Cached) \in Nat
      /\ Cardinality(Cached \cup {f}) = IF f \in Cached THEN Cardinality(Cached) ELSE Cardinality(Cached) + 1
  BY FS_AddElement, FS_CardinalityType DEF CertInv, CertSizeInv
<1>3. Cached' = {g \in Prints : certCache'[g] # NoCert} /\ Cached \cup {f} \subseteq Prints
  BY DEF Cached
<1>4. CASE certCache' = with /\ Cardinality(Cached \cup {f}) <= CacheMax
  <2>1. Cached' = Cached \cup {f}
    BY <1>1, <1>3, <1>4
  <2> QED
    BY <1>2, <1>4, <2>1 DEF CertSizeInv
<1>5. ASSUME NEW lru \in Cached \cup {f}, certCache' = [with EXCEPT ![lru] = NoCert]
      PROVE  CertSizeInv'
  <2>1. Cached' = (Cached \cup {f}) \ {lru}
    BY <1>1, <1>3, <1>5
  <2>2. IsFiniteSet(Cached') /\ Cardinality(Cached') = Cardinality(Cached \cup {f}) - 1
    BY <1>2, <2>1, FS_RemoveElement
  <2>3. Cardinality(Cached) <= CacheMax
    BY DEF CertInv, CertSizeInv
  <2> QED
    BY <1>2, <2>2, <2>3 DEF CertSizeInv
<1> QED
  BY <1>1, <1>4, <1>5

LEMMA CertStep == CertInv /\ [CertNext]_certVars => CertInv'
<1> SUFFICES ASSUME CertInv, [CertNext]_certVars PROVE CertInv'
  OBVIOUS
<1> USE CertCacheAssumption
<1>1. ASSUME NEW t \in Threads, NEW f \in Prints, VerifyWithCert(t, f)
      PROVE  CertInv'
  <2>1. /\ CacheCert(f) /\ instant' = instant + 1 /\ touching' = touching
        /\ sought' = [sought EXCEPT ![f] = instant]
    BY <1>1 DEF VerifyWithCert, Now
  <2>2. PICK with \in [Prints -> Nat \cup {NoCert}] :
              /\ with = [certCache EXCEPT ![f] = instant]
              /\ \A g \in Prints : with[g] # NoCert <=> g \in Cached \cup {f}
              /\ \/ certCache' = with
                 \/ \E lru \in Cached \cup {f} : certCache' = [with EXCEPT ![lru] = NoCert]
    BY <2>1, CacheCertDoes
  <2>3. \A g \in Prints : certCache'[g] = NoCert \/ certCache'[g] = with[g]
    BY <2>2
  <2>4. CertTypeInv'
    <3>1. certCache' \in [Prints -> Nat \cup {NoCert}]
      BY <2>2
    <3>2. sought' \in [Prints -> Nat] /\ instant' \in Nat
      BY <2>1 DEF CertInv, CertTypeInv
    <3>3. touching' \in [Threads -> Prints \cup {NoCert}]
      BY <2>1 DEF CertInv, CertTypeInv
    <3> QED
      BY <3>1, <3>2, <3>3 DEF CertTypeInv
  <2>5. \A g \in Prints : sought'[g] < instant'
    BY <2>1 DEF CertInv, CertTypeInv, DatesInv
  <2>6. ASSUME NEW g \in Prints, certCache'[g] # NoCert
        PROVE  Touched(g)' \/ sought'[g] <= certCache'[g]
    <3>1. certCache'[g] = with[g]
      BY <2>3, <2>6
    <3>2. CASE g = f
      BY <2>1, <2>2, <3>1, <3>2 DEF CertInv, CertTypeInv
    <3>3. CASE g # f
      <4>1. g \in Cached /\ certCache'[g] = certCache[g] /\ sought'[g] = sought[g]
        BY <2>1, <2>2, <2>6, <3>1, <3>3 DEF CertInv, CertTypeInv, Cached
      <4> QED
        BY <2>1, <4>1 DEF CertInv, DatesInv, Touched
    <3> QED
      BY <3>2, <3>3
  <2>7. CertSizeInv'
    BY <2>1, CacheCertFits
  <2> QED
    BY <2>4, <2>5, <2>6, <2>7 DEF CertInv, DatesInv, Cached
<1>2. ASSUME NEW t \in Threads, NEW f \in Prints, LookUp(t, f)
      PROVE  CertInv'
  <2>1. /\ touching[t] = NoCert /\ f \in Cached /\ instant' = instant + 1 /\ certCache' = certCache
        /\ sought' = [sought EXCEPT ![f] = instant] /\ touching' = [touching EXCEPT ![t] = f]
    BY <1>2 DEF LookUp, Now
  <2>2. f # NoCert
    OBVIOUS
  <2>3. CertTypeInv' /\ Cached' = Cached
    BY <2>1, <2>2 DEF CertInv, CertTypeInv, Cached
  <2>4. \A g \in Prints : sought'[g] < instant'
    BY <2>1 DEF CertInv, CertTypeInv, DatesInv
  <2>5. touching'[t] = f
    BY <2>1, <2>2 DEF CertInv, CertTypeInv
  <2>6. ASSUME NEW g \in Cached
        PROVE  Touched(g)' \/ sought'[g] <= certCache'[g]
    <3>1. CASE g = f
      BY <2>5, <3>1 DEF Touched
    <3>2. CASE g # f
      <4>1. sought'[g] = sought[g] /\ certCache'[g] = certCache[g]
        BY <2>1, <3>2 DEF CertInv, CertTypeInv, Cached
      <4>2. CASE sought[g] <= certCache[g]
        BY <4>1, <4>2
      <4>3. ASSUME NEW u \in Threads, touching[u] = g
            PROVE  Touched(g)'
        <5>1. touching'[u] = touching[u]
          BY <2>1, <4>3 DEF CertInv, CertTypeInv, Cached
        <5> QED
          BY <4>3, <5>1 DEF Touched
      <4> QED
        BY <4>2, <4>3 DEF CertInv, DatesInv, Touched
    <3> QED
      BY <3>1, <3>2
  <2> QED
    BY <2>3, <2>4, <2>6 DEF CertInv, DatesInv, CertSizeInv
<1>3. ASSUME NEW t \in Threads, Touch(t)
      PROVE  CertInv'
  <2>1. PICK f : f = touching[t]
    OBVIOUS
  <2>2. /\ touching[t] # NoCert /\ instant' = instant + 1 /\ sought' = sought
        /\ touching' = [touching EXCEPT ![t] = NoCert]
        /\ certCache' = IF f \in Cached THEN [certCache EXCEPT ![f] = instant] ELSE certCache
    BY <1>3, <2>1 DEF Touch, Now
  <2>3. f \in Prints
    BY <2>1, <2>2 DEF CertInv, CertTypeInv
  <2>4. \A g \in Prints : g # f => certCache'[g] = certCache[g]
    BY <2>2 DEF CertInv, CertTypeInv
  <2>5. \/ f \in Cached /\ certCache'[f] \in Nat /\ certCache'[f] = instant
        \/ f \notin Cached /\ certCache' = certCache
    BY <2>2, <2>3 DEF CertInv, CertTypeInv, Cached
  <2>6. CertTypeInv'
    <3>1. certCache' \in [Prints -> Nat \cup {NoCert}]
      <4>1. CASE f \in Cached
        BY <2>2, <2>3, <4>1 DEF CertInv, CertTypeInv
      <4>2. CASE f \notin Cached
        BY <2>2, <4>2 DEF CertInv, CertTypeInv
      <4> QED
        BY <4>1, <4>2
    <3> QED
      BY <2>2, <3>1 DEF CertInv, CertTypeInv
  <2>7. Cached' = Cached
    BY <2>3, <2>4, <2>5 DEF Cached
  <2>8. \A g \in Prints : sought'[g] < instant'
    BY <2>2 DEF CertInv, CertTypeInv, DatesInv
  <2>9. ASSUME NEW g \in Cached
        PROVE  Touched(g)' \/ sought'[g] <= certCache'[g]
    <3>1. CASE g = f
      BY <2>2, <2>3, <2>5, <3>1 DEF CertInv, CertTypeInv, DatesInv
    <3>2. CASE g # f
      <4>1. certCache'[g] = certCache[g]
        BY <2>4, <3>2 DEF Cached
      <4>2. CASE sought[g] <= certCache[g]
        BY <2>2, <4>1, <4>2
      <4>3. ASSUME NEW u \in Threads, touching[u] = g
            PROVE  Touched(g)'
        <5>1. u # t /\ touching'[u] = touching[u]
          BY <2>1, <2>2, <3>2, <4>3 DEF CertInv, CertTypeInv
        <5> QED
          BY <4>3, <5>1 DEF Touched
      <4> QED
        BY <4>2, <4>3 DEF CertInv, DatesInv, Touched
    <3> QED
      BY <3>1, <3>2
  <2> QED
    BY <2>6, <2>7, <2>8, <2>9 DEF CertInv, DatesInv, CertSizeInv
<1>4. CASE UNCHANGED certVars
  BY <1>4 DEF certVars, CertInv, CertTypeInv, DatesInv, CertSizeInv, Cached, Touched
<1> QED
  BY <1>1, <1>2, <1>3, <1>4 DEF CertNext

\* crypto_helpers.rs: cache_cert evicts an entry only for ones that were used no
\* earlier, although get_cached_cert dates an entry only after other threads may have
\* inserted and evicted; and the cache stays within CERT_CACHE_MAX_ENTRIES.
THEOREM LeastRecentEvicted == CertSpec => EvictsLeastRecent
<1> DEFINE Ok(f) == \/ \E t \in Threads : touching[t] = f
                    \/ \A g \in Prints \ {f} : certCache'[g] # NoCert => sought[f] <= certCache'[g]
           A == /\ Cardinality({f \in Prints : certCache'[f] # NoCert}) <= CacheMax
                /\ \A f \in Cached : certCache'[f] = NoCert => Ok(f)
<1>1. CertInv /\ CertInv' /\ [CertNext]_certVars => [A]_certVars
  <2> SUFFICES ASSUME CertInv, CertInv', CertNext PROVE A
    OBVIOUS
  <2> USE CertCacheAssumption
  <2>1. Cardinality({f \in Prints : certCache'[f] # NoCert}) <= CacheMax
    BY DEF CertInv, CertSizeInv, Cached
  <2>2. ASSUME NEW e \in Cached, certCache'[e] = NoCert
        PROVE  Ok(e)
    <3>0. e \in Prints /\ certCache[e] # NoCert
      BY DEF Cached
    <3>1. ASSUME NEW t \in Threads, NEW f \in Prints, VerifyWithCert(t, f)
          PROVE  Ok(e)
      <4>1. PICK with \in [Prints -> Nat \cup {NoCert}] :
              /\ with = [certCache EXCEPT ![f] = instant]
              /\ \A g \in Prints : with[g] # NoCert <=> g \in Cached \cup {f}
              /\ \/ certCache' = with
                 \/ \E lru \in Cached \cup {f} :
                       /\ \A h \in Cached \cup {f} : with[lru] <= with[h]
                       /\ certCache' = [with EXCEPT ![lru] = NoCert]
        BY <3>1, CacheCertDoes DEF VerifyWithCert
      <4>2. certCache' # with
        BY <2>2, <3>0, <4>1
      <4>3. PICK lru \in Cached \cup {f} :
                       /\ \A h \in Cached \cup {f} : with[lru] <= with[h]
                       /\ certCache' = [with EXCEPT ![lru] = NoCert]
        BY <4>1, <4>2
      <4>4. lru = e
        BY <2>2, <3>0, <4>1, <4>3
      <4>5. CASE Touched(e)
        BY <4>5 DEF Touched
      <4>6. CASE ~Touched(e)
        <5>1. sought[e] <= with[e] /\ sought[e] \in Nat /\ with[e] \in Nat
          <6>1. CASE e = f
            BY <3>0, <4>1, <6>1 DEF CertInv, CertTypeInv, DatesInv
          <6>2. CASE e # f
            BY <3>0, <4>1, <4>6, <6>2 DEF CertInv, CertTypeInv, DatesInv
          <6> QED
            BY <6>1, <6>2
        <5>2. ASSUME NEW g \in Prints \ {e}, certCache'[g] # NoCert
              PROVE  sought[e] <= certCache'[g]
          <6>1. certCache'[g] = with[g] /\ g \in Cached \cup {f} /\ with[g] \in Nat
            BY <4>1, <4>3, <4>4, <5>2
          <6>2. with[e] <= with[g] /\ with[g] \in Nat
            BY <4>3, <4>4, <6>1
          <6> QED
            BY <5>1, <6>1, <6>2
        <5> QED
          BY <5>2
      <4> QED
        BY <4>5, <4>6
    <3>2. ASSUME NEW t \in Threads, NEW f \in Prints, LookUp(t, f)
          PROVE  FALSE
      BY <2>2, <3>0, <3>2 DEF LookUp
    <3>3. ASSUME NEW t \in Threads, Touch(t)
          PROVE  Ok(e)
      <4>1. CASE touching[t] = e
        BY <3>3, <4>1 DEF Touch
      <4>2. CASE touching[t] # e
        <5>1. certCache'[e] = certCache[e]
          BY <3>0, <3>3, <4>2 DEF Touch, CertInv, CertTypeInv
        <5> QED
          BY <2>2, <3>0, <5>1
      <4> QED
        BY <4>1, <4>2
    <3> HIDE DEF Ok
    <3> QED
      BY <3>1, <3>2, <3>3 DEF CertNext
  <2> QED
    BY <2>1, <2>2
<1> QED
  BY <1>1, CertStart, CertStep, PTL DEF CertSpec, EvictsLeastRecent

-----------------------------------------------------------------------------
(* The rate limiters                                                        *)

\* The bucket b of an address and the operations g it was let in for that count: the
\* bucket still has them all, and was used no earlier than at its latest time.
GoodBucket(b, g, clock) ==
    /\ g \in SUBSET Stamps /\ \A e \in g : e.at >= clock - Window
    /\ b = NoBucket => g = {}
    /\ b # NoBucket => /\ b \in RateBuckets /\ b.last <= clock
                       /\ IsFiniteSet(b.times) /\ Cardinality(b.times) <= RatePerWindow
                       /\ \A e \in b.times : e.at <= b.last
                       /\ g \subseteq b.times

RateInv ==
    /\ limiter \in {"dht", "relay"} /\ rateClock \in Nat
    /\ buckets \in [Sources -> RateBuckets \cup {NoBucket}]
    /\ granted \in [Sources -> SUBSET Stamps]
    /\ \A a \in Sources : GoodBucket(buckets[a], granted[a], rateClock)
    /\ IsFiniteSet(Tracked) /\ Cardinality(Tracked) <= MaxBuckets

\* allow pushes a time only when the bucket has room, so a slot is free for it.
LEMMA SlotIsFree ==
    ASSUME NEW s \in SUBSET Stamps, IsFiniteSet(s), Cardinality(s) < RatePerWindow
    PROVE  FreeSlot(s) \in 1..RatePerWindow /\ \A e \in s : e.slot # FreeSlot(s)
<1> USE RateLimitsAssumption
<1> DEFINE T == {e.slot : e \in s}
           f == [e \in s |-> e.slot]
<1>1. f \in Surjection(s, T)
  BY DEF Surjection
<1>2. IsFiniteSet(T) /\ Cardinality(T) <= Cardinality(s)
  BY <1>1, FS_Surjection
<1>3. Cardinality(T) \in Nat /\ Cardinality(s) \in Nat
  BY <1>2, FS_CardinalityType
<1>4. Cardinality(1..RatePerWindow) = RatePerWindow
  <2>1. 1 \in Int /\ RatePerWindow \in Int /\ RatePerWindow - 1 + 1 = RatePerWindow /\ ~(1 > RatePerWindow)
    OBVIOUS
  <2> QED
    BY <2>1, FS_Interval
<1> HIDE DEF T
<1>5. \E i \in 1..RatePerWindow : i \notin T
  <2> SUFFICES ASSUME 1..RatePerWindow \in SUBSET T PROVE FALSE
    OBVIOUS
  <2>1. Cardinality(1..RatePerWindow) <= Cardinality(T)
    BY <1>2, FS_Subset
  <2> QED
    BY <1>2, <1>3, <1>4, <2>1
<1>6. \E i \in 1..RatePerWindow : \A e \in s : e.slot # i
  BY <1>5 DEF T
<1> QED
  BY <1>6 DEF FreeSlot

\* What retain leaves of a bucket: with any time that has been, nothing goes that counts.
LEMMA TimesFacts ==
    ASSUME RateInv, NEW a \in Sources, NEW now \in 0..rateClock
    PROVE  /\ Times(a, now) \in SUBSET Stamps /\ IsFiniteSet(Times(a, now))
           /\ Cardinality(Times(a, now)) <= RatePerWindow
           /\ \A e \in Times(a, now) : e.at <= rateClock
           /\ a \in Tracked => \A e \in Times(a, now) : e.at <= buckets[a].last
           /\ granted[a] \subseteq Times(a, now)
<1> USE RateLimitsAssumption
<1>1. GoodBucket(buckets[a], granted[a], rateClock) /\ rateClock \in Nat
  BY DEF RateInv
<1>2. CASE a \notin Tracked
  <2>1. Times(a, now) = {} /\ granted[a] = {}
    BY <1>1, <1>2 DEF Times, Tracked, GoodBucket
  <2> QED
    BY <1>2, <2>1, FS_EmptySet
<1>3. CASE a \in Tracked
  <2> DEFINE s == buckets[a].times
  <2>1. buckets[a] # NoBucket /\ Times(a, now) = Recent(s, now)
    BY <1>3 DEF Times, Tracked
  <2>2. /\ buckets[a] \in RateBuckets /\ buckets[a].last <= rateClock
        /\ IsFiniteSet(s) /\ Cardinality(s) <= RatePerWindow
        /\ \A e \in s : e.at <= buckets[a].last
        /\ granted[a] \subseteq s /\ \A e \in granted[a] : e.at >= rateClock - Window
    BY <1>1, <2>1 DEF GoodBucket
  <2>3. s \in SUBSET Stamps /\ buckets[a].last \in Nat
    BY <2>2 DEF RateBuckets
  <2> HIDE DEF s
  <2>4. \A e \in s : e.at \in Nat
    BY <2>3 DEF Stamps
  <2>5. Recent(s, now) \in SUBSET s
    BY DEF Recent
  <2>6. IsFiniteSet(Recent(s, now)) /\ Cardinality(Recent(s, now)) <= RatePerWindow
    BY <2>2, <2>5, FewerStillFit
  <2>7. granted[a] \subseteq Recent(s, now)
    <3> SUFFICES ASSUME NEW e \in granted[a] PROVE e.at >= now - Window
      BY <2>2 DEF Recent
    <3>1. e.at \in Nat /\ e.at >= rateClock - Window
      BY <2>2, <2>4
    <3> QED
      BY <1>1, <3>1
  <2>8. \A e \in Recent(s, now) : e.at <= buckets[a].last /\ e.at <= rateClock
    BY <1>1, <2>2, <2>3, <2>4, <2>5
  <2> QED
    BY <2>1, <2>3, <2>5, <2>6, <2>7, <2>8
<1> QED
  BY <1>2, <1>3

\* allow, let in or refused, leaves both records in agreement.
LEMMA EnteredGood ==
    ASSUME RateInv, NEW a \in Sources, NEW now \in 0..rateClock
    PROVE  GoodBucket(Entered(a, now), Recent(granted[a] \cup Pushed(a, now), rateClock), rateClock)
<1> USE RateLimitsAssumption
<1> DEFINE s == Times(a, now)
           b == Entered(a, now)
           g == Recent(granted[a] \cup Pushed(a, now), rateClock)
<1>1. /\ s \in SUBSET Stamps /\ IsFiniteSet(s) /\ Cardinality(s) <= RatePerWindow
      /\ \A e \in s : e.at <= rateClock
      /\ granted[a] \subseteq s
  BY TimesFacts
<1>2. rateClock \in Nat /\ now \in Nat /\ now <= rateClock
  BY DEF RateInv
<1>3. b.times = s \cup Pushed(a, now) /\ b.last = rateClock /\ b = [times |-> b.times, last |-> b.last]
  BY DEF Entered
<1> HIDE DEF s, b
<1>4. /\ b.times \in SUBSET Stamps /\ IsFiniteSet(b.times) /\ Cardinality(b.times) <= RatePerWindow
      /\ \A e \in b.times : e.at <= b.last
  <2>1. CASE Allowed(a, now)
    <3> DEFINE e == [at |-> now, slot |-> FreeSlot(s)]
    <3>1. Cardinality(s) < RatePerWindow /\ Pushed(a, now) = {e}
      BY <2>1 DEF Allowed, Pushed, s
    <3>2. e \in Stamps /\ e.at = now
      BY <1>1, <1>2, <3>1, SlotIsFree DEF Stamps
    <3> HIDE DEF e
    <3>3. IsFiniteSet(s \cup {e}) /\ Cardinality(s \cup {e}) <= RatePerWindow
      BY <1>1, <3>1, OneMoreFits
    <3> QED
      BY <1>1, <1>2, <1>3, <3>1, <3>2, <3>3
  <2>2. CASE ~Allowed(a, now)
    <3>1. b.times = s
      BY <1>3, <2>2 DEF Pushed
    <3> QED
      BY <1>1, <1>3, <3>1
  <2> QED
    BY <2>1, <2>2
<1>5. b \in RateBuckets /\ b # NoBucket
  BY <1>2, <1>3, <1>4 DEF RateBuckets
<1>6. g \subseteq b.times /\ \A e \in g : e.at >= rateClock - Window
  BY <1>1, <1>3 DEF Recent
<1>7. b.last <= rateClock
  BY <1>2, <1>3
<1> HIDE DEF g
<1>8. g \in SUBSET Stamps
  BY <1>4, <1>6
<1>9. GoodBucket(b, g, rateClock)
  BY <1>4, <1>5, <1>6, <1>7, <1>8 DEF GoodBucket
<1> QED
  BY <1>9 DEF b, g

\* What allow, called at the time now, and handle_connection do for the address a: the
\* entry is made, and the buckets of evicted go, at most one of them and only to make
\* room for a.
Admits(a, now, evicted) ==
    /\ now \in 0..rateClock
    /\ buckets' = [b \in Sources |-> IF b \in evicted THEN NoBucket
                                     ELSE IF b = a THEN Entered(a, now) ELSE buckets[b]]
    /\ Note(a, now, evicted)
    /\ UNCHANGED <<limiter, rateClock>>
    /\ \/ evicted = {} /\ (a \in Tracked \/ Cardinality(Tracked) < MaxBuckets)
       \/ \E v \in Tracked \cup {a} : evicted = {v}

LEMMA DhtAdmits ==
    ASSUME RateInv, NEW a \in Sources, NEW now \in 0..rateClock, DhtAllow(a, now)
    PROVE  \E evicted : Admits(a, now, evicted)
<1> USE RateLimitsAssumption
<1>1. PICK evicted \in IF Evictable(a) = {} THEN {{}} ELSE {{v} : v \in Evictable(a)} :
          /\ buckets' = [b \in Sources |-> IF b = a THEN Entered(a, now)
                                           ELSE IF b \in evicted THEN NoBucket ELSE buckets[b]]
          /\ Note(a, now, evicted)
  BY DEF DhtAllow
<1>2. UNCHANGED <<limiter, rateClock>>
  BY DEF DhtAllow
<1>3. Cardinality(Tracked) \in Nat /\ Cardinality(Tracked) <= MaxBuckets
  BY FS_CardinalityType DEF RateInv
<1>4. CASE Evictable(a) = {}
  <2>1. evicted = {}
    BY <1>1, <1>4
  <2>2. a \in Tracked \/ Cardinality(Tracked) < MaxBuckets
    <3> SUFFICES ASSUME a \notin Tracked, ~(Cardinality(Tracked) < MaxBuckets) PROVE FALSE
      OBVIOUS
    <3>1. Cardinality(Tracked) >= MaxBuckets /\ Cardinality(Tracked) # 0
      BY <1>3
    <3>2. Tracked = {}
      BY <1>4, <3>1 DEF Evictable
    <3> QED
      BY <3>1, <3>2, FS_EmptySet
  <2>3. buckets' = [b \in Sources |-> IF b \in evicted THEN NoBucket
                                      ELSE IF b = a THEN Entered(a, now) ELSE buckets[b]]
    BY <1>1, <2>1
  <2> QED
    BY <1>1, <1>2, <2>1, <2>2, <2>3 DEF Admits
<1>5. CASE Evictable(a) # {}
  <2>1. PICK v \in Evictable(a) : evicted = {v}
    BY <1>1, <1>5
  <2>2. a \notin Tracked /\ v \in Tracked /\ a \notin evicted
    BY <1>5, <2>1 DEF Evictable
  <2>3. buckets' = [b \in Sources |-> IF b \in evicted THEN NoBucket
                                      ELSE IF b = a THEN Entered(a, now) ELSE buckets[b]]
    BY <1>1, <2>2
  <2> QED
    BY <1>1, <1>2, <2>1, <2>2, <2>3 DEF Admits
<1> QED
  BY <1>4, <1>5

LEMMA RelayAdmits ==
    ASSUME RateInv, NEW a \in Sources, RelayAllow(a)
    PROVE  \E evicted : Admits(a, rateClock, evicted)
<1> USE RateLimitsAssumption
<1> DEFINE noted == [buckets EXCEPT ![a] = Entered(a, rateClock)]
           all == Tracked \cup {a}
           oldest == {b \in all : \A c \in all : noted[b].last <= noted[c].last}
<1>1. PICK evicted \in IF Allowed(a, rateClock) /\ Cardinality(all) > MaxBuckets
                       THEN {{v} : v \in oldest} ELSE {{}} :
          /\ buckets' = [b \in Sources |-> IF b \in evicted THEN NoBucket ELSE noted[b]]
          /\ Note(a, rateClock, evicted)
  BY DEF RelayAllow
<1>2. UNCHANGED <<limiter, rateClock>> /\ rateClock \in 0..rateClock
  BY DEF RelayAllow, RateInv
<1>3. buckets' = [b \in Sources |-> IF b \in evicted THEN NoBucket
                                    ELSE IF b = a THEN Entered(a, rateClock) ELSE buckets[b]]
  <2>1. \A b \in Sources : noted[b] = IF b = a THEN Entered(a, rateClock) ELSE buckets[b]
    BY DEF RateInv
  <2> HIDE DEF noted
  <2> QED
    BY <1>1, <2>1
<1>4. CASE Allowed(a, rateClock) /\ Cardinality(all) > MaxBuckets
  <2>1. PICK v \in oldest : evicted = {v}
    BY <1>1, <1>4
  <2> QED
    BY <1>1, <1>2, <1>3, <2>1 DEF Admits
<1>5. CASE ~(Allowed(a, rateClock) /\ Cardinality(all) > MaxBuckets)
  <2>1. evicted = {}
    BY <1>1, <1>5
  <2>2. ASSUME a \notin Tracked
        PROVE  Cardinality(Tracked) < MaxBuckets
    <3>1. Times(a, rateClock) = {}
      BY <2>2 DEF Times
    <3>2. Allowed(a, rateClock)
      BY <3>1, FS_EmptySet DEF Allowed
    <3>3. Cardinality(Tracked) \in Nat /\ Cardinality(all) = Cardinality(Tracked) + 1
      BY <2>2, FS_CardinalityType, FS_AddElement DEF RateInv
    <3> QED
      BY <1>5, <3>2, <3>3
  <2> QED
    BY <1>1, <1>2, <1>3, <2>1, <2>2 DEF Admits
<1> QED
  BY <1>4, <1>5

LEMMA AdmitStep ==
    ASSUME RateInv, NEW a \in Sources, NEW now, NEW evicted, Admits(a, now, evicted)
    PROVE  RateInv'
<1> USE RateLimitsAssumption
<1> DEFINE g == Recent(granted[a] \cup Pushed(a, now), rateClock)
<1>1. rateClock \in Nat /\ rateClock' = rateClock /\ limiter' = limiter /\ now \in 0..rateClock
  BY DEF RateInv, Admits
<1>2. \A b \in Sources : GoodBucket(buckets[b], granted[b], rateClock)
  BY DEF RateInv
<1>3. GoodBucket(Entered(a, now), g, rateClock)
  BY <1>1, EnteredGood
<1>4. Entered(a, now) # NoBucket /\ Entered(a, now) \in RateBuckets
  <2>1. Times(a, now) \in SUBSET Stamps /\ IsFiniteSet(Times(a, now))
    BY <1>1, TimesFacts
  <2>2. Pushed(a, now) \in SUBSET Stamps
    BY <1>1, <2>1, SlotIsFree DEF Pushed, Allowed, Stamps
  <2>3. Entered(a, now) \in RateBuckets
    BY <1>1, <2>1, <2>2 DEF Entered, RateBuckets
  <2> QED
    BY <2>3
<1>5. GoodBucket(NoBucket, {}, rateClock)
  BY DEF GoodBucket
<1>6. g \in SUBSET Stamps
  BY <1>3 DEF GoodBucket
<1> HIDE DEF g
<1>7. /\ buckets' = [b \in Sources |-> IF b \in evicted THEN NoBucket
                                       ELSE IF b = a THEN Entered(a, now) ELSE buckets[b]]
      /\ granted' = [b \in Sources |-> IF b \in evicted THEN {}
                                       ELSE IF b = a THEN g ELSE granted[b]]
  BY DEF Admits, Note, g
<1>8. /\ buckets' \in [Sources -> RateBuckets \cup {NoBucket}]
      /\ granted' \in [Sources -> SUBSET Stamps]
  BY <1>4, <1>6, <1>7 DEF RateInv
<1>9. ASSUME NEW b \in Sources
      PROVE  GoodBucket(buckets'[b], granted'[b], rateClock')
  <2>1. CASE b \in evicted
    <3>1. buckets'[b] = NoBucket /\ granted'[b] = {}
      BY <1>7, <2>1
    <3> QED
      BY <1>1, <1>5, <3>1
  <2>2. CASE b \notin evicted /\ b = a
    <3>1. buckets'[b] = Entered(a, now) /\ granted'[b] = g
      BY <1>7, <2>2
    <3> QED
      BY <1>1, <1>3, <3>1
  <2>3. CASE b \notin evicted /\ b # a
    <3>1. buckets'[b] = buckets[b] /\ granted'[b] = granted[b]
      BY <1>7, <2>3
    <3> QED
      BY <1>1, <1>2, <3>1
  <2> QED
    BY <2>1, <2>2, <2>3
<1>10. Tracked' = (Tracked \cup {a}) \ evicted
  BY <1>4, <1>7 DEF Tracked
<1>11. IsFiniteSet(Tracked) /\ Cardinality(Tracked) \in Nat /\ Cardinality(Tracked) <= MaxBuckets
  BY FS_CardinalityType DEF RateInv
<1>12. IsFiniteSet(Tracked') /\ Cardinality(Tracked') <= MaxBuckets
  <2>1. CASE a \in Tracked
    <3>1. Tracked' \in SUBSET Tracked
      BY <1>10, <2>1
    <3> QED
      BY <1>11, <3>1, FewerStillFit
  <2>2. CASE a \notin Tracked /\ evicted = {} /\ Cardinality(Tracked) < MaxBuckets
    <3>1. Tracked' = Tracked \cup {a}
      BY <1>10, <2>2
    <3> QED
      BY <1>11, <2>2, <3>1, OneMoreFits
  <2>3. CASE a \notin Tracked /\ \E v \in Tracked \cup {a} : evicted = {v}
    <3>1. PICK v \in Tracked \cup {a} : evicted = {v}
      BY <2>3
    <3>2. /\ IsFiniteSet(Tracked \cup {a})
          /\ Cardinality(Tracked \cup {a}) = Cardinality(Tracked) + 1
      BY <1>11, <2>3, FS_AddElement
    <3>3. /\ IsFiniteSet((Tracked \cup {a}) \ {v})
          /\ Cardinality((Tracked \cup {a}) \ {v}) = Cardinality(Tracked \cup {a}) - 1
      BY <3>1, <3>2, FS_RemoveElement
    <3> QED
      BY <1>10, <1>11, <3>1, <3>2, <3>3
  <2> QED
    BY <2>1, <2>2, <2>3 DEF Admits
<1> QED
  BY <1>1, <1>8, <1>9, <1>12 DEF RateInv

LEMMA PruneStep ==
    ASSUME RateInv, NEW now \in 0..rateClock, Prune(now)
    PROVE  RateInv'
<1> USE RateLimitsAssumption
<1>1. rateClock \in Nat /\ rateClock' = rateClock /\ limiter' = limiter /\ granted' = granted
  BY DEF RateInv, Prune
<1>2. buckets' = [a \in Sources |-> IF Times(a, now) = {} THEN NoBucket
                                    ELSE [buckets[a] EXCEPT !.times = Times(a, now)]]
  BY DEF Prune
<1>3. ASSUME NEW a \in Sources
      PROVE  /\ GoodBucket(buckets'[a], granted'[a], rateClock')
             /\ buckets'[a] \in RateBuckets \cup {NoBucket}
             /\ a \in Tracked' => a \in Tracked
  <2> DEFINE s == Times(a, now)
             d == [buckets[a] EXCEPT !.times = s]
  <2>1. GoodBucket(buckets[a], granted[a], rateClock)
    BY DEF RateInv
  <2>2. /\ s \in SUBSET Stamps /\ IsFiniteSet(s) /\ Cardinality(s) <= RatePerWindow
        /\ a \in Tracked => \A e \in s : e.at <= buckets[a].last
        /\ granted[a] \subseteq s
    BY TimesFacts
  <2>3. a \notin Tracked => s = {}
    BY DEF Times
  <2> HIDE DEF s
  <2>4. CASE s = {}
    <3>1. buckets'[a] = NoBucket /\ granted'[a] = {}
      BY <1>1, <1>2, <2>2, <2>4 DEF s
    <3> QED
      BY <1>1, <3>1 DEF GoodBucket, Tracked
  <2>5. CASE s # {}
    <3>1. a \in Tracked /\ buckets[a] # NoBucket /\ buckets'[a] = d
      BY <1>2, <2>3, <2>5 DEF Tracked, s
    <3>2. buckets[a] \in RateBuckets /\ buckets[a].last <= rateClock
      BY <2>1, <3>1 DEF GoodBucket
    <3>3. d \in RateBuckets /\ d.times = s /\ d.last = buckets[a].last
      BY <2>2, <3>2 DEF RateBuckets
    <3> HIDE DEF d
    <3>4. GoodBucket(d, granted[a], rateClock)
      BY <2>1, <2>2, <3>1, <3>2, <3>3 DEF GoodBucket
    <3> QED
      BY <1>1, <3>1, <3>3, <3>4
  <2> QED
    BY <2>4, <2>5
<1>4. buckets' \in [Sources -> RateBuckets \cup {NoBucket}]
  <2>1. buckets' = [a \in Sources |-> buckets'[a]]
    BY <1>2
  <2> QED
    BY <1>3, <2>1
<1>5. IsFiniteSet(Tracked') /\ Cardinality(Tracked') <= MaxBuckets
  <2>1. Tracked' \in SUBSET Tracked
    BY <1>3 DEF Tracked
  <2> QED
    BY <2>1, FewerStillFit DEF RateInv
<1> QED
  BY <1>1, <1>3, <1>4, <1>5 DEF RateInv

LEMMA CleanupStep ==
    ASSUME RateInv, RelayCleanup
    PROVE  RateInv'
<1> USE RateLimitsAssumption
<1>1. rateClock \in Nat /\ rateClock' = rateClock /\ limiter' = limiter /\ granted' = granted
  BY DEF RateInv, RelayCleanup
<1>2. buckets' = [a \in Sources |-> IF a \in Tracked /\ buckets[a].last > rateClock - LimiterKeep
                                    THEN buckets[a] ELSE NoBucket]
  BY DEF RelayCleanup
<1>3. ASSUME NEW a \in Sources
      PROVE  GoodBucket(buckets'[a], granted'[a], rateClock')
  <2>1. GoodBucket(buckets[a], granted[a], rateClock)
    BY DEF RateInv
  <2>2. CASE buckets'[a] = buckets[a]
    BY <1>1, <2>1, <2>2
  <2>3. CASE buckets'[a] # buckets[a]
    <3>1. buckets'[a] = NoBucket /\ buckets[a] # NoBucket
          /\ ~(buckets[a].last > rateClock - LimiterKeep)
      BY <1>2, <2>3 DEF Tracked
    <3>2. /\ buckets[a] \in RateBuckets
          /\ \A e \in granted[a] : /\ e \in Stamps /\ e.at <= buckets[a].last
                                   /\ e.at >= rateClock - Window
      BY <2>1, <3>1 DEF GoodBucket
    <3>3. buckets[a].last \in Nat
      BY <3>2 DEF RateBuckets
    <3>4. ASSUME NEW e \in granted[a] PROVE FALSE
      <4>1. e.at \in Nat /\ e.at <= buckets[a].last /\ e.at >= rateClock - Window
        BY <3>2 DEF Stamps
      <4> QED
        BY <1>1, <3>1, <3>3, <4>1
    <3>5. granted'[a] = {}
      BY <1>1, <3>4
    <3> QED
      BY <3>1, <3>5 DEF GoodBucket
  <2> QED
    BY <2>2, <2>3
<1>4. buckets' \in [Sources -> RateBuckets \cup {NoBucket}]
  BY <1>2 DEF RateInv
<1>5. IsFiniteSet(Tracked') /\ Cardinality(Tracked') <= MaxBuckets
  <2>1. Tracked' \in SUBSET Tracked
    BY <1>2 DEF Tracked
  <2> QED
    BY <2>1, FewerStillFit DEF RateInv
<1> QED
  BY <1>1, <1>3, <1>4, <1>5 DEF RateInv

LEMMA TickStep ==
    ASSUME RateInv, RateTick
    PROVE  RateInv'
<1> USE RateLimitsAssumption
<1>1. /\ rateClock \in Nat /\ rateClock' = rateClock + 1 /\ limiter' = limiter /\ buckets' = buckets
      /\ granted' = [a \in Sources |-> Recent(granted[a], rateClock + 1)]
  BY DEF RateInv, RateTick
<1>2. ASSUME NEW a \in Sources
      PROVE  /\ GoodBucket(buckets'[a], granted'[a], rateClock')
             /\ granted'[a] \in SUBSET Stamps
  <2>1. GoodBucket(buckets[a], granted[a], rateClock)
    BY DEF RateInv
  <2>2. /\ granted'[a] \subseteq granted[a] /\ \A e \in granted'[a] : e.at >= rateClock' - Window
        /\ buckets'[a] = buckets[a]
    BY <1>1 DEF Recent
  <2>3. buckets[a] # NoBucket => buckets[a].last <= rateClock'
    <3> SUFFICES ASSUME buckets[a] # NoBucket PROVE buckets[a].last <= rateClock'
      OBVIOUS
    <3>1. buckets[a] \in RateBuckets /\ buckets[a].last <= rateClock
      BY <2>1 DEF GoodBucket
    <3>2. buckets[a].last \in Nat
      BY <3>1 DEF RateBuckets
    <3> QED
      BY <1>1, <3>1, <3>2
  <2> QED
    BY <2>1, <2>2, <2>3 DEF GoodBucket
<1>3. granted' \in [Sources -> SUBSET Stamps]
  <2>1. granted' = [a \in Sources |-> granted'[a]]
    BY <1>1
  <2> QED
    BY <1>2, <2>1
<1>4. Tracked' = Tracked
  BY <1>1 DEF Tracked
<1> QED
  BY <1>1, <1>2, <1>3, <1>4 DEF RateInv

LEMMA RateStart == RateInit => RateInv
<1> USE RateLimitsAssumption
<1> SUFFICES ASSUME RateInit PROVE RateInv
  OBVIOUS
<1>1. limiter \in {"dht", "relay"} /\ rateClock \in Nat
      /\ buckets = [a \in Sources |-> NoBucket] /\ granted = [a \in Sources |-> {}]
  BY DEF RateInit
<1>2. \A a \in Sources : GoodBucket(buckets[a], granted[a], rateClock)
  BY <1>1 DEF GoodBucket
<1>3. Tracked = {}
  BY <1>1 DEF Tracked
<1>4. IsFiniteSet(Tracked) /\ Cardinality(Tracked) <= MaxBuckets
  BY <1>3, FS_EmptySet
<1> QED
  BY <1>1, <1>2, <1>4 DEF RateInv

LEMMA RateStep == RateInv /\ [RateNext]_rateVars => RateInv'
<1> SUFFICES ASSUME RateInv, [RateNext]_rateVars PROVE RateInv'
  OBVIOUS
<1>1. ASSUME NEW a \in Sources, NEW now \in 0..rateClock, DhtAllow(a, now) PROVE RateInv'
  BY <1>1, DhtAdmits, AdmitStep
<1>2. ASSUME NEW a \in Sources, RelayAllow(a) PROVE RateInv'
  BY <1>2, RelayAdmits, AdmitStep
<1>3. ASSUME NEW now \in 0..rateClock, Prune(now) PROVE RateInv'
  BY <1>3, PruneStep
<1>4. CASE RelayCleanup
  BY <1>4, CleanupStep
<1>5. CASE RateTick
  BY <1>5, TickStep
<1>6. CASE UNCHANGED rateVars
  BY <1>6 DEF rateVars, RateInv, Tracked
<1> QED
  BY <1>1, <1>2, <1>3, <1>4, <1>5, <1>6 DEF RateNext

\* The limit is real for both uses of the limiter: whatever prune, the periodic
\* clean-up of conn_limiters, refusals and calls that waited for the lock with an old
\* time do, an address is let in at most max times within the window, unless the limit
\* of the table evicted its bucket.
THEOREM RatesHeld == RateSpec => []RateHeld
<1>1. RateInv => RateHeld
  <2> SUFFICES ASSUME RateInv, NEW a \in Sources
               PROVE  Cardinality(granted[a]) <= RatePerWindow
    BY DEF RateHeld
  <2> USE RateLimitsAssumption
  <2>1. rateClock \in 0..rateClock
    BY DEF RateInv
  <2>2. /\ granted[a] \in SUBSET Times(a, rateClock) /\ IsFiniteSet(Times(a, rateClock))
        /\ Cardinality(Times(a, rateClock)) <= RatePerWindow
    BY <2>1, TimesFacts
  <2> QED
    BY <2>2, FewerStillFit
<1> QED
  BY <1>1, RateStart, RateStep, PTL DEF RateSpec

\* Neither allow nor handle_connection lets its table outgrow max_buckets or
\* MAX_PEER_LIMITERS, and no bucket holds more times than the limit counts.
THEOREM LimiterTablesBounded == RateSpec => []LimitersBounded
<1>1. RateInv => LimitersBounded
  BY DEF RateInv, LimitersBounded, GoodBucket, Tracked
<1> QED
  BY <1>1, RateStart, RateStep, PTL DEF RateSpec

-----------------------------------------------------------------------------
(* Padding                                                                  *)

\* The largest bucket.
LEMMA LargestBucket == Largest \in Buckets /\ \A c \in Buckets : c <= Largest
BY PaddingAssumption DEF Largest

\* A message that fits the largest bucket gets one that it and the header fit in.
LEMMA BucketFits ==
    ASSUME NEW n \in Nat, n + 1 <= Largest
    PROVE  /\ BucketSize(n) \in Buckets /\ n + 1 <= BucketSize(n)
           /\ PadLen(n) \in Nat /\ BucketSize(n) = n + 1 + PadLen(n)
<1> DEFINE T == {b \in Buckets : n + 1 <= b}
<1>1. T # {} /\ T \in SUBSET Nat
  BY LargestBucket, PaddingAssumption
<1>2. \E b \in Buckets : n + 1 <= b /\ \A c \in Buckets : n + 1 <= c => b <= c
  <2>1. PICK b \in T : \A c \in T : b <= c
    BY <1>1, LeastOf
  <2> QED
    BY <2>1
<1>3. BucketSize(n) = CHOOSE b \in Buckets : n + 1 <= b /\ \A c \in Buckets : n + 1 <= c => b <= c
  BY LargestBucket, PaddingAssumption DEF BucketSize
<1>4. BucketSize(n) \in Buckets /\ n + 1 <= BucketSize(n)
  BY <1>2, <1>3
<1>5. BucketSize(n) \in Nat
  BY <1>4, PaddingAssumption
<1>6. PadLen(n) = BucketSize(n) - (n + 1)
  BY <1>5 DEF PadLen
<1> QED
  BY <1>4, <1>5, <1>6

\* pad_message_bucket byte by byte.
LEMMA PadBytes ==
    ASSUME NEW n \in Nat, n + 1 <= Largest
    PROVE  /\ Pad(n) \in Seq(Nat) /\ Len(Pad(n)) = BucketSize(n)
           /\ Pad(n)[1] = PadLen(n) % ByteValues
           /\ \A i \in 1 .. n : Pad(n)[i + 1] = i
<1> DEFINE p == PadLen(n)
           h == p % ByteValues
           tail == [i \in 1 .. p |-> 0]
           front == <<h>> \o Message(n)
<1>1. p \in Nat /\ BucketSize(n) = n + 1 + p
  BY BucketFits
<1>2. h \in Nat
  BY <1>1, PaddingAssumption
<1> HIDE DEF p, h
<1>3. /\ <<h>> \in Seq(Nat) /\ Len(<<h>>) = 1 /\ <<h>>[1] = h
      /\ Message(n) \in Seq(Nat) /\ Len(Message(n)) = n
      /\ \A i \in 1 .. n : Message(n)[i] = i
      /\ tail \in Seq(Nat) /\ Len(tail) = p
  BY <1>1, <1>2 DEF Message
<1> HIDE DEF tail
<1>4. /\ front \in Seq(Nat) /\ Len(front) = n + 1
      /\ front[1] = h /\ \A i \in 1 .. n : front[i + 1] = i
  BY <1>3
<1> HIDE DEF front
<1>5. /\ (front \o tail) \in Seq(Nat) /\ Len(front \o tail) = n + 1 + p
      /\ \A i \in 1 .. n + 1 : (front \o tail)[i] = front[i]
  <2>1. /\ (front \o tail) \in Seq(Nat) /\ Len(front \o tail) = Len(front) + Len(tail)
        /\ \A i \in 1 .. Len(front) + Len(tail) :
              (front \o tail)[i] = IF i <= Len(front) THEN front[i] ELSE tail[i - Len(front)]
    BY <1>3, <1>4, ConcatProperties
  <2> QED
    BY <1>1, <1>3, <1>4, <2>1
<1>6. Pad(n) = front \o tail
  BY DEF Pad, front, tail, h, p
<1> QED
  BY <1>1, <1>4, <1>5, <1>6 DEF h, p

\* unpad_message_bucket of it.
LEMMA UnpadPadded ==
    ASSUME NEW n \in Nat, n + 1 <= Largest
    PROVE  /\ SubSeq(Unpad(Pad(n)), 1, n) = Message(n)
           /\ PadLen(n) < ByteValues => Len(Unpad(Pad(n))) = n
<1> DEFINE p == PadLen(n)
           h == p % ByteValues
           q == ByteValues * (p \div ByteValues)
           w == Pad(n)
<1>1. p \in Nat /\ w \in Seq(Nat) /\ Len(w) = n + 1 + p /\ w[1] = h
  BY BucketFits, PadBytes
<1>2. \A i \in 1 .. n : w[i + 1] = i
  BY PadBytes
<1>3. h \in Nat /\ q \in Nat /\ p = q + h
  BY <1>1, PaddingAssumption, QuotientRemainder
<1>4. p < ByteValues => q = 0
  <2>1. ByteValues \in Nat \ {0} /\ p \in Nat
    BY <1>1, PaddingAssumption
  <2> HIDE DEF p
  <2>2. p < ByteValues => p \div ByteValues = 0
    BY <2>1
  <2> QED
    BY <2>1, <2>2
<1> HIDE DEF p, h, q, w
<1> DEFINE u == SubSeq(w, 2, n + 1 + q)
<1>5. Unpad(w) = u
  BY <1>1, <1>3 DEF Unpad
<1>6. /\ u \in Seq(Nat) /\ Len(u) = n + q
      /\ \A i \in 1 .. n + q : u[i] = w[i + 1]
  BY <1>1, <1>3, SubSeqProperties
<1> HIDE DEF u
<1>7. SubSeq(u, 1, n) = Message(n)
  <2>1. /\ SubSeq(u, 1, n) \in Seq(Nat) /\ Len(SubSeq(u, 1, n)) = n
        /\ \A i \in 1 .. n : SubSeq(u, 1, n)[i] = i
    <3>1. 1 \in 1 .. Len(u) + 1 /\ n \in (1 - 1) .. Len(u)
      BY <1>3, <1>6
    <3>2. /\ SubSeq(u, 1, n) \in Seq(Nat)
          /\ Len(SubSeq(u, 1, n)) = IF 1 <= n THEN n - 1 + 1 ELSE 0
          /\ \A i \in 1 .. n - 1 + 1 : SubSeq(u, 1, n)[i] = u[1 + i - 1]
      BY <1>6, <3>1, SubSeqProperties
    <3>3. ASSUME NEW i \in 1 .. n PROVE SubSeq(u, 1, n)[i] = i
      <4>1. i \in 1 .. n - 1 + 1 /\ 1 + i - 1 = i /\ i \in 1 .. n + q
        BY <1>3
      <4>2. SubSeq(u, 1, n)[i] = u[i] /\ u[i] = w[i + 1]
        BY <1>6, <3>2, <4>1
      <4> QED
        BY <1>2, <4>2
    <3> QED
      BY <3>2, <3>3
  <2>2. Message(n) \in Seq(Nat) /\ Len(Message(n)) = n
    BY DEF Message
  <2>3. \A i \in 1 .. n : Message(n)[i] = i
    BY DEF Message
  <2> QED
    BY <2>1, <2>2, <2>3, SeqEqual
<1> QED
  BY <1>4, <1>5, <1>6, <1>7 DEF p, w

\* The message fits the largest bucket, the wire has its padded form or nothing, and
\* what was read back came from the wire.
PadInv ==
    /\ plain \in Nat /\ plain + 1 <= Largest
    /\ wire = << >> \/ wire = Pad(plain)
    /\ readBack = << >> \/ readBack = Unpad(Pad(plain))

LEMMA PadInvStep == PadInv /\ [PadNext]_padVars => PadInv'
<1> SUFFICES ASSUME PadInv, [PadNext]_padVars PROVE PadInv'
  OBVIOUS
<1>1. Largest \in Nat
  BY LargestBucket, PaddingAssumption
<1>2. CASE plain' = plain + 1 /\ plain + 1 < Largest /\ wire' = << >> /\ readBack' = << >>
  BY <1>1, <1>2 DEF PadInv
<1>3. CASE UNCHANGED <<plain, readBack>> /\ wire' = Pad(plain)
  BY <1>3 DEF PadInv
<1>4. CASE /\ UNCHANGED <<plain, wire>> /\ wire # << >>
           /\ readBack' = Unpad(wire)
  BY <1>4 DEF PadInv
<1>5. CASE UNCHANGED padVars
  BY <1>5 DEF PadInv, padVars
<1> QED
  BY <1>2, <1>3, <1>4, <1>5 DEF PadNext

\* Whatever the bucket sizes and the values of the header byte: what
\* pad_message_bucket sends has a bucket's size, and unpad_message_bucket returns the
\* message whole, and stripped wherever the length of its padding fits the byte.
THEOREM PaddedReadsBack == PadSpec => []MessageSurvivesPadding
<1>1. PadInit => PadInv
  BY LargestBucket, PaddingAssumption DEF PadInit, PadInv
<1>2. PadInv => MessageSurvivesPadding
  BY BucketFits, PadBytes, UnpadPadded DEF PadInv, MessageSurvivesPadding
<1> QED
  BY <1>1, <1>2, PadInvStep, PTL DEF PadSpec

-----------------------------------------------------------------------------
(* Chunks                                                                   *)

\* The part of the key that chunk number i carries.
ChunkOf(k, i) ==
    [num |-> i, of |-> ChunkCount(k), hash |-> k,
     payload |-> SubSeq(k, i * ChunkSize + 1, EndOf(k, i))]

\* split_key_to_chunks leaves no chunk empty and reaches the end of the key.
LEMMA CountBounds ==
    ASSUME NEW k \in Keys
    PROVE  /\ Len(k) \in Nat \ {0} /\ ChunkCount(k) \in Nat \ {0}
           /\ ChunkCount(k) * ChunkSize \in Nat
           /\ Len(k) <= ChunkCount(k) * ChunkSize
           /\ ChunkCount(k) * ChunkSize < Len(k) + ChunkSize
<1> DEFINE L == Len(k)
           a == L + (ChunkSize - 1)
           q == a \div ChunkSize
           r == a % ChunkSize
<1>1. L \in Nat \ {0} /\ ChunkSize \in Nat \ {0}
  BY BraidAssumption
<1>2. a \in Nat
  BY <1>1
<1>3. ChunkCount(k) = q
  BY <1>1 DEF ChunkCount
<1>4. q \in Nat /\ r \in 0 .. ChunkSize - 1 /\ ChunkSize * q \in Nat /\ a = ChunkSize * q + r
  BY <1>1, <1>2, QuotientRemainder
<1> HIDE DEF q, r
<1>5. q * ChunkSize = ChunkSize * q
  BY <1>1, <1>4
<1>6. L <= ChunkSize * q /\ ChunkSize * q < L + ChunkSize
  BY <1>1, <1>4
<1>7. q # 0
  BY <1>1, <1>4, <1>6
<1> QED
  BY <1>1, <1>3, <1>4, <1>5, <1>6, <1>7

LEMMA ChunkBounds ==
    ASSUME NEW k \in Keys, NEW i \in 0 .. ChunkCount(k) - 1
    PROVE  /\ i * ChunkSize \in Nat /\ EndOf(k, i) \in Nat
           /\ i * ChunkSize < EndOf(k, i) /\ EndOf(k, i) <= Len(k)
           /\ \A b \in 1 .. Len(k) : b <= (i + 1) * ChunkSize => b <= EndOf(k, i)
           /\ (i + 1) * ChunkSize = i * ChunkSize + ChunkSize
<1>1. ChunkSize \in Nat \ {0}
  BY BraidAssumption
<1>2. /\ Len(k) \in Nat \ {0} /\ ChunkCount(k) \in Nat \ {0}
      /\ ChunkCount(k) * ChunkSize \in Nat
      /\ ChunkCount(k) * ChunkSize < Len(k) + ChunkSize
  BY CountBounds
<1>3. i \in Nat /\ i + 1 \in Nat /\ i + 1 <= ChunkCount(k)
  BY <1>2
<1>4. (i + 1) * ChunkSize \in Nat /\ (i + 1) * ChunkSize <= ChunkCount(k) * ChunkSize
  <2>1. PICK m \in Nat : m = i + 1
    BY <1>3
  <2>2. PICK n \in Nat : n = ChunkCount(k)
    BY <1>2
  <2>3. ChunkSize \in Nat /\ m <= n
    BY <1>1, <1>3, <2>1, <2>2
  <2>4. m * ChunkSize \in Nat /\ m * ChunkSize <= n * ChunkSize
    BY ONLY <2>1, <2>2, <2>3, ProductGrows
  <2> QED
    BY <2>1, <2>2, <2>4
<1>5. i * ChunkSize \in Nat
  BY <1>1, <1>3
<1>6. (i + 1) * ChunkSize = i * ChunkSize + ChunkSize
  BY <1>1, <1>3
<1>7. i * ChunkSize < Len(k)
  BY <1>1, <1>2, <1>4, <1>5, <1>6
<1> QED
  BY <1>1, <1>2, <1>4, <1>5, <1>6, <1>7 DEF EndOf

LEMMA ChunkPayload ==
    ASSUME NEW k \in Keys, NEW i \in 0 .. ChunkCount(k) - 1
    PROVE  /\ i * ChunkSize + Len(ChunkOf(k, i).payload) = EndOf(k, i)
           /\ \A b \in Nat : i * ChunkSize < b /\ b <= EndOf(k, i) =>
                 ChunkOf(k, i).payload[b - i * ChunkSize] = k[b]
<1> DEFINE s == i * ChunkSize
           e == EndOf(k, i)
           p == SubSeq(k, s + 1, e)
<1>1. s \in Nat /\ e \in Nat /\ s < e /\ e <= Len(k)
  BY ChunkBounds
<1>2. k \in Seq(Nat)
  BY BraidAssumption
<1> HIDE DEF s, e
<1>3. s + 1 \in Int /\ e \in Int /\ \A j \in s + 1 .. e : k[j] \in Nat
  BY <1>1, <1>2
<1>4. /\ Len(p) = IF s + 1 <= e THEN e - (s + 1) + 1 ELSE 0
      /\ \A j \in 1 .. e - (s + 1) + 1 : p[j] = k[(s + 1) + j - 1]
  BY <1>3, SubSeqProperties
<1>5. Len(p) = e - s
  BY <1>1, <1>4
<1>6. ASSUME NEW b \in Nat, s < b, b <= e PROVE p[b - s] = k[b]
  <2>1. b - s \in 1 .. e - (s + 1) + 1 /\ (s + 1) + (b - s) - 1 = b
    BY <1>1, <1>6
  <2> QED
    BY <1>4, <2>1
<1>7. ChunkOf(k, i).payload = p
  BY DEF ChunkOf, s, e
<1> HIDE DEF p
<1>8. s + Len(p) = e
  BY <1>1, <1>5
<1> QED
  BY <1>6, <1>7, <1>8 DEF s, e

\* What is collected are chunks of one key, each once, and the handshake is complete
\* when there are as many as the key has.
BraidInv ==
    /\ complete \in BOOLEAN
    /\ total = 0 => received = << >> /\ ~complete
    /\ total # 0 =>
          /\ ekHash \in Keys /\ total = ChunkCount(ekHash)
          /\ received \in Seq(SplitKeyToChunks(ekHash))
          /\ \A i, j \in 1 .. Len(received) : received[i].num = received[j].num => i = j
          /\ complete <=> Len(received) = total

LEMMA SplitChunks ==
    ASSUME NEW k \in Keys, NEW c
    PROVE  /\ c \in SplitKeyToChunks(k) <=>
                 c.num \in 0 .. ChunkCount(k) - 1 /\ c = ChunkOf(k, c.num)
           /\ c \in SplitKeyToChunks(k) => c.hash = k /\ c.of = ChunkCount(k)
BY DEF SplitKeyToChunks, ChunkOf

\* As many chunks as the key has, none twice, are all its chunks.
LEMMA AllThere ==
    ASSUME NEW k \in Keys, NEW s \in Seq(SplitKeyToChunks(k)),
           \A i, j \in 1 .. Len(s) : s[i].num = s[j].num => i = j
    PROVE  Len(s) = ChunkCount(k) <=>
              \A n \in 0 .. ChunkCount(k) - 1 : \E i \in 1 .. Len(s) : s[i].num = n
<1> DEFINE D == 1 .. Len(s)
           N == 0 .. ChunkCount(k) - 1
           f == [i \in D |-> s[i].num]
<1>1. ChunkCount(k) \in Nat \ {0} /\ Len(s) \in Nat
  BY CountBounds
<1>2. \A i \in D : s[i].num \in N
  BY SplitChunks
<1>3. f \in Injection(D, N)
  BY <1>2 DEF Injection, IsInjective
<1>4. IsFiniteSet(D) /\ Cardinality(D) = Len(s) /\ IsFiniteSet(N) /\ Cardinality(N) = ChunkCount(k)
  <2>0. 1 \in Int /\ Len(s) \in Int
    BY <1>1
  <2>1. IsFiniteSet(D) /\ Cardinality(D) = IF 1 > Len(s) THEN 0 ELSE Len(s) - 1 + 1
    BY ONLY <2>0, FS_Interval
  <2>2. ChunkCount(k) - 1 \in Int
    BY <1>1
  <2>3. /\ IsFiniteSet(N)
        /\ Cardinality(N) = IF 0 > ChunkCount(k) - 1 THEN 0 ELSE (ChunkCount(k) - 1) - 0 + 1
    BY <2>2, FS_Interval
  <2> QED
    BY <1>1, <2>1, <2>3
<1>5. Cardinality(D) = Cardinality(N) <=> f \in Surjection(D, N)
  BY <1>3, <1>4, FS_Injection
<1>6. f \in Surjection(D, N) <=> \A n \in N : \E i \in D : s[i].num = n
  BY <1>2 DEF Surjection
<1> QED
  BY <1>4, <1>5, <1>6

LEMMA BraidInvStep == BraidInv /\ [BraidNext]_braidVars => BraidInv'
<1> SUFFICES ASSUME BraidInv, [BraidNext]_braidVars PROVE BraidInv'
  OBVIOUS
<1>1. CASE UNCHANGED braidVars
  BY <1>1 DEF BraidInv, braidVars
<1>2. ASSUME NEW k \in Keys, NEW c \in SplitKeyToChunks(k), AddChunk(c) PROVE BraidInv'
  <2>1. c.hash = k /\ c.of = ChunkCount(k) /\ c.num \in 0 .. ChunkCount(k) - 1
    BY SplitChunks
  <2>2. ChunkCount(k) \in Nat \ {0}
    BY CountBounds
  <2>3. total # 0 => ekHash = k /\ total = ChunkCount(k)
    BY <1>2, <2>1 DEF AddChunk, BraidInv
  <2>4. /\ received \in Seq(SplitKeyToChunks(k))
        /\ \A i, j \in 1 .. Len(received) : received[i].num = received[j].num => i = j
        /\ complete <=> (total # 0 /\ Len(received) = ChunkCount(k))
    <3>1. CASE total = 0
      <4>1. received = << >> /\ ~complete
        BY <3>1 DEF BraidInv
      <4> QED
        BY <3>1, <4>1
    <3>2. CASE total # 0
      BY <2>3, <3>2 DEF BraidInv
    <3> QED
      BY <3>1, <3>2
  <2>5. ekHash' = k /\ total' = ChunkCount(k)
    BY <1>2, <2>1, <2>3 DEF AddChunk
  <2>6. received' = Append(received, c) /\ complete' = (complete \/ Len(received) + 1 = total')
    BY <1>2 DEF AddChunk
  <2>7. \A i \in 1 .. Len(received) : received[i].num # c.num
    BY <1>2 DEF AddChunk
  <2>8. /\ received' \in Seq(SplitKeyToChunks(k)) /\ Len(received') = Len(received) + 1
        /\ \A i \in 1 .. Len(received) : received'[i] = received[i]
        /\ received'[Len(received) + 1] = c
    BY <2>4, <2>6
  <2>9. \A i, j \in 1 .. Len(received') : received'[i].num = received'[j].num => i = j
    BY <2>4, <2>7, <2>8
  <2>10. Len(received) # ChunkCount(k)
    <3>1. ~\A n \in 0 .. ChunkCount(k) - 1 :
             \E i \in 1 .. Len(received) : received[i].num = n
      BY <2>1, <2>7
    <3>2. Len(received) = ChunkCount(k) <=>
             \A n \in 0 .. ChunkCount(k) - 1 :
                \E i \in 1 .. Len(received) : received[i].num = n
      BY <2>4, AllThere
    <3> QED
      BY <3>1, <3>2
  <2>11. complete' \in BOOLEAN /\ (complete' <=> Len(received') = total')
    BY <2>4, <2>5, <2>6, <2>8, <2>10
  <2> QED
    BY <2>2, <2>5, <2>8, <2>9, <2>11 DEF BraidInv
<1> QED
  BY <1>1, <1>2 DEF BraidNext

\* reconstruct_enc_key of all the chunks is the key.
LEMMA Reconstructed ==
    ASSUME NEW k \in Keys, received \in Seq(SplitKeyToChunks(k)),
           \A n \in 0 .. ChunkCount(k) - 1 :
              \E i \in 1 .. Len(received) : received[i].num = n
    PROVE  ReconstructEncKey(Len(k)) = k
<1> DEFINE L == Len(k)
           Covers(b) == {i \in 1 .. Len(received) :
                           LET s == received[i].num * ChunkSize
                               e == s + Len(received[i].payload)
                           IN s < b /\ b <= e /\ e <= L}
           Value(b) == IF Covers(b) = {} THEN 0
                       ELSE LET i == CHOOSE i \in Covers(b) : \A j \in Covers(b) : j <= i
                            IN received[i].payload[b - received[i].num * ChunkSize]
<1>1. ReconstructEncKey(L) = [b \in 1 .. L |-> Value(b)]
  BY DEF ReconstructEncKey
<1>2. /\ k \in Seq(Nat) /\ L \in Nat \ {0} /\ Len(received) \in Nat
      /\ ChunkSize \in Nat \ {0}
  BY BraidAssumption
<1>3. ASSUME NEW i \in 1 .. Len(received)
      PROVE  /\ received[i].num \in 0 .. ChunkCount(k) - 1
             /\ received[i] = ChunkOf(k, received[i].num)
  BY SplitChunks
<1>4. ASSUME NEW b \in 1 .. L PROVE Value(b) = k[b]
  <2>1. Covers(b) \in SUBSET (1 .. Len(received))
    OBVIOUS
  <2>2. Covers(b) # {}
    <3>1. PICK a \in Nat : b = a + 1
      <4>1. b - 1 \in Nat /\ b = (b - 1) + 1
        OBVIOUS
      <4> QED
        BY <4>1
    <3> DEFINE n == a \div ChunkSize
               r == a % ChunkSize
    <3>2. /\ n \in Nat /\ r \in 0 .. ChunkSize - 1 /\ ChunkSize * n \in Nat
          /\ a = ChunkSize * n + r
      <4>1. r \in 0 .. ChunkSize - 1
        BY <1>2
      <4> QED
        BY <1>2, <4>1, QuotientRemainder
    <3> HIDE DEF n, r
    <3>3. n * ChunkSize = ChunkSize * n /\ (n + 1) * ChunkSize = n * ChunkSize + ChunkSize
      BY <1>2, <3>2
    <3>4. n * ChunkSize < b /\ b <= (n + 1) * ChunkSize
      BY <1>2, <3>1, <3>2, <3>3
    <3>5. n \in 0 .. ChunkCount(k) - 1
      <4>1. ChunkCount(k) \in Nat \ {0} /\ L <= ChunkCount(k) * ChunkSize
        BY CountBounds
      <4>2. CASE ChunkCount(k) <= n
        <5>1. ChunkCount(k) * ChunkSize <= n * ChunkSize
          <6>1. ChunkSize \in Nat /\ n \in Nat
            BY <1>2, <3>2
          <6>2. PICK m \in Nat : m = ChunkCount(k)
            BY <4>1
          <6>3. m <= n
            BY <4>2, <6>2
          <6>4. m * ChunkSize <= n * ChunkSize
            BY ONLY <6>1, <6>2, <6>3, ProductGrows
          <6> QED
            BY <6>2, <6>4
        <5>2. ChunkCount(k) * ChunkSize \in Nat /\ n * ChunkSize \in Nat
          BY <1>2, <3>2, <4>1
        <5> QED
          BY <1>2, <3>4, <4>1, <5>1, <5>2
      <4> QED
        BY <3>2, <4>1, <4>2
    <3>6. PICK i \in 1 .. Len(received) : received[i].num = n
      BY <3>5
    <3>7. received[i] = ChunkOf(k, n)
      BY <1>3, <3>6
    <3>8. n * ChunkSize + Len(received[i].payload) = EndOf(k, n)
      BY <3>5, <3>7, ChunkPayload
    <3>9. b <= EndOf(k, n) /\ EndOf(k, n) <= L
      BY <3>4, <3>5, ChunkBounds
    <3> QED
      BY <3>4, <3>6, <3>8, <3>9
  <2>3. PICK i \in Covers(b) : i = CHOOSE j \in Covers(b) : \A m \in Covers(b) : m <= j
    BY <1>2, <2>1, <2>2, GreatestOf
  <2>4. Value(b) = received[i].payload[b - received[i].num * ChunkSize]
    BY <2>2, <2>3
  <2> DEFINE n == received[i].num
  <2>5. n \in 0 .. ChunkCount(k) - 1 /\ received[i] = ChunkOf(k, n)
    BY <1>3, <2>3
  <2>6. n * ChunkSize < b /\ b <= n * ChunkSize + Len(received[i].payload)
    BY <2>3
  <2> HIDE DEF n
  <2>7. b <= EndOf(k, n)
    BY <2>5, <2>6, ChunkPayload
  <2>8. received[i].payload[b - n * ChunkSize] = k[b]
    BY <2>5, <2>6, <2>7, ChunkPayload
  <2> QED
    BY <2>4, <2>8 DEF n
<1> HIDE DEF Value
<1>5. [b \in 1 .. L |-> Value(b)] = k
  <2>1. k = [b \in 1 .. L |-> k[b]]
    BY <1>2
  <2> QED
    BY <1>4, <2>1
<1> QED
  BY <1>1, <1>5

\* For keys and chunks of any size: chunks in whatever order, repeated and mixed with
\* other keys' chunks, make the handshake complete when the first key's chunks are
\* all there, and reconstruct_enc_key then returns that key.
THEOREM KeyRebuilt == BraidSpec => []BraidRebuildsKey
<1>1. BraidInit => BraidInv
  BY DEF BraidInit, BraidInv
<1>2. BraidInv => BraidRebuildsKey
  <2> SUFFICES ASSUME BraidInv, total # 0 PROVE BraidRebuildsKey
    BY DEF BraidInv, BraidRebuildsKey
  <2> DEFINE k == ekHash
             there == \A n \in 0 .. ChunkCount(k) - 1 :
                         \E i \in 1 .. Len(received) : received[i].num = n
  <2>1. /\ k \in Keys /\ received \in Seq(SplitKeyToChunks(k))
        /\ \A i, j \in 1 .. Len(received) : received[i].num = received[j].num => i = j
        /\ complete \in BOOLEAN /\ (complete <=> Len(received) = ChunkCount(k))
    BY DEF BraidInv
  <2>2. complete <=> there
    BY <2>1, AllThere
  <2>3. complete => ReconstructEncKey(Len(k)) = k
    BY <2>1, <2>2, Reconstructed
  <2>4. there <=> SplitKeyToChunks(k) \subseteq {received[i] : i \in 1 .. Len(received)}
    <3>1. \A i \in 1 .. Len(received) : received[i] \in SplitKeyToChunks(k)
      BY <2>1
    <3>2. ASSUME there, NEW c \in SplitKeyToChunks(k)
          PROVE  c \in {received[i] : i \in 1 .. Len(received)}
      <4>1. c.num \in 0 .. ChunkCount(k) - 1 /\ c = ChunkOf(k, c.num)
        BY <2>1, SplitChunks
      <4>2. PICK i \in 1 .. Len(received) : received[i].num = c.num
        BY <3>2, <4>1
      <4>3. received[i] = ChunkOf(k, received[i].num)
        BY <2>1, <3>1, SplitChunks
      <4> QED
        BY <4>1, <4>2, <4>3
    <3>3. ASSUME SplitKeyToChunks(k) \subseteq {received[i] : i \in 1 .. Len(received)},
                 NEW n \in 0 .. ChunkCount(k) - 1
          PROVE  \E i \in 1 .. Len(received) : received[i].num = n
      <4>1. ChunkOf(k, n) \in SplitKeyToChunks(k) /\ ChunkOf(k, n).num = n
        BY DEF SplitKeyToChunks, ChunkOf
      <4> QED
        BY <3>3, <4>1
    <3> QED
      BY <3>2, <3>3
  <2> QED
    BY <2>1, <2>2, <2>3, <2>4 DEF BraidRebuildsKey
<1> QED
  BY <1>1, <1>2, BraidInvStep, PTL DEF BraidSpec
=============================================================================
