-------------------------- MODULE FederationProofs --------------------------
(***************************************************************************)
(* Proofs about Federation, for any set of relays and null ids, any         *)
(* configuration of peers, and any timeouts and capacity.                   *)
(***************************************************************************)
EXTENDS Federation, TLAPS

PeerEntries == [seen : 0..MaxFedClock, auth : BOOLEAN] \cup {Unknown}
RouteEntries == [url : Relays, at : 0..MaxFedClock] \cup {Unknown}

\* FedTypeOK, and the types of what is on its way and of the observations.
FedTypeInv ==
    /\ FedTypeOK
    /\ chan \in Pairs(Seq(FedMessages))
    /\ heard \in Pairs(SUBSET Nids)
    /\ challenged \in Pairs(Nat) /\ proved \in Pairs(Nat)

-----------------------------------------------------------------------------
(* Types                                                                    *)

LEMMA FedTypeInit == FedInit => FedTypeInv
BY FederationAssumption DEF FedInit, FedTypeInv, FedTypeOK, Pairs

\* send_to_peer adds one message to one channel that has room, or nothing.
LEMMA SendToPeerType ==
    ASSUME FedTypeInv, NEW r \in Relays, NEW p \in Relays, NEW m \in FedMessages,
           NEW c, c = SendToPeer(chan, r, p, m)
    PROVE  /\ c \in Pairs(Seq(FedMessages))
           /\ c[r][p] \in Seq(FedMessages) /\ Len(c[r][p]) <= ChannelCap
           /\ c[r][p] # << >> => dial[r][p] = "open"
           /\ \A s, q \in Relays : s # r \/ q # p => c[s][q] = chan[s][q]
<1>1. chan \in Pairs(Seq(FedMessages)) /\ Len(chan[r][p]) <= ChannelCap
      /\ (chan[r][p] # << >> => dial[r][p] = "open")
  BY DEF FedTypeInv, FedTypeOK
<1>2. /\ Append(chan[r][p], m) \in Seq(FedMessages)
      /\ Len(Append(chan[r][p], m)) = Len(chan[r][p]) + 1
      /\ Len(chan[r][p]) \in Nat
  BY <1>1 DEF Pairs
<1>3. CASE peers[r][p] # Unknown /\ dial[r][p] = "open" /\ Len(chan[r][p]) < ChannelCap
  <2>1. SendToPeer(chan, r, p, m) = [chan EXCEPT ![r][p] = Append(@, m)]
    BY <1>3 DEF SendToPeer
  <2> QED
    BY <1>1, <1>2, <1>3, <2>1, FederationAssumption DEF Pairs
<1>4. CASE ~(peers[r][p] # Unknown /\ dial[r][p] = "open" /\ Len(chan[r][p]) < ChannelCap)
  BY <1>1, <1>4 DEF SendToPeer, Pairs
<1> QED
  BY <1>3, <1>4

LEMMA LearnType ==
    ASSUME FedTypeInv, NEW r \in Relays, NEW p \in Relays, NEW ids \in SUBSET Nids, Learn(r, p, ids)
    PROVE  /\ routes' \in [Relays -> [Nids -> RouteEntries]]
           /\ peers' \in Pairs(PeerEntries)
<1>1. /\ routes \in [Relays -> [Nids -> RouteEntries]]
      /\ peers \in Pairs(PeerEntries) /\ fedClock \in 0..MaxFedClock
  BY DEF FedTypeInv, FedTypeOK, RouteEntries, PeerEntries
<1>2. routes' \in [Relays -> [Nids -> RouteEntries]]
  BY <1>1 DEF Learn, RouteEntries
<1>3. peers' \in Pairs(PeerEntries)
  BY <1>1 DEF Learn, PeerEntries, Pairs
<1> QED
  BY <1>2, <1>3

LEMMA SweptType ==
    ASSUME FedTypeInv, NEW r \in Relays, Swept(r)
    PROVE  /\ routes' \in [Relays -> [Nids -> RouteEntries]]
           /\ peers' \in Pairs(PeerEntries)
BY DEF FedTypeInv, FedTypeOK, RouteEntries, PeerEntries, Pairs, Swept

LEMMA PairSet ==
    ASSUME NEW S, NEW f \in Pairs(S), NEW r \in Relays, NEW p \in Relays, NEW x \in S
    PROVE  [f EXCEPT ![r][p] = x] \in Pairs(S)
BY DEF Pairs

LEMMA InputStep ==
    ASSUME FedTypeInv, inputs < MaxInputs, inputs' = inputs + 1
    PROVE  inputs' \in 0..MaxInputs
BY FederationAssumption DEF FedTypeInv, FedTypeOK

LEMMA FedTypeStep == FedTypeInv /\ [FedNext]_fedVars => FedTypeInv'
<1> SUFFICES ASSUME FedTypeInv, [FedNext]_fedVars PROVE FedTypeInv'
  BY DEF FedTypeInv, FedTypeOK
<1> USE FederationAssumption DEF Pairs, fedGhosts
<1>1. ASSUME NEW r \in Relays, NEW p \in Relays, Connect(r, p) PROVE FedTypeInv'
  BY <1>1 DEF Connect, FedTypeInv, FedTypeOK
<1>2. ASSUME NEW r \in Relays, NEW p \in Relays, ConnectFails(r, p) PROVE FedTypeInv'
  BY <1>2 DEF ConnectFails, FedTypeInv, FedTypeOK
<1>3. ASSUME NEW r \in Relays, NEW p \in Relays, Break(r, p) PROVE FedTypeInv'
  <2>1. /\ chan' \in Pairs(Seq(FedMessages)) /\ dial' = [dial EXCEPT ![r][p] = "closed"]
        /\ \A s, q \in Relays :
              chan'[s][q] = IF s = r /\ q = p THEN << >> ELSE chan[s][q]
    <3>1. << >> \in Seq(FedMessages)
      BY DEF FedTypeInv, FedTypeOK
    <3>2. chan' = [chan EXCEPT ![r][p] = << >>] /\ dial' = [dial EXCEPT ![r][p] = "closed"]
      BY <1>3 DEF Break, FedTypeInv, FedTypeOK
    <3> QED
      BY <3>1, <3>2 DEF FedTypeInv, FedTypeOK
  <2>2. \A s, q \in Relays : /\ Len(chan'[s][q]) <= ChannelCap
                             /\ chan'[s][q] # << >> => dial'[s][q] = "open"
    <3> SUFFICES ASSUME NEW s \in Relays, NEW q \in Relays
                 PROVE  /\ Len(chan'[s][q]) <= ChannelCap
                        /\ chan'[s][q] # << >> => dial'[s][q] = "open"
      OBVIOUS
    <3>1. CASE s = r /\ q = p
      <4>1. chan'[s][q] = << >>
        BY <2>1, <3>1
      <4> QED
        BY <4>1
    <3>2. CASE ~(s = r /\ q = p)
      <4>1. chan'[s][q] = chan[s][q]
        BY <2>1, <3>2
      <4>2. dial'[s][q] = dial[s][q]
        BY <2>1, <3>2 DEF FedTypeInv, FedTypeOK
      <4> QED
        BY <4>1, <4>2 DEF FedTypeInv, FedTypeOK
    <3> QED
      BY <3>1, <3>2
  <2>3. dial' \in Pairs({"none", "dialing", "open", "closed"})
    BY <2>1 DEF FedTypeInv, FedTypeOK
  <2>4. UNCHANGED <<fedClock, local, peers, routes, pending, phase, due, inputs, fedGhosts>>
    BY <1>3 DEF Break
  <2> QED
    BY <2>1, <2>2, <2>3, <2>4 DEF FedTypeInv, FedTypeOK
<1>4. ASSUME NEW r \in Relays, NEW p \in Relays, AdvertiseBack(r, p) PROVE FedTypeInv'
  <2>1. peers[r][p] \in [seen : 0..MaxFedClock, auth : BOOLEAN]
    BY <1>4 DEF AdvertiseBack, FedTypeInv, FedTypeOK
  <2>2. [peers[r][p] EXCEPT !.seen = fedClock] \in [seen : 0..MaxFedClock, auth : BOOLEAN]
    BY <2>1 DEF FedTypeInv, FedTypeOK
  <2>3. peers' \in Pairs(PeerEntries)
    BY <1>4, <2>2 DEF AdvertiseBack, PeerEntries, FedTypeInv, FedTypeOK
  <2>4. /\ inputs' \in 0..MaxInputs
        /\ UNCHANGED <<fedClock, local, dial, chan, routes, pending, phase, due, fedGhosts>>
    <3>1. inputs' \in 0..MaxInputs
      BY <1>4, InputStep DEF AdvertiseBack
    <3> QED
      BY <1>4, <3>1 DEF AdvertiseBack
  <2> QED
    BY <2>3, <2>4 DEF PeerEntries, FedTypeInv, FedTypeOK
<1>5. ASSUME NEW r \in Relays, NEW p \in Relays, Deliver(r, p) PROVE FedTypeInv'
  <2> DEFINE m == Head(chan[p][r])
  <2>1. chan[p][r] \in Seq(FedMessages) /\ chan[p][r] # << >>
    BY <1>5 DEF Deliver, FedTypeInv, FedTypeOK
  <2>2. /\ m \in FedMessages
        /\ Tail(chan[p][r]) \in Seq(FedMessages)
        /\ Len(Tail(chan[p][r])) <= ChannelCap
    BY <2>1 DEF FedTypeInv, FedTypeOK
  <2>3. m.kind = "advertise" => m.from \in Relays /\ m.ids \in SUBSET Nids
    BY <2>2 DEF FedMessages, FedTypeInv, FedTypeOK
  <2>4. /\ chan' \in Pairs(Seq(FedMessages))
        /\ \A s, q \in Relays : /\ Len(chan'[s][q]) <= ChannelCap
                                /\ chan'[s][q] # << >> => dial[s][q] = "open"
    BY <1>5, <2>2 DEF Deliver, FedTypeInv, FedTypeOK
  <2>5. /\ routes' \in [Relays -> [Nids -> RouteEntries]]
        /\ peers' \in Pairs(PeerEntries)
        /\ local' \in [Relays -> SUBSET Nids]
        /\ heard' \in Pairs(SUBSET Nids)
    <3>1. CASE m.kind = "advertise" /\ Learn(r, m.from, m.ids)
      <4>1. routes' \in [Relays -> [Nids -> RouteEntries]] /\ peers' \in Pairs(PeerEntries)
        BY <2>3, <3>1, LearnType
      <4>2. local' = local /\ heard' = [heard EXCEPT ![r][p] = m.ids]
        BY <1>5, <3>1 DEF Deliver, FedTypeInv, FedTypeOK
      <4> QED
        BY <2>3, <3>1, <4>1, <4>2 DEF FedTypeInv, FedTypeOK
    <3>2. CASE m.kind = "advertise" /\ UNCHANGED <<routes, peers>>
      <4>1. local' = local /\ heard' = [heard EXCEPT ![r][p] = m.ids]
        BY <1>5, <3>2 DEF Deliver, FedTypeInv, FedTypeOK
      <4> QED
        BY <2>3, <3>2, <4>1 DEF RouteEntries, PeerEntries, FedTypeInv, FedTypeOK
    <3>3. CASE m.kind = "forward"
      <4>1. /\ local' = local \/ local' = [local EXCEPT ![r] = Nids]
            /\ routes' = routes /\ peers' = peers /\ heard' = heard
        BY <1>5, <3>3 DEF Deliver
      <4>2. /\ routes \in [Relays -> [Nids -> RouteEntries]] /\ peers \in Pairs(PeerEntries)
            /\ local \in [Relays -> SUBSET Nids] /\ heard \in Pairs(SUBSET Nids)
        BY DEF RouteEntries, PeerEntries, FedTypeInv, FedTypeOK
      <4>3. local' \in [Relays -> SUBSET Nids]
        BY <4>1, <4>2
      <4> QED
        BY <4>1, <4>2, <4>3
    <3> QED
      BY <1>5, <3>1, <3>2, <3>3 DEF Deliver, FedTypeInv, FedTypeOK
  <2> QED
    BY <1>5, <2>4, <2>5 DEF Deliver, RouteEntries, PeerEntries, FedTypeInv, FedTypeOK
<1>6. ASSUME NEW r \in Relays, NEW p \in Relays, NEW ids \in SUBSET Nids,
             RouteAdvertise(r, p, ids)
      PROVE  FedTypeInv'
  <2>1. routes' \in [Relays -> [Nids -> RouteEntries]] /\ peers' \in Pairs(PeerEntries)
    BY <1>6, LearnType DEF RouteAdvertise
  <2>2. UNCHANGED <<fedClock, local, dial, chan, pending, phase, due, idle, heard,
                    challenged, proved>>
    BY <1>6 DEF RouteAdvertise, fedGhosts
  <2>3. inputs' \in 0..MaxInputs
    BY <1>6, InputStep DEF RouteAdvertise
  <2>4. /\ fedClock' \in 0..MaxFedClock /\ local' \in [Relays -> SUBSET Nids]
        /\ dial' \in Pairs({"none", "dialing", "open", "closed"})
        /\ pending' \in Pairs(0..MaxFedClock \cup {Unknown})
        /\ phase' \in [Relays -> 0..(GossipInterval - 1)]
        /\ due' \subseteq Relays /\ idle' \subseteq Relays
    BY <2>2 DEF FedTypeInv, FedTypeOK
  <2>5. \A s, q \in Relays : /\ Len(chan'[s][q]) <= ChannelCap
                             /\ chan'[s][q] # << >> => dial'[s][q] = "open"
    BY <2>2 DEF FedTypeInv, FedTypeOK
  <2>6. FedTypeOK'
    BY <2>1, <2>3, <2>4, <2>5 DEF RouteEntries, PeerEntries, FedTypeOK, Pairs
  <2> QED
    BY <2>2, <2>6 DEF FedTypeInv, Pairs
<1>7. ASSUME NEW r \in Relays, NEW p \in Relays, PeerAuth(r, p) PROVE FedTypeInv'
  <2>1. /\ pending' = [pending EXCEPT ![r][p] = fedClock]
        /\ challenged' = [challenged EXCEPT ![r][p] = @ + 1]
        /\ UNCHANGED <<fedClock, local, peers, dial, chan, routes, phase, due, idle, heard, proved>>
    BY <1>7 DEF PeerAuth
  <2>2. inputs' \in 0..MaxInputs
    BY <1>7, InputStep DEF PeerAuth
  <2>3. pending' \in Pairs(0..MaxFedClock \cup {Unknown})
    <3> DEFINE S == 0..MaxFedClock \cup {Unknown}
    <3>1. pending \in Pairs(S) /\ fedClock \in S
      BY DEF FedTypeInv, FedTypeOK
    <3> HIDE DEF S
    <3>2. [pending EXCEPT ![r][p] = fedClock] \in Pairs(S)
      BY <3>1, PairSet
    <3> QED
      BY <2>1, <3>2 DEF S
  <2>4. challenged' \in Pairs(Nat)
    <3>1. challenged \in Pairs(Nat)
      BY DEF FedTypeInv
    <3>2. challenged[r][p] + 1 \in Nat
      BY <3>1
    <3>3. [challenged EXCEPT ![r][p] = challenged[r][p] + 1] \in Pairs(Nat)
      BY <3>1, <3>2, PairSet
    <3> QED
      BY <2>1, <3>3
  <2>5. FedTypeOK'
    BY <2>1, <2>2, <2>3 DEF FedTypeInv, FedTypeOK
  <2> QED
    BY <2>1, <2>4, <2>5 DEF FedTypeInv
<1>8. ASSUME NEW r \in Relays, NEW p \in Relays, NEW right \in BOOLEAN,
             PeerAuthReply(r, p, right)
      PROVE  FedTypeInv'
  <2> DEFINE ok == fedClock - pending[r][p] <= ChallengeTtl /\ SharedSecret /\ right
  <2>1. peers' = IF ok /\ peers[r][p] # Unknown THEN [peers EXCEPT ![r][p].auth = TRUE]
                 ELSE peers
    BY <1>8 DEF PeerAuthReply, FedTypeInv, FedTypeOK
  <2>2. proved' = IF ok THEN [proved EXCEPT ![r][p] = @ + 1] ELSE proved
    BY <1>8 DEF PeerAuthReply, FedTypeInv, FedTypeOK
  <2> HIDE DEF ok
  <2>3. peers' \in Pairs(PeerEntries)
    <3>1. CASE ok /\ peers[r][p] # Unknown
      <4>1. peers[r][p] \in [seen : 0..MaxFedClock, auth : BOOLEAN]
        BY <3>1 DEF FedTypeInv, FedTypeOK
      <4>2. [peers[r][p] EXCEPT !.auth = TRUE] \in [seen : 0..MaxFedClock, auth : BOOLEAN]
        BY <4>1 DEF FedTypeInv, FedTypeOK
      <4>3. peers' = [peers EXCEPT ![r][p] = [peers[r][p] EXCEPT !.auth = TRUE]]
        BY <2>1, <3>1 DEF FedTypeInv, FedTypeOK
      <4> QED
        BY <4>2, <4>3 DEF PeerEntries, FedTypeInv, FedTypeOK
    <3>2. CASE ~(ok /\ peers[r][p] # Unknown)
      BY <2>1, <3>2 DEF PeerEntries, FedTypeInv, FedTypeOK
    <3> QED
      BY <3>1, <3>2 DEF FedTypeInv, FedTypeOK
  <2>4. proved' \in Pairs(Nat)
    <3>1. proved \in Pairs(Nat)
      BY DEF FedTypeInv
    <3> QED
      BY <2>2, <3>1
  <2>5. /\ inputs' \in 0..MaxInputs /\ pending' = [pending EXCEPT ![r][p] = Unknown]
        /\ UNCHANGED <<fedClock, local, dial, chan, routes, phase, due, idle, heard, challenged>>
    <3>1. inputs' \in 0..MaxInputs
      BY <1>8, InputStep DEF PeerAuthReply
    <3> QED
      BY <1>8, <3>1 DEF PeerAuthReply
  <2> QED
    BY <2>3, <2>4, <2>5 DEF PeerEntries, FedTypeInv, FedTypeOK
<1>9. ASSUME NEW r \in Relays, NEW n \in Nids, NEW f, RelayForward(r, n, f) PROVE FedTypeInv'
  BY <1>9 DEF RelayForward, FedTypeInv, FedTypeOK
<1>10. ASSUME NEW r \in Relays, NEW p \in Relays, Onion(r, p) PROVE FedTypeInv'
  <2> DEFINE m == [kind |-> "forward", source |-> r]
  <2>1. m \in FedMessages
    BY DEF FedMessages, FedTypeInv, FedTypeOK
  <2>2. chan' = SendToPeer(chan, r, p, m)
    BY <1>10 DEF Onion, FedTypeInv, FedTypeOK
  <2> HIDE DEF m
  <2>3. /\ chan' \in Pairs(Seq(FedMessages))
        /\ \A s, q \in Relays : /\ Len(chan'[s][q]) <= ChannelCap
                                /\ chan'[s][q] # << >> => dial[s][q] = "open"
    <3>1. /\ chan' \in Pairs(Seq(FedMessages))
          /\ Len(chan'[r][p]) <= ChannelCap
          /\ chan'[r][p] # << >> => dial[r][p] = "open"
          /\ \A s, q \in Relays : s # r \/ q # p => chan'[s][q] = chan[s][q]
      <4> DEFINE c == SendToPeer(chan, r, p, m)
      <4>1. /\ c \in Pairs(Seq(FedMessages)) /\ Len(c[r][p]) <= ChannelCap
            /\ c[r][p] # << >> => dial[r][p] = "open"
            /\ \A s, q \in Relays : s # r \/ q # p => c[s][q] = chan[s][q]
        BY <2>1, SendToPeerType
      <4>2. chan' = c
        BY <2>2
      <4> HIDE DEF c
      <4> QED
        BY <4>1, <4>2
    <3>2. ASSUME NEW s \in Relays, NEW q \in Relays
          PROVE  /\ Len(chan'[s][q]) <= ChannelCap
                 /\ chan'[s][q] # << >> => dial[s][q] = "open"
      <4>1. Len(chan[s][q]) <= ChannelCap /\ (chan[s][q] # << >> => dial[s][q] = "open")
        BY DEF FedTypeInv, FedTypeOK
      <4> QED
        BY <3>1, <4>1
    <3> QED
      BY <3>1, <3>2
  <2>4. UNCHANGED <<fedClock, local, peers, dial, routes, pending, phase, due, idle, heard,
                    challenged, proved>>
    BY <1>10 DEF Onion, fedGhosts
  <2>5. inputs' \in 0..MaxInputs
    BY <1>10 DEF Onion, FedTypeInv, FedTypeOK
  <2> QED
    BY <2>3, <2>4, <2>5 DEF FedTypeInv, FedTypeOK
<1>11. ASSUME NEW r \in Relays, NEW n \in Nids, MailboxOpens(r, n) PROVE FedTypeInv'
  <2>1. /\ inputs' \in 0..MaxInputs /\ local' \in [Relays -> SUBSET Nids]
        /\ UNCHANGED <<fedClock, peers, dial, chan, routes, pending, phase, due, fedGhosts>>
    <3>1. inputs \in 0..MaxInputs /\ local \in [Relays -> SUBSET Nids]
      BY DEF FedTypeInv, FedTypeOK
    <3> QED
      BY <1>11, <3>1, FederationAssumption DEF MailboxOpens
  <2> QED
    BY <2>1 DEF FedTypeInv, FedTypeOK, fedGhosts
<1>12. ASSUME NEW r \in Relays, NEW n \in Nids, MailboxCloses(r, n) PROVE FedTypeInv'
  BY <1>12 DEF MailboxCloses, FedTypeInv, FedTypeOK
<1>13. ASSUME NEW r \in Relays, GossipSkipped(r) PROVE FedTypeInv'
  BY <1>13 DEF GossipSkipped, FedTypeInv, FedTypeOK
<1>14. ASSUME NEW r \in Relays, Gossip(r) PROVE FedTypeInv'
  <2> DEFINE m == [kind |-> "advertise", from |-> r, ids |-> local[r], fields |-> GossipFields]
  <2>1. m \in FedMessages
    BY DEF FedMessages, FedTypeInv, FedTypeOK
  <2>2. chan' = [chan EXCEPT ![r] = [p \in Relays |-> SendToPeer(chan, r, p, m)[r][p]]]
    BY <1>14 DEF Gossip, FedTypeInv, FedTypeOK
  <2> HIDE DEF m
  <2>3. \A p \in Relays : LET q == SendToPeer(chan, r, p, m)[r][p] IN
           /\ q \in Seq(FedMessages) /\ Len(q) <= ChannelCap
           /\ q # << >> => dial[r][p] = "open"
    BY <2>1, SendToPeerType
  <2>4. /\ chan' \in Pairs(Seq(FedMessages))
        /\ \A s, q \in Relays : /\ Len(chan'[s][q]) <= ChannelCap
                                /\ chan'[s][q] # << >> => dial[s][q] = "open"
    BY <2>2, <2>3 DEF FedTypeInv, FedTypeOK
  <2>5. routes' \in [Relays -> [Nids -> RouteEntries]] /\ peers' \in Pairs(PeerEntries)
    BY <1>14, SweptType DEF Gossip
  <2> QED
    BY <1>14, <2>4, <2>5 DEF Gossip, RouteEntries, PeerEntries, FedTypeInv, FedTypeOK
<1>15. CASE FedTick
  <2>1. fedClock' \in 0..MaxFedClock
    BY <1>15 DEF FedTick, FedTypeInv, FedTypeOK
  <2> QED
    BY <1>15, <2>1 DEF FedTick, FedTypeInv, FedTypeOK
<1>16. CASE UNCHANGED fedVars
  BY <1>16 DEF fedVars, FedTypeInv, FedTypeOK
<1> QED
  BY <1>1, <1>2, <1>3, <1>4, <1>5, <1>6, <1>7, <1>8, <1>9, <1>10, <1>11, <1>12, <1>13,
     <1>14, <1>15, <1>16 DEF FedNext

LEMMA FedTypeInvHolds == FedSpec => []FedTypeInv
BY FedTypeInit, FedTypeStep, PTL DEF FedSpec

\* Type correctness of FederationState, and the bound of every peer's channel: nothing
\* but try_send fills it, and a closed one is empty.
THEOREM FedTypeCorrect == FedSpec => []FedTypeOK
<1>1. FedTypeInv => FedTypeOK
  BY DEF FedTypeInv
<1> QED
  BY <1>1, FedTypeInvHolds, PTL

-----------------------------------------------------------------------------
(* Routes and peers that are too old                                        *)

\* What a relay that did not end its last round early holds has outlived its time
\* by no more ticks than have passed since that round, looked at or not.
SweptInv ==
    \A r \in Relays \ (due \cup idle) :
       /\ \A n \in Nids : routes[r][n] # Unknown =>
                             fedClock - routes[r][n].at < RouteTtl + phase[r]
       /\ \A p \in Relays : peers[r][p] # Unknown =>
                             fedClock - peers[r][p].seen < PeerTimeout + phase[r]

LEMMA SweptInvInit == FedInit => SweptInv
BY DEF FedInit, SweptInv

\* What is learnt is new.
LEMMA LearnFresh ==
    ASSUME FedTypeInv, SweptInv, NEW r \in Relays, NEW p \in Relays, NEW ids \in SUBSET Nids,
           Learn(r, p, ids), UNCHANGED <<fedClock, phase, due, idle>>
    PROVE  SweptInv'
<1>1. /\ routes \in [Relays -> [Nids -> RouteEntries]] /\ peers \in Pairs(PeerEntries)
      /\ fedClock \in Nat /\ phase \in [Relays -> Nat]
  BY FederationAssumption DEF FedTypeInv, FedTypeOK, RouteEntries, PeerEntries
<1> SUFFICES ASSUME NEW s \in Relays \ (due \cup idle)
             PROVE  /\ \A n \in Nids : routes'[s][n] # Unknown =>
                                          fedClock - routes'[s][n].at < RouteTtl + phase[s]
                    /\ \A q \in Relays : peers'[s][q] # Unknown =>
                                          fedClock - peers'[s][q].seen < PeerTimeout + phase[s]
  BY DEF SweptInv
<1>2. /\ \A n \in Nids : routes[s][n] # Unknown =>
                            fedClock - routes[s][n].at < RouteTtl + phase[s]
      /\ \A q \in Relays : peers[s][q] # Unknown =>
                            fedClock - peers[s][q].seen < PeerTimeout + phase[s]
      /\ phase[s] \in Nat
  BY <1>1 DEF SweptInv
<1>3. ASSUME NEW n \in Nids, routes'[s][n] # Unknown
      PROVE  fedClock - routes'[s][n].at < RouteTtl + phase[s]
  <2>1. routes'[s][n] \in {routes[s][n], [url |-> p, at |-> fedClock]}
    BY <1>1 DEF Learn
  <2>2. CASE routes'[s][n] = routes[s][n]
    BY <1>2, <1>3, <2>2
  <2>3. CASE routes'[s][n] = [url |-> p, at |-> fedClock]
    <3>1. routes'[s][n].at = fedClock
      BY <2>3
    <3> QED
      BY <1>1, <1>2, <3>1, FederationAssumption
  <2> QED
    BY <2>1, <2>2, <2>3
<1>4. ASSUME NEW q \in Relays, peers'[s][q] # Unknown
      PROVE  fedClock - peers'[s][q].seen < PeerTimeout + phase[s]
  <2>1. peers' = IF peers[r][p] = Unknown THEN peers
                 ELSE [peers EXCEPT ![r][p].seen = fedClock]
    BY DEF Learn
  <2>2. CASE s = r /\ q = p /\ peers' # peers
    <3>1. peers[r][p] \in [seen : 0..MaxFedClock, auth : BOOLEAN]
      BY <1>1, <2>1, <2>2 DEF PeerEntries, Pairs
    <3>2. peers'[r][p] = [peers[r][p] EXCEPT !.seen = fedClock]
      BY <1>1, <2>1, <2>2 DEF Pairs
    <3>3. peers'[r][p].seen = fedClock
      BY <3>1, <3>2
    <3> QED
      BY <1>1, <1>2, <2>2, <3>3, FederationAssumption
  <2>3. CASE ~(s = r /\ q = p /\ peers' # peers)
    <3>1. peers'[s][q] = peers[s][q]
      BY <1>1, <2>1, <2>3 DEF Pairs
    <3> QED
      BY <1>2, <1>4, <3>1
  <2> QED
    BY <2>2, <2>3
<1> QED
  BY <1>3, <1>4

LEMMA SweptStep ==
    ASSUME FedTypeInv, SweptInv, [FedNext]_fedVars
    PROVE  SweptInv'
<1> USE DEF fedGhosts
<1>0. /\ routes \in [Relays -> [Nids -> RouteEntries]] /\ peers \in Pairs(PeerEntries)
      /\ fedClock \in Nat /\ phase \in [Relays -> Nat]
      /\ RouteTtl \in Nat \ {0} /\ PeerTimeout \in Nat \ {0}
  BY FederationAssumption DEF FedTypeInv, FedTypeOK, RouteEntries, PeerEntries
<1>1. ASSUME NEW r \in Relays, NEW p \in Relays, Connect(r, p) PROVE SweptInv'
  <2>1. \A s, q \in Relays :
           peers'[s][q] \in {peers[s][q], [seen |-> fedClock, auth |-> FALSE]}
    BY <1>0, <1>1 DEF Connect, Pairs
  <2>2. UNCHANGED <<fedClock, routes, phase, due, idle>>
    BY <1>1 DEF Connect
  <2>3. ASSUME NEW s \in Relays \ (due \cup idle), NEW q \in Relays, peers'[s][q] # Unknown
        PROVE  fedClock - peers'[s][q].seen < PeerTimeout + phase[s]
    <3>1. CASE peers'[s][q] = peers[s][q]
      BY <2>3, <3>1 DEF SweptInv
    <3>2. CASE peers'[s][q] = [seen |-> fedClock, auth |-> FALSE]
      <4>1. peers'[s][q].seen = fedClock
        BY <3>2
      <4> QED
        BY <1>0, <4>1
    <3> QED
      BY <2>1, <3>1, <3>2
  <2> QED
    BY <2>2, <2>3 DEF SweptInv
<1>2. ASSUME NEW r \in Relays, NEW p \in Relays, AdvertiseBack(r, p) PROVE SweptInv'
  <2>1. peers[r][p] \in [seen : 0..MaxFedClock, auth : BOOLEAN]
    BY <1>0, <1>2 DEF AdvertiseBack, PeerEntries, Pairs
  <2>2. \A s, q \in Relays :
           peers'[s][q] = IF s = r /\ q = p THEN [peers[r][p] EXCEPT !.seen = fedClock]
                          ELSE peers[s][q]
    BY <1>0, <1>2 DEF AdvertiseBack, Pairs
  <2>3. UNCHANGED <<fedClock, routes, phase, due, idle>>
    BY <1>2 DEF AdvertiseBack
  <2>4. [peers[r][p] EXCEPT !.seen = fedClock].seen = fedClock
    BY <2>1
  <2>5. ASSUME NEW s \in Relays \ (due \cup idle), NEW q \in Relays, peers'[s][q] # Unknown
        PROVE  fedClock - peers'[s][q].seen < PeerTimeout + phase[s]
    <3>1. CASE s = r /\ q = p
      <4>1. peers'[s][q].seen = fedClock
        BY <2>2, <2>4, <3>1
      <4> QED
        BY <1>0, <4>1
    <3>2. CASE ~(s = r /\ q = p)
      BY <2>2, <2>5, <3>2 DEF SweptInv
    <3> QED
      BY <3>1, <3>2
  <2> QED
    BY <2>3, <2>5 DEF SweptInv
<1>3. ASSUME NEW r \in Relays, NEW p \in Relays, Deliver(r, p) PROVE SweptInv'
  <2> DEFINE m == Head(chan[p][r])
  <2>1. m \in FedMessages
    BY <1>3 DEF Deliver, FedTypeInv, Pairs
  <2>2. m.kind = "advertise" => m.from \in Relays /\ m.ids \in SUBSET Nids
    BY <2>1 DEF FedMessages
  <2>3. UNCHANGED <<fedClock, phase, due, idle>>
    BY <1>3 DEF Deliver
  <2>4. \/ m.kind = "advertise" /\ Learn(r, m.from, m.ids)
        \/ UNCHANGED <<routes, peers>>
    BY <1>3 DEF Deliver
  <2>5. CASE UNCHANGED <<routes, peers>>
    BY <2>3, <2>5 DEF SweptInv
  <2> QED
    BY <2>2, <2>3, <2>4, <2>5, LearnFresh
<1>4. ASSUME NEW r \in Relays, NEW p \in Relays, NEW ids \in SUBSET Nids,
             RouteAdvertise(r, p, ids)
      PROVE  SweptInv'
  BY <1>4, LearnFresh DEF RouteAdvertise
<1>5. ASSUME NEW r \in Relays, NEW p \in Relays, NEW right \in BOOLEAN,
             PeerAuthReply(r, p, right)
      PROVE  SweptInv'
  <2>1. UNCHANGED <<fedClock, routes, phase, due, idle>>
    BY <1>5 DEF PeerAuthReply
  <2>2. \/ UNCHANGED peers
        \/ /\ peers[r][p] # Unknown
           /\ peers' = [peers EXCEPT ![r][p].auth = TRUE]
    BY <1>5 DEF PeerAuthReply
  <2>3. ASSUME NEW s \in Relays, NEW q \in Relays, peers'[s][q] # Unknown
        PROVE  peers[s][q] # Unknown /\ peers'[s][q].seen = peers[s][q].seen
    <3>1. CASE UNCHANGED peers
      BY <2>3, <3>1
    <3>2. CASE peers[r][p] # Unknown /\ peers' = [peers EXCEPT ![r][p].auth = TRUE]
      <4>1. peers'[s][q] = IF s = r /\ q = p THEN [peers[r][p] EXCEPT !.auth = TRUE]
                           ELSE peers[s][q]
        BY <1>0, <3>2 DEF Pairs
      <4>2. peers[r][p] \in [seen : 0..MaxFedClock, auth : BOOLEAN]
        BY <1>0, <3>2 DEF PeerEntries, Pairs
      <4>3. [peers[r][p] EXCEPT !.auth = TRUE].seen = peers[r][p].seen
        BY <4>2
      <4> QED
        BY <2>3, <3>2, <4>1, <4>3
    <3> QED
      BY <2>2, <3>1, <3>2
  <2> QED
    BY <2>1, <2>3 DEF SweptInv
<1>6. ASSUME NEW r \in Relays, GossipSkipped(r) PROVE SweptInv'
  BY <1>6 DEF GossipSkipped, SweptInv
<1>7. ASSUME NEW r \in Relays, Gossip(r) PROVE SweptInv'
  <2>1. fedClock' = fedClock /\ phase' = phase /\ due' = due \ {r} /\ idle' = idle \ {r} /\ Swept(r)
    BY <1>7 DEF Gossip
  <2>2. ASSUME NEW s \in Relays \ (due' \cup idle'), NEW n \in Nids, routes'[s][n] # Unknown
        PROVE  fedClock - routes'[s][n].at < RouteTtl + phase[s]
    <3>1. CASE s = r
      BY <1>0, <2>1, <2>2, <3>1 DEF Swept, RouteEntries
    <3>2. CASE s # r
      BY <1>0, <2>1, <2>2, <3>2 DEF Swept, SweptInv
    <3> QED
      BY <3>1, <3>2
  <2>3. ASSUME NEW s \in Relays \ (due' \cup idle'), NEW p \in Relays, peers'[s][p] # Unknown
        PROVE  fedClock - peers'[s][p].seen < PeerTimeout + phase[s]
    <3>1. CASE s = r
      BY <1>0, <2>1, <2>3, <3>1 DEF Swept, PeerEntries, Pairs
    <3>2. CASE s # r
      BY <1>0, <2>1, <2>3, <3>2 DEF Swept, SweptInv, Pairs
    <3> QED
      BY <3>1, <3>2
  <2> QED
    BY <2>1, <2>2, <2>3 DEF SweptInv
<1>8. CASE FedTick
  <2>1. /\ fedClock' = fedClock + 1 /\ due = {}
        /\ \A s \in Relays \ due' : phase'[s] = phase[s] + 1
        /\ UNCHANGED <<idle, routes, peers>>
    BY <1>8 DEF FedTick
  <2>2. ASSUME NEW s \in Relays \ (due' \cup idle'), NEW n \in Nids, routes'[s][n] # Unknown
        PROVE  fedClock' - routes'[s][n].at < RouteTtl + phase'[s]
    <3>1. fedClock - routes[s][n].at < RouteTtl + phase[s]
      BY <2>1, <2>2 DEF SweptInv
    <3>2. routes[s][n].at \in Nat /\ phase[s] \in Nat
      BY <1>0, <2>1, <2>2 DEF RouteEntries
    <3> QED
      BY <1>0, <2>1, <2>2, <3>1, <3>2
  <2>3. ASSUME NEW s \in Relays \ (due' \cup idle'), NEW p \in Relays, peers'[s][p] # Unknown
        PROVE  fedClock' - peers'[s][p].seen < PeerTimeout + phase'[s]
    <3>1. fedClock - peers[s][p].seen < PeerTimeout + phase[s]
      BY <2>1, <2>3 DEF SweptInv
    <3>2. peers[s][p].seen \in Nat /\ phase[s] \in Nat
      BY <1>0, <2>1, <2>3 DEF PeerEntries, Pairs
    <3> QED
      BY <1>0, <2>1, <2>3, <3>1, <3>2
  <2> QED
    BY <2>2, <2>3 DEF SweptInv
<1>9. CASE UNCHANGED <<fedClock, phase, due, idle, routes, peers>>
  BY <1>9 DEF SweptInv
<1>10. ASSUME NEW r \in Relays, NEW p \in Relays,
              \/ ConnectFails(r, p) \/ Break(r, p) \/ PeerAuth(r, p) \/ Onion(r, p)
       PROVE  UNCHANGED <<fedClock, phase, due, idle, routes, peers>>
  BY <1>10 DEF ConnectFails, Break, PeerAuth, Onion
<1>11. ASSUME NEW r \in Relays, NEW n \in Nids,
              \/ MailboxOpens(r, n) \/ MailboxCloses(r, n) \/ \E f \in Forwards : RelayForward(r, n, f)
       PROVE  UNCHANGED <<fedClock, phase, due, idle, routes, peers>>
  BY <1>11 DEF MailboxOpens, MailboxCloses, RelayForward
<1>12. CASE UNCHANGED fedVars
  BY <1>9, <1>12 DEF fedVars
<1> QED
  BY <1>1, <1>2, <1>3, <1>4, <1>5, <1>6, <1>7, <1>8, <1>9, <1>10, <1>11, <1>12 DEF FedNext

\* Every round of gossip_task that reaches cleanup_expired_routes leaves nothing
\* expired, so who-has answers with an expired route, and a peer outlives its
\* timeout, only until the next round, for any interval and any timeouts: but while
\* the relay has no mailbox, when gossip_task does not get that far.
THEOREM StaleRoutesSwept == FedSpec => []SweptEveryRound
<1>1. FedTypeInv /\ SweptInv /\ [FedNext]_fedVars => SweptInv'
  BY SweptStep
<1>2. SweptInv => SweptEveryRound
  BY DEF SweptInv, SweptEveryRound, WhoHas
<1> QED
  BY <1>1, <1>2, SweptInvInit, FedTypeInvHolds, PTL DEF FedSpec

-----------------------------------------------------------------------------
(* Peer authentication                                                      *)

LEMMA ProofInit == FedInit => OneProofPerChallenge
BY DEF FedInit, OneProofPerChallenge

LEMMA ProofStep ==
    ASSUME FedTypeInv, OneProofPerChallenge, [FedNext]_fedVars
    PROVE  OneProofPerChallenge'
<1> USE DEF fedGhosts
<1>0. /\ challenged \in Pairs(Nat) /\ proved \in Pairs(Nat)
      /\ pending \in Pairs(0..MaxFedClock \cup {Unknown})
  BY DEF FedTypeInv, FedTypeOK
<1>1. ASSUME NEW r \in Relays, NEW p \in Relays, PeerAuth(r, p) PROVE OneProofPerChallenge'
  BY <1>0, <1>1 DEF PeerAuth, OneProofPerChallenge, Pairs
<1>2. ASSUME NEW r \in Relays, NEW p \in Relays, NEW right \in BOOLEAN,
             PeerAuthReply(r, p, right)
      PROVE  OneProofPerChallenge'
  <2>1. /\ pending[r][p] # Unknown
        /\ pending' = [pending EXCEPT ![r][p] = Unknown]
        /\ proved' = proved \/ proved' = [proved EXCEPT ![r][p] = @ + 1]
        /\ challenged' = challenged
    BY <1>2 DEF PeerAuthReply
  <2> QED
    BY <1>0, <2>1 DEF OneProofPerChallenge, Pairs
<1>3. CASE UNCHANGED <<pending, challenged, proved>>
  BY <1>3 DEF OneProofPerChallenge
<1>4. ASSUME NEW r \in Relays, NEW p \in Relays,
             \/ Connect(r, p) \/ ConnectFails(r, p) \/ Break(r, p) \/ AdvertiseBack(r, p)
             \/ Deliver(r, p) \/ Onion(r, p)
      PROVE  UNCHANGED <<pending, challenged, proved>>
  BY <1>4 DEF Connect, ConnectFails, Break, AdvertiseBack, Deliver, Onion
<1>5. ASSUME NEW r \in Relays, NEW p \in Relays, NEW ids \in SUBSET Nids,
             RouteAdvertise(r, p, ids)
      PROVE  UNCHANGED <<pending, challenged, proved>>
  BY <1>5 DEF RouteAdvertise
<1>6. ASSUME NEW r \in Relays, NEW n \in Nids,
             \/ MailboxOpens(r, n) \/ MailboxCloses(r, n)
             \/ \E f \in Forwards : RelayForward(r, n, f)
      PROVE  UNCHANGED <<pending, challenged, proved>>
  BY <1>6 DEF MailboxOpens, MailboxCloses, RelayForward
<1>7. ASSUME NEW r \in Relays, GossipSkipped(r) \/ Gossip(r)
      PROVE  UNCHANGED <<pending, challenged, proved>>
  BY <1>7 DEF GossipSkipped, Gossip
<1>8. CASE FedTick \/ UNCHANGED fedVars
  BY <1>3, <1>8 DEF FedTick, fedVars
<1> QED
  BY <1>1, <1>2, <1>3, <1>4, <1>5, <1>6, <1>7, <1>8 DEF FedNext

\* A challenge stored by peer-auth lets peer-auth-reply succeed at most once,
\* whatever expires, reconnects or is answered wrongly in between.
THEOREM ChallengesUsedOnce == FedSpec => []OneProofPerChallenge
<1>1. FedTypeInv /\ OneProofPerChallenge /\ [FedNext]_fedVars => OneProofPerChallenge'
  BY ProofStep
<1> QED
  BY <1>1, ProofInit, FedTypeInvHolds, PTL DEF FedSpec
=============================================================================
