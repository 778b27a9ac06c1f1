------------------------ MODULE ClientDeliveryProofs ------------------------
(***************************************************************************)
(* Proofs about ClientDelivery, for any number of users, messages and      *)
(* kills.                                                                  *)
(*                                                                         *)
(* What keeps the two sides of a conversation in order is that a chain key *)
(* remembers what went into it: every message's chain holds the ids of the *)
(* messages its sender was told of before (SentInv), the receiving chain   *)
(* those the recipient has decrypted (TakenInv), and a message is only     *)
(* decrypted where the two are equal.                                      *)
(*                                                                         *)
(* What lets a message be decrypted at all is more: unless a conversation  *)
(* was upset, the receiving chain of each side is the sending chain of the *)
(* other at an earlier time, and the relay holds exactly the messages that *)
(* lie between (StepInv).                                                  *)
(***************************************************************************)
EXTENDS ClientDelivery, TLAPS

\* TypeOK, in terms of the domains and ranges of the functions.
DeliveryTypeInv ==
    /\ mail \in [Users -> Seq(Messages)] /\ todo \in [Users -> Seq(Messages)]
    /\ got \in [Users -> Seq(Messages)] /\ read \in [Users -> Seq(Messages)]
    /\ sess \in [Users -> [Users -> Sessions \cup {None}]]
    /\ pc \in [Users -> {"idle", "hello", "request", "answer", "decrypt", "purge"}]
    /\ to \in [Users -> Users]
    /\ req \in [Users -> Messages \cup {None}] /\ work \in [Users -> Sessions \cup {None}]
    /\ made \in 0 .. MaxMessages
    /\ told \cup cut \cup missed \cup dropped \subseteq Ids
    /\ \A u \in Users :
          /\ pc[u] = "idle" => /\ req[u] = None /\ work[u] = None
                               /\ todo[u] = <<>> /\ got[u] = <<>>
          /\ pc[u] \in {"request", "answer"} => req[u] \in Messages /\ work[u] \in Sessions

Sending(u) == pc[u] \in {"request", "answer"}

\* What encrypt_first and encrypt_message put into a message.
Sound(m) ==
    /\ m.opens \in {0, m.id}
    /\ m.opens # 0 => /\ m.chain = [secret |-> m.id, half |-> 1, mixed |-> <<>>]
                      /\ m.mix = 0
    /\ m.opens = 0 => /\ m.mix = m.id /\ m.chain.secret < m.id
                      /\ m.chain.half = 1 => m.chain.mixed # <<>>
    /\ \A x \in Range(m.chain.mixed) : x < m.id

\* What the relay holds: it is never purged, and no id is used twice.
MailInv ==
    /\ \A u \in Users : /\ Range(todo[u]) \cup Range(got[u]) \cup Range(read[u]) \subseteq Range(mail[u])
                        /\ pc[u] # "decrypt" => Range(got[u]) \subseteq Range(read[u])
    /\ \A u \in Users : \A m \in Range(mail[u]) : Sound(m) /\ m.id <= made
    /\ \A u, w \in Users : \A m \in Range(mail[u]), n \in Range(mail[w]) :
          m.id = n.id => m = n /\ u = w

\* Every id that went into a sending chain is in use.
SessInv ==
    \A u, v \in Users : sess[u][v] # None =>
        /\ sess[u][v].send.secret <= made
        /\ \A x \in Range(sess[u][v].send.mixed) : x <= made
        /\ sess[u][v].send.half = 1 => sess[u][v].send.mixed # <<>>

\* The session that u's send command has encrypted with.
BaseSession(u) ==
    IF sess[u][to[u]] = None THEN NewSession(req[u].id, TRUE) ELSE sess[u][to[u]]

\* The send command of u holds the newest message of u, made with the session that
\* is still in the table.
RequestOK(u) ==
    /\ Sound(req[u]) /\ req[u].id <= made /\ req[u].from = u
    /\ req[u].chain = BaseSession(u).send
    /\ work[u] = AfterEncrypt(BaseSession(u), req[u])
    /\ pc[u] = "answer" => req[u] \in Range(mail[to[u]])
    /\ \A w \in Users : \A m \in Range(mail[w]) :
          /\ m.id = req[u].id => pc[u] = "answer" /\ m = req[u] /\ w = to[u]
          /\ m.from = u /\ m # req[u] => m.id < req[u].id
    /\ \A w \in Users \ {u} : Sending(w) => req[w].id # req[u].id

RequestInv == \A u \in Users : Sending(u) => RequestOK(u)

\* m went into the chain.
InChain(chain, m) ==
    IF m.opens = 0 THEN m.id \in Range(chain.mixed)
    ELSE chain.secret = m.id /\ chain.half = 1 /\ chain.mixed # <<>>

\* A stored message whose sender knows of it is part of its sending chain, and of
\* the chain of every later message.
SentInv ==
    \A u, v \in Users : \A m \in From(mail[u], v) : m.id \notin cut =>
        /\ (pc[v] = "answer" /\ req[v].id = m.id)
           \/ (sess[v][u] # None /\ InChain(sess[v][u].send, m))
        /\ \A r \in From(mail[u], v) : m.id < r.id => InChain(r.chain, m)

\* m was decrypted with the chain.
Consumed(chain, m) ==
    /\ chain.secret = m.chain.secret /\ chain.half = m.chain.half
    /\ Range(m.chain.mixed) \cup {m.mix} \subseteq Range(chain.mixed)

\* The ids of what u has ever decrypted.
Taken(u) == IdsOf(read[u]) \cup IdsOf(got[u]) \cup dropped

\* The receiving chain is made of what was decrypted and of nothing else.
TakenInv ==
    \A u \in Users :
        /\ \A m \in Range(read[u]) \cup Range(got[u]) :
              sess[u][m.from] # None /\ Consumed(sess[u][m.from].recv, m)
        /\ \A v \in Users : sess[u][v] # None =>
              LET chain == sess[u][v].recv IN
              /\ Range(chain.mixed) \ {0} \subseteq Taken(u)
              /\ chain.half = 1 /\ chain.mixed # <<>> => chain.secret \in Taken(u)

Ordered(s) == \A i, j \in DOMAIN s : i < j /\ s[i].from = s[j].from => s[i].id < s[j].id

\* What is decrypted and not yet printed comes after what is printed.
OrderInv ==
    \A u \in Users :
        /\ Ordered(read[u]) /\ Ordered(got[u])
        /\ pc[u] = "decrypt" =>
              \A r \in Range(read[u]), g \in Range(got[u]) : r.from = g.from => r.id < g.id

-----------------------------------------------------------------------------
(* Sequences and chains                                                     *)

LEMMA RangeType == ASSUME NEW S, NEW s \in Seq(S) PROVE Range(s) \subseteq S
BY DEF Range

LEMMA RangeEmpty == Range(<<>>) = {}
BY DEF Range

LEMMA RangeAppend ==
    ASSUME NEW S, NEW s \in Seq(S), NEW x \in S
    PROVE  /\ Append(s, x) \in Seq(S) /\ Append(s, x) # <<>>
           /\ Range(Append(s, x)) = Range(s) \cup {x}
<1> DEFINE a == Append(s, x)
<1>1. /\ a \in Seq(S) /\ Len(a) = Len(s) + 1
      /\ \A i \in 1 .. Len(s) : a[i] = s[i]
      /\ a[Len(s) + 1] = x
  OBVIOUS
<1>2. /\ DOMAIN s = 1 .. Len(s) /\ DOMAIN a = 1 .. Len(s) + 1 /\ Len(s) \in Nat
  BY <1>1
<1>3. Range(a) \subseteq Range(s) \cup {x}
  BY <1>1, <1>2 DEF Range
<1>4. x \in Range(a)
  BY <1>1, <1>2 DEF Range
<1>5. Range(s) \subseteq Range(a)
  BY <1>1, <1>2 DEF Range
<1> QED
  BY <1>1, <1>3, <1>4, <1>5

LEMMA RangeTail ==
    ASSUME NEW S, NEW s \in Seq(S), s # <<>>
    PROVE  /\ Tail(s) \in Seq(S) /\ Range(Tail(s)) \subseteq Range(s)
           /\ Head(s) \in S /\ Head(s) \in Range(s)
BY DEF Range

LEMMA RangeConcat ==
    ASSUME NEW S, NEW s \in Seq(S), NEW t \in Seq(S)
    PROVE  s \o t \in Seq(S) /\ Range(s \o t) = Range(s) \cup Range(t)
<1> DEFINE c == s \o t
<1>1. /\ c \in Seq(S) /\ Len(c) = Len(s) + Len(t)
      /\ \A i \in 1 .. Len(s) : c[i] = s[i]
      /\ \A i \in 1 .. Len(t) : c[Len(s) + i] = t[i]
  OBVIOUS
<1>2. /\ DOMAIN s = 1 .. Len(s) /\ DOMAIN t = 1 .. Len(t) /\ DOMAIN c = 1 .. Len(s) + Len(t)
      /\ Len(s) \in Nat /\ Len(t) \in Nat
  BY <1>1
<1>3. \A i \in DOMAIN c : i \in DOMAIN s \/ (i - Len(s) \in DOMAIN t /\ i = Len(s) + (i - Len(s)))
  BY <1>2
<1>4. Range(c) \subseteq Range(s) \cup Range(t)
  BY <1>1, <1>2, <1>3 DEF Range
<1>5. Range(s) \subseteq Range(c)
  BY <1>1, <1>2 DEF Range
<1>6. Range(t) \subseteq Range(c)
  <2>1. \A i \in DOMAIN t : Len(s) + i \in DOMAIN c /\ c[Len(s) + i] = t[i]
    BY <1>1, <1>2
  <2> HIDE DEF c
  <2> QED
    BY <2>1 DEF Range
<1> QED
  BY <1>1, <1>4, <1>5, <1>6

LEMMA SessionType ==
    ASSUME NEW secret \in Ids, NEW initiator \in BOOLEAN
    PROVE  NewSession(secret, initiator) \in Sessions
BY DEF NewSession, Sessions, Chains

LEMMA AdvanceType ==
    ASSUME NEW chain \in Chains, NEW x \in Ids \cup {0}
    PROVE  /\ Advance(chain, x) \in Chains
           /\ Advance(chain, x).secret = chain.secret /\ Advance(chain, x).half = chain.half
           /\ Advance(chain, x).mixed = Append(chain.mixed, x)
<1>1. chain.mixed \in Seq(Ids \cup {0})
  BY DEF Chains
<1>2. Append(chain.mixed, x) \in Seq(Ids \cup {0})
  BY <1>1
<1>3. Advance(chain, x) = [chain EXCEPT !.mixed = Append(chain.mixed, x)]
  BY DEF Advance
<1> QED
  BY <1>2, <1>3 DEF Chains

LEMMA AfterEncryptType ==
    ASSUME NEW s \in Sessions, NEW m \in Messages
    PROVE  /\ AfterEncrypt(s, m) \in Sessions
           /\ AfterEncrypt(s, m).send = Advance(s.send, m.mix)
           /\ AfterEncrypt(s, m).recv = s.recv
<1>1. m.mix \in Ids \cup {0} /\ s.send \in Chains
  BY DEF Sessions, Messages
<1>2. Advance(s.send, m.mix) \in Chains
  BY <1>1, AdvanceType
<1> QED
  BY <1>2 DEF AfterEncrypt, Sessions

LEMMA AfterDecryptType ==
    ASSUME NEW s \in Sessions, NEW m \in Messages
    PROVE  /\ AfterDecrypt(s, m) \in Sessions
           /\ AfterDecrypt(s, m).recv = Advance(s.recv, m.mix)
           /\ AfterDecrypt(s, m).send = s.send
<1>1. m.mix \in Ids \cup {0} /\ s.recv \in Chains
  BY DEF Sessions, Messages
<1>2. Advance(s.recv, m.mix) \in Chains
  BY <1>1, AdvanceType
<1> QED
  BY <1>2 DEF AfterDecrypt, Sessions

-----------------------------------------------------------------------------
(* The actions                                                              *)

LEMMA MadeType ==
    ASSUME DeliveryTypeInv, made < MaxMessages
    PROVE  made + 1 \in Ids /\ made \in Nat
BY DeliveryAssumption DEF DeliveryTypeInv, Ids

\* The message m that a send command of u to v makes, and the session s it uses.
Makes(u, v, m, s) ==
    /\ s = IF sess[u][v] = None THEN NewSession(made + 1, TRUE) ELSE sess[u][v]
    /\ m.id = made + 1 /\ m.from = u /\ m.chain = s.send
    /\ m.opens = (IF sess[u][v] = None THEN made + 1 ELSE 0)
    /\ m.mix = (IF sess[u][v] = None THEN 0 ELSE made + 1)
    /\ req' = [req EXCEPT ![u] = m]
    /\ work' = [work EXCEPT ![u] = AfterEncrypt(s, m)]

LEMMA SendMakes ==
    ASSUME DeliveryTypeInv, NEW u \in Users, NEW v \in Users, Send(u, v)
    PROVE  \E m \in Messages, s \in Sessions : Makes(u, v, m, s)
<1> DEFINE opening == sess[u][v] = None
           s == IF opening THEN NewSession(made + 1, TRUE) ELSE sess[u][v]
           opens == IF opening THEN made + 1 ELSE 0
<1>1. made + 1 \in Ids /\ made + 1 # 0
  BY MadeType DEF Send
<1>2. s \in Sessions
  <2>1. CASE opening
    BY <1>1, <2>1, SessionType
  <2>2. CASE ~opening
    BY <2>2 DEF DeliveryTypeInv
  <2> QED
    BY <2>1, <2>2
<1>3. PICK parses \in {TRUE, ~opening} :
         /\ req' = [req EXCEPT ![u] = Encrypted(s, made + 1, u, opens, parses)]
         /\ work' = [work EXCEPT ![u] = AfterEncrypt(s, Encrypted(s, made + 1, u, opens, parses))]
  BY DEF Send, Encrypt, LoadSession
<1> DEFINE m == Encrypted(s, made + 1, u, opens, parses)
<1>4. s.send \in Chains
  BY <1>2 DEF Sessions
<1>5. m \in Messages
  BY <1>1, <1>4 DEF Encrypted, Messages
<1>6. /\ m.id = made + 1 /\ m.from = u /\ m.chain = s.send /\ m.opens = opens
      /\ m.mix = (IF opening THEN 0 ELSE made + 1)
  BY <1>1 DEF Encrypted
<1> HIDE DEF m, s
<1> QED
  BY <1>2, <1>3, <1>5, <1>6 DEF m, s, Makes

\* The command of u ends without having changed a table: it fails, is killed, has
\* printed everything and was refused the purge, or had nothing to print.
Stops(u) ==
    /\ pc[u] # "idle" /\ End(u)
    /\ UNCHANGED <<mail, sess, read, made, told, missed>>
    /\ cut \subseteq cut' /\ cut' \subseteq Ids
    /\ pc[u] = "answer" => req[u].id \in cut'
    /\ dropped \subseteq dropped' /\ dropped' \subseteq (dropped \cup IdsOf(got[u]))
    /\ pc[u] = "decrypt" => IdsOf(got[u]) \subseteq dropped'

\* The read command of u decrypts the next entry.
Takes(u, m, s) ==
    /\ pc[u] = "decrypt" /\ todo[u] # <<>> /\ m = Head(todo[u])
    /\ \/ sess[u][m.from] # None /\ s = sess[u][m.from]
       \/ sess[u][m.from] = None /\ m.opens # 0 /\ s = NewSession(m.opens, FALSE)
    /\ s.recv = m.chain
    /\ sess' = [sess EXCEPT ![u][m.from] = AfterDecrypt(s, m)]
    /\ got' = [got EXCEPT ![u] = Append(@, m)]
    /\ todo' = [todo EXCEPT ![u] = Tail(@)]
    /\ UNCHANGED <<mail, pc, to, req, work, read, made, ghosts>>

\* The next entry cannot be decrypted; it counts as missed if it never could be.
Skips(u) ==
    /\ pc[u] = "decrypt" /\ todo[u] # <<>>
    /\ ~\E s \in SessionsFor(u, Head(todo[u])) : Decrypts(s, Head(todo[u]))
    /\ todo' = [todo EXCEPT ![u] = Tail(@)]
    /\ \/ missed' = missed
       \/ /\ missed' = missed \cup {Head(todo[u]).id}
          /\ Head(todo[u]).id \notin (dropped \cup IdsOf(read[u]))
    /\ UNCHANGED <<mail, sess, pc, to, req, work, got, read, made, told, cut, dropped>>

Prints(u) ==
    /\ pc[u] = "decrypt" /\ todo[u] = <<>>
    /\ read' = [read EXCEPT ![u] = @ \o got[u]]
    /\ Goto(u, "purge")
    /\ UNCHANGED <<mail, sess, to, req, work, todo, got, made, ghosts>>

LEMMA IdsOfType == ASSUME NEW s \in Seq(Messages) PROVE IdsOf(s) \subseteq Ids
<1>1. Range(s) \subseteq Messages
  BY RangeType
<1> QED
  BY <1>1 DEF IdsOf, Messages

LEMMA StopsSteps ==
    ASSUME DeliveryTypeInv, NEW u \in Users,
           \/ HelloRefused(u) \/ StoreFails(u) \/ LoseAnswer(u) \/ Purge(u) \/ Kill(u)
           \/ Show(u) /\ got[u] = <<>>
    PROVE  Stops(u)
<1> USE DEF ghosts
<1>1. /\ told \cup cut \cup missed \cup dropped \subseteq Ids
      /\ IdsOf(got[u]) \subseteq Ids
      /\ Sending(u) => req[u].id \in Ids
  BY IdsOfType DEF DeliveryTypeInv, Sending, Messages
<1>2. CASE HelloRefused(u) \/ StoreFails(u)
  BY <1>1, <1>2 DEF HelloRefused, StoreFails, Stops
<1>3. CASE LoseAnswer(u)
  BY <1>1, <1>3 DEF LoseAnswer, Stops, Sending
<1>4. CASE Purge(u)
  <2>1. ~(EnvelopeFields \subseteq PurgeFields)
    <3>1. "payload" \in EnvelopeFields /\ "payload" \notin PurgeFields
      BY DEF EnvelopeFields, PurgeFields
    <3> QED
      BY <3>1
  <2> QED
    BY <1>1, <1>4, <2>1 DEF Purge, Stops
<1>5. CASE Kill(u)
  <2>1. IdsOf(got[u]) = {m.id : m \in Range(got[u])}
    BY DEF IdsOf
  <2> QED
    BY <1>1, <1>5, <2>1 DEF Kill, Stops, Sending
<1>6. CASE Show(u) /\ got[u] = <<>>
  <2>1. IdsOf(got[u]) = {}
    BY <1>6, RangeEmpty DEF IdsOf
  <2>2. read' = read
    <3>1. read[u] \o got[u] = read[u]
      BY <1>6 DEF DeliveryTypeInv
    <3> QED
      BY <1>6, <3>1 DEF Show, DeliveryTypeInv
  <2> QED
    BY <1>1, <1>6, <2>1, <2>2 DEF Show, Stops
<1> QED
  BY <1>2, <1>3, <1>4, <1>5, <1>6

LEMMA DecryptSteps ==
    ASSUME DeliveryTypeInv, NEW u \in Users, DecryptNext(u)
    PROVE  \/ \E m \in Messages, s \in Sessions : Takes(u, m, s)
           \/ Skips(u)
<1> DEFINE m == Head(todo[u])
           usable == {s \in SessionsFor(u, m) : Decrypts(s, m)}
<1>1. m \in Messages /\ m.from \in Users /\ m.opens \in Ids \cup {0} /\ m.id \in Ids
  <2>1. todo[u] \in Seq(Messages) /\ todo[u] # <<>>
    BY DEF DecryptNext, DeliveryTypeInv
  <2>2. m \in Messages
    BY <2>1, RangeTail
  <2> QED
    BY <2>2 DEF Messages
<1>2. ASSUME NEW s \in usable, Accept(u, s, m)
      PROVE  s \in Sessions /\ Takes(u, m, s)
  <2>1. \/ sess[u][m.from] # None /\ s = sess[u][m.from]
        \/ sess[u][m.from] = None /\ m.opens # 0 /\ s = NewSession(m.opens, FALSE)
    BY DEF SessionsFor, LoadSession
  <2>2. s \in Sessions
    <3>1. CASE sess[u][m.from] # None /\ s = sess[u][m.from]
      BY <1>1, <3>1 DEF DeliveryTypeInv
    <3>2. CASE m.opens # 0 /\ s = NewSession(m.opens, FALSE)
      BY <1>1, <3>2, SessionType
    <3> QED
      BY <2>1, <3>1, <3>2
  <2>3. s.recv = m.chain
    BY DEF Decrypts
  <2> QED
    BY <1>2, <2>1, <2>2, <2>3 DEF DecryptNext, Accept, SaveSession, Takes, ghosts
<1>3. ASSUME usable = {}, Skip(u, m) PROVE Skips(u)
  <2>1. (\E i \in DOMAIN read[u] : read[u][i].id = m.id) <=> m.id \in IdsOf(read[u])
    BY DEF IdsOf, Range
  <2>2. ~\E s \in SessionsFor(u, m) : Decrypts(s, m)
    BY <1>3
  <2>3. \/ missed' = missed
        \/ missed' = missed \cup {m.id} /\ m.id \notin (dropped \cup IdsOf(read[u]))
    BY <1>3, <2>1 DEF Skip
  <2> QED
    BY <1>3, <2>2, <2>3 DEF DecryptNext, Skip, Skips
<1> QED
  BY <1>1, <1>2, <1>3 DEF DecryptNext

\* Every step is one of these.
LEMMA StepCases ==
    ASSUME DeliveryTypeInv, [Next]_vars
    PROVE  \/ \E u, v \in Users : Send(u, v) \/ Connect(u, v)
           \/ \E u \in Users : \/ Stops(u) \/ Store(u) \/ Confirm(u) \/ Fetch(u)
                               \/ \E m \in Messages, s \in Sessions : Takes(u, m, s)
                               \/ Skips(u) \/ Prints(u)
           \/ UNCHANGED vars
<1>1. ASSUME NEW u \in Users, Show(u), got[u] # <<>> PROVE Prints(u)
  BY <1>1 DEF Show, Prints, local, ghosts
<1> QED
  BY <1>1, StopsSteps, DecryptSteps DEF Next, ReadStep

-----------------------------------------------------------------------------
(* Type correctness                                                         *)

LEMMA DeliveryTypeInit == Init => DeliveryTypeInv
BY DeliveryAssumption DEF Init, DeliveryTypeInv, Ids

LEMMA DeliveryTypeStep ==
    ASSUME DeliveryTypeInv, [Next]_vars
    PROVE  DeliveryTypeInv'
<1> USE DEF ghosts, local
<1>1. ASSUME NEW u \in Users, NEW v \in Users, Send(u, v) PROVE DeliveryTypeInv'
  <2>1. PICK m \in Messages, s \in Sessions : Makes(u, v, m, s)
    BY <1>1, SendMakes
  <2>2. AfterEncrypt(s, m) \in Sessions
    BY AfterEncryptType
  <2>3. /\ req' \in [Users -> Messages \cup {None}] /\ work' \in [Users -> Sessions \cup {None}]
        /\ req'[u] \in Messages /\ work'[u] \in Sessions
        /\ \A w \in Users \ {u} : req'[w] = req[w] /\ work'[w] = work[w]
    BY <2>1, <2>2 DEF Makes, DeliveryTypeInv
  <2>4. made' \in 0 .. MaxMessages
    BY <1>1, DeliveryAssumption DEF Send, DeliveryTypeInv
  <2>5. /\ UNCHANGED <<mail, sess, todo, got, read, told, cut, missed, dropped>>
        /\ pc' = [pc EXCEPT ![u] = "request"] /\ to' = [to EXCEPT ![u] = v]
    BY <1>1 DEF Send, Goto
  <2> QED
    BY <2>3, <2>4, <2>5 DEF DeliveryTypeInv
<1>2. ASSUME NEW u \in Users, NEW v \in Users, Connect(u, v) PROVE DeliveryTypeInv'
  BY <1>2 DEF Connect, Goto, DeliveryTypeInv
<1>3. ASSUME NEW u \in Users, Stops(u) PROVE DeliveryTypeInv'
  <2>1. /\ pc' = [pc EXCEPT ![u] = "idle"] /\ to' = [to EXCEPT ![u] = u]
        /\ req' = [req EXCEPT ![u] = None] /\ work' = [work EXCEPT ![u] = None]
        /\ todo' = [todo EXCEPT ![u] = <<>>] /\ got' = [got EXCEPT ![u] = <<>>]
    BY <1>3 DEF Stops, End, Goto
  <2>2. /\ UNCHANGED <<mail, sess, read, made, told, missed>>
        /\ cut' \subseteq Ids /\ dropped' \subseteq Ids
    BY <1>3, IdsOfType DEF Stops, DeliveryTypeInv
  <2> QED
    BY <2>1, <2>2 DEF DeliveryTypeInv
<1>4. ASSUME NEW u \in Users, Store(u) PROVE DeliveryTypeInv'
  <2>1. req[u] \in Messages /\ to[u] \in Users
    BY <1>4 DEF Store, DeliveryTypeInv
  <2>2. Append(mail[to[u]], req[u]) \in Seq(Messages)
    BY <2>1, RangeAppend DEF DeliveryTypeInv
  <2>3. /\ mail' = [mail EXCEPT ![to[u]] = Append(mail[to[u]], req[u])]
        /\ pc' = [pc EXCEPT ![u] = "answer"]
        /\ UNCHANGED <<sess, to, req, work, todo, got, read, made, told, cut, missed, dropped>>
    BY <1>4 DEF Store, Goto
  <2> QED
    BY <1>4, <2>1, <2>2, <2>3 DEF Store, DeliveryTypeInv
<1>5. ASSUME NEW u \in Users, Confirm(u) PROVE DeliveryTypeInv'
  <2>1. req[u] \in Messages /\ work[u] \in Sessions /\ to[u] \in Users
    BY <1>5 DEF Confirm, DeliveryTypeInv
  <2>2. sess' = [sess EXCEPT ![u][to[u]] = work[u]]
    BY <1>5 DEF Confirm, SaveSession
  <2>3. sess' \in [Users -> [Users -> Sessions \cup {None}]]
    BY <2>1, <2>2 DEF DeliveryTypeInv
  <2>4. told' \subseteq Ids
    BY <1>5, <2>1 DEF Confirm, DeliveryTypeInv, Messages
  <2>5. /\ pc' = [pc EXCEPT ![u] = "idle"] /\ to' = [to EXCEPT ![u] = u]
        /\ req' = [req EXCEPT ![u] = None] /\ work' = [work EXCEPT ![u] = None]
        /\ todo' = [todo EXCEPT ![u] = <<>>] /\ got' = [got EXCEPT ![u] = <<>>]
        /\ UNCHANGED <<mail, read, made, cut, missed, dropped>>
    BY <1>5 DEF Confirm, End, Goto
  <2> QED
    BY <2>3, <2>4, <2>5 DEF DeliveryTypeInv
<1>6. ASSUME NEW u \in Users, Fetch(u) PROVE DeliveryTypeInv'
  BY <1>6 DEF Fetch, Goto, DeliveryTypeInv
<1>7. ASSUME NEW u \in Users, NEW m \in Messages, NEW s \in Sessions, Takes(u, m, s)
      PROVE  DeliveryTypeInv'
  <2>1. AfterDecrypt(s, m) \in Sessions /\ m.from \in Users
    BY AfterDecryptType DEF Messages
  <2>2. /\ todo[u] \in Seq(Messages) /\ got[u] \in Seq(Messages) /\ todo[u] # <<>>
        /\ Tail(todo[u]) \in Seq(Messages) /\ Append(got[u], m) \in Seq(Messages)
    BY <1>7, RangeTail, RangeAppend DEF Takes, DeliveryTypeInv
  <2>3. /\ sess' = [sess EXCEPT ![u][m.from] = AfterDecrypt(s, m)]
        /\ got' = [got EXCEPT ![u] = Append(got[u], m)]
        /\ todo' = [todo EXCEPT ![u] = Tail(todo[u])]
        /\ UNCHANGED <<mail, pc, to, req, work, read, made, told, cut, missed, dropped>>
    BY <1>7 DEF Takes
  <2>4. sess' \in [Users -> [Users -> Sessions \cup {None}]]
    BY <2>1, <2>3 DEF DeliveryTypeInv
  <2> QED
    BY <1>7, <2>2, <2>3, <2>4 DEF Takes, DeliveryTypeInv
<1>8. ASSUME NEW u \in Users, Skips(u) PROVE DeliveryTypeInv'
  <2>1. todo[u] \in Seq(Messages) /\ todo[u] # <<>>
    BY <1>8 DEF Skips, DeliveryTypeInv
  <2>2. Tail(todo[u]) \in Seq(Messages)
    BY <2>1, RangeTail
  <2>3. /\ todo' = [todo EXCEPT ![u] = Tail(todo[u])]
        /\ UNCHANGED <<mail, sess, pc, to, req, work, got, read, made, told, cut, dropped>>
    BY <1>8 DEF Skips
  <2>4. missed' \subseteq Ids
    <3>1. Head(todo[u]) \in Messages
      BY <2>1, RangeTail
    <3>2. Head(todo[u]).id \in Ids /\ missed \subseteq Ids
      BY <3>1 DEF Messages, DeliveryTypeInv
    <3> QED
      BY <1>8, <3>2 DEF Skips
  <2> QED
    BY <1>8, <2>2, <2>3, <2>4 DEF Skips, DeliveryTypeInv
<1>9. ASSUME NEW u \in Users, Prints(u) PROVE DeliveryTypeInv'
  <2>1. read[u] \o got[u] \in Seq(Messages)
    BY RangeConcat DEF DeliveryTypeInv
  <2>2. /\ read' = [read EXCEPT ![u] = read[u] \o got[u]] /\ pc' = [pc EXCEPT ![u] = "purge"]
        /\ UNCHANGED <<mail, sess, to, req, work, todo, got, made, told, cut, missed, dropped>>
    BY <1>9 DEF Prints, Goto
  <2> QED
    BY <2>1, <2>2 DEF DeliveryTypeInv
<1>10. CASE UNCHANGED vars
  BY <1>10 DEF vars, DeliveryTypeInv
<1> QED
  BY <1>1, <1>2, <1>3, <1>4, <1>5, <1>6, <1>7, <1>8, <1>9, <1>10, StepCases

LEMMA DeliveryTypeHolds == Spec => []DeliveryTypeInv
BY DeliveryTypeInit, DeliveryTypeStep, PTL DEF Spec

\* Type correctness of the sessions, mailboxes and messages: whatever was sent, read,
\* cut or killed before, a send command that waits for the relay has its message and a
\* session to save.
THEOREM DeliveryTypeCorrect == Spec => []TypeOK
<1>1. ASSUME DeliveryTypeInv PROVE TypeOK
  <2>1. \A u \in Users : Range(mail[u]) \cup Range(todo[u]) \cup Range(got[u]) \cup Range(read[u])
                            \subseteq Messages
    BY <1>1, RangeType DEF DeliveryTypeInv
  <2> QED
    BY <1>1, <2>1 DEF DeliveryTypeInv, TypeOK
<1> QED
  BY <1>1, DeliveryTypeHolds, PTL

-----------------------------------------------------------------------------
(* Messages, mailboxes and send commands                                    *)

CoreInv == MailInv /\ SessInv /\ RequestInv

LEMMA CoreInit == Init => CoreInv
BY RangeEmpty DEF Init, CoreInv, MailInv, SessInv, RequestInv, Sending

LEMMA Numbers ==
    ASSUME DeliveryTypeInv
    PROVE  /\ made \in Nat
           /\ \A u \in Users : Range(mail[u]) \subseteq Messages
           /\ \A m \in Messages : /\ m.id \in Nat /\ m.id # 0 /\ m.from \in Users
                                  /\ m.chain \in Chains /\ m.mix \in Ids \cup {0}
           /\ \A u \in Users : Sending(u) => req[u] \in Messages /\ work[u] \in Sessions
           /\ \A s \in Sessions : s.send \in Chains /\ s.recv \in Chains
           /\ \A c \in Chains : /\ c.secret \in Nat /\ c.secret # 0 /\ c.half \in {1, 2}
                                /\ c.mixed \in Seq(Ids \cup {0})
                                /\ \A x \in Range(c.mixed) : x \in Nat
<1>1. made \in Nat /\ \A u \in Users : Sending(u) => req[u] \in Messages /\ work[u] \in Sessions
  BY DEF DeliveryTypeInv, Sending
<1>2. \A u \in Users : Range(mail[u]) \subseteq Messages
  BY RangeType DEF DeliveryTypeInv
<1>3. \A m \in Messages : /\ m.id \in Nat /\ m.id # 0 /\ m.from \in Users
                          /\ m.chain \in Chains /\ m.mix \in Ids \cup {0}
  BY DEF Messages, Ids
<1>4. \A s \in Sessions : s.send \in Chains /\ s.recv \in Chains
  BY DEF Sessions
<1>5. \A c \in Chains : /\ c.secret \in Nat /\ c.secret # 0 /\ c.half \in {1, 2}
                        /\ c.mixed \in Seq(Ids \cup {0})
  BY DEF Chains, Ids
<1>6. ASSUME NEW c \in Chains, NEW x \in Range(c.mixed) PROVE x \in Nat
  <2>1. x \in Ids \cup {0}
    BY <1>5, RangeType
  <2> QED
    BY <2>1 DEF Ids
<1> QED
  BY <1>1, <1>2, <1>3, <1>4, <1>5, <1>6

\* The command of w is where it was, and the relay holds what it held.
LEMMA RequestSame ==
    ASSUME DeliveryTypeInv, NEW w \in Users, Sending(w), RequestOK(w),
           UNCHANGED mail, made \in Nat, made' \in Nat, made <= made',
           pc'[w] = pc[w], to'[w] = to[w], req'[w] = req[w], work'[w] = work[w],
           sess'[w] = sess[w],
           \A x \in Users \ {w} : Sending(x)' => req'[x].id # req[w].id
    PROVE  RequestOK(w)'
<1>1. BaseSession(w)' = BaseSession(w)
  BY DEF BaseSession
<1>2. Sound(req[w])' = Sound(req[w])
  BY DEF Sound
<1>3. req'[w].id <= made'
  BY Numbers DEF RequestOK
<1> QED
  BY <1>1, <1>2, <1>3 DEF RequestOK, Sending

LEMMA SendCore ==
    ASSUME DeliveryTypeInv, CoreInv, NEW u \in Users, NEW v \in Users, Send(u, v)
    PROVE  CoreInv'
<1>1. PICK m \in Messages, s \in Sessions : Makes(u, v, m, s)
  BY SendMakes
<1>2. /\ pc[u] = "idle" /\ made' = made + 1 /\ made \in Nat
      /\ pc' = [pc EXCEPT ![u] = "request"] /\ to' = [to EXCEPT ![u] = v]
      /\ UNCHANGED <<mail, sess, todo, got, read>>
  BY Numbers DEF Send, Goto
<1>3. MailInv'
  <2>1. \A w \in Users : \A n \in Range(mail[w]) : Sound(n) /\ n.id <= made'
    BY <1>2, Numbers DEF CoreInv, MailInv
  <2>2. Range(got[u]) = {}
    BY <1>2, RangeEmpty DEF DeliveryTypeInv
  <2> QED
    BY <1>2, <2>1, <2>2 DEF CoreInv, MailInv, Sound, DeliveryTypeInv
<1>4. SessInv'
  <2> SUFFICES ASSUME NEW a \in Users, NEW b \in Users, sess[a][b] # None
               PROVE  /\ sess[a][b].send.secret <= made'
                      /\ \A x \in Range(sess[a][b].send.mixed) : x <= made'
                      /\ sess[a][b].send.half = 1 => sess[a][b].send.mixed # <<>>
    BY <1>2 DEF SessInv
  <2>1. sess[a][b].send \in Chains
    BY Numbers DEF DeliveryTypeInv
  <2>2. /\ sess[a][b].send.secret \in Nat
        /\ \A x \in Range(sess[a][b].send.mixed) : x \in Nat
    BY <2>1, Numbers
  <2>3. /\ sess[a][b].send.secret <= made
        /\ \A x \in Range(sess[a][b].send.mixed) : x <= made
        /\ sess[a][b].send.half = 1 => sess[a][b].send.mixed # <<>>
    BY DEF CoreInv, SessInv
  <2> QED
    BY <1>2, <2>2, <2>3
<1>5. ASSUME NEW w \in Users \ {u}, Sending(w)' PROVE RequestOK(w)'
  <2>1. /\ Sending(w) /\ pc'[w] = pc[w] /\ to'[w] = to[w]
        /\ req'[w] = req[w] /\ work'[w] = work[w] /\ sess'[w] = sess[w]
    BY <1>1, <1>2, <1>5 DEF Makes, Sending, DeliveryTypeInv
  <2>2. RequestOK(w) /\ req[w].id <= made /\ req[w].id \in Nat
    BY <2>1, Numbers DEF CoreInv, RequestInv, RequestOK
  <2>3. \A x \in Users \ {w, u} : Sending(x)' => req'[x].id # req[w].id
    BY <1>1, <1>2, <2>1, <2>2 DEF Makes, RequestOK, Sending, DeliveryTypeInv
  <2>4. req'[u].id # req[w].id
    BY <1>1, <1>2, <2>2 DEF Makes, DeliveryTypeInv
  <2>5. made' \in Nat /\ made <= made'
    BY <1>2
  <2> QED
    BY <1>2, <2>1, <2>2, <2>3, <2>4, <2>5, RequestSame
<1>6. RequestOK(u)'
  <2>1. /\ req'[u] = m /\ work'[u] = AfterEncrypt(s, m) /\ to'[u] = v /\ pc'[u] = "request"
        /\ m.id = made + 1
    BY <1>1, <1>2 DEF Makes, DeliveryTypeInv
  <2>2. BaseSession(u)' = s
    <3>1. BaseSession(u)' = IF sess[u][v] = None THEN NewSession(m.id, TRUE) ELSE sess[u][v]
      BY <1>2, <2>1 DEF BaseSession, NewSession
    <3> QED
      BY <1>1, <2>1, <3>1 DEF Makes
  <2>3. Sound(m)
    <3>1. CASE sess[u][v] = None
      <4>1. /\ m.opens = m.id /\ m.mix = 0 /\ m.id # 0
            /\ m.chain = [secret |-> m.id, half |-> 1, mixed |-> <<>>]
        BY <1>1, <3>1, Numbers DEF Makes, NewSession
      <4> QED
        BY <4>1, RangeEmpty DEF Sound
    <3>2. CASE sess[u][v] # None
      <4>1. m.opens = 0 /\ m.mix = m.id /\ m.chain = sess[u][v].send /\ m.chain \in Chains
        BY <1>1, <3>2, Numbers DEF Makes
      <4>2. /\ m.chain.secret <= made /\ \A x \in Range(m.chain.mixed) : x <= made
            /\ m.chain.half = 1 => m.chain.mixed # <<>>
        BY <3>2, <4>1 DEF CoreInv, SessInv
      <4>3. m.chain.secret \in Nat /\ \A x \in Range(m.chain.mixed) : x \in Nat
        BY <4>1, Numbers
      <4>4. m.chain.secret < m.id /\ \A x \in Range(m.chain.mixed) : x < m.id
        BY <1>2, <2>1, <4>2, <4>3
      <4> QED
        BY <4>1, <4>2, <4>4 DEF Sound
    <3> QED
      BY <3>1, <3>2
  <2>4. \A w \in Users : \A n \in Range(mail[w]) : n.id < m.id /\ n.id # m.id
    BY <1>2, <2>1, Numbers DEF CoreInv, MailInv
  <2>5. \A w \in Users \ {u} : Sending(w)' => req'[w].id # m.id
    <3> SUFFICES ASSUME NEW w \in Users \ {u}, Sending(w)' PROVE req'[w].id # m.id
      OBVIOUS
    <3>1. Sending(w) /\ req'[w] = req[w]
      BY <1>1, <1>2 DEF Makes, Sending, DeliveryTypeInv
    <3> QED
      BY <1>2, <2>1, <3>1, Numbers DEF CoreInv, RequestInv, RequestOK
  <2>6. m.from = u /\ m.chain = s.send /\ m.id <= made'
    BY <1>1, <1>2, <2>1 DEF Makes
  <2>7. Sound(req[u])'
    BY <2>1, <2>3 DEF Sound
  <2> QED
    BY <1>2, <2>1, <2>2, <2>4, <2>5, <2>6, <2>7 DEF RequestOK
<1> QED
  BY <1>3, <1>4, <1>5, <1>6 DEF CoreInv, RequestInv

\* Only u's command moves, and it is not sending afterwards.
OnlyMoves(u) ==
    /\ UNCHANGED <<mail, made>>
    /\ pc'[u] \notin {"request", "answer"}
    /\ \A w \in Users \ {u} : /\ pc'[w] = pc[w] /\ to'[w] = to[w] /\ req'[w] = req[w]
                              /\ work'[w] = work[w] /\ sess'[w] = sess[w] /\ todo'[w] = todo[w]
                              /\ got'[w] = got[w] /\ read'[w] = read[w]

LEMMA OnlyMovesCore ==
    ASSUME DeliveryTypeInv, CoreInv, NEW u \in Users, OnlyMoves(u), SessInv',
           Range(todo'[u]) \cup Range(got'[u]) \cup Range(read'[u]) \subseteq Range(mail[u]),
           pc'[u] # "decrypt" => Range(got'[u]) \subseteq Range(read'[u])
    PROVE  CoreInv'
<1>1. MailInv'
  <2>1. \A w \in Users :
           /\ Range(todo'[w]) \cup Range(got'[w]) \cup Range(read'[w]) \subseteq Range(mail[w])
           /\ pc'[w] # "decrypt" => Range(got'[w]) \subseteq Range(read'[w])
    BY DEF OnlyMoves, CoreInv, MailInv
  <2>2. mail' = mail /\ made' = made
    BY DEF OnlyMoves
  <2> QED
    BY <2>1, <2>2 DEF CoreInv, MailInv
<1>2. ASSUME NEW w \in Users, Sending(w)' PROVE RequestOK(w)'
  <2>1. w # u /\ Sending(w)
    BY <1>2 DEF OnlyMoves, Sending
  <2>2. RequestOK(w)
    BY <2>1 DEF CoreInv, RequestInv
  <2>3. \A x \in Users \ {w} : Sending(x)' => req'[x].id # req[w].id
    BY <2>2 DEF OnlyMoves, Sending, RequestOK
  <2>4. made \in Nat /\ made' = made /\ made' \in Nat /\ made <= made'
    BY Numbers DEF OnlyMoves
  <2> QED
    BY <2>1, <2>2, <2>3, <2>4, RequestSame DEF OnlyMoves
<1> QED
  BY <1>1, <1>2 DEF CoreInv, RequestInv

LEMMA SessSame == ASSUME SessInv, UNCHANGED <<sess, made>> PROVE SessInv'
BY DEF SessInv

LEMMA MovesSteps ==
    ASSUME DeliveryTypeInv, NEW u \in Users,
           \/ \E v \in Users : Connect(u, v)
           \/ Stops(u) \/ Confirm(u) \/ Fetch(u) \/ Skips(u) \/ Prints(u)
           \/ \E m \in Messages, s \in Sessions : Takes(u, m, s)
    PROVE  OnlyMoves(u)
<1> USE DEF OnlyMoves, Goto, DeliveryTypeInv, local, ghosts
<1>1. CASE \E v \in Users : Connect(u, v)
  BY <1>1 DEF Connect
<1>2. CASE Stops(u)
  BY <1>2 DEF Stops, End
<1>3. CASE Confirm(u)
  BY <1>3 DEF Confirm, End, SaveSession
<1>4. CASE Fetch(u) \/ Skips(u) \/ Prints(u)
  BY <1>4 DEF Fetch, Skips, Prints
<1>5. CASE \E m \in Messages, s \in Sessions : Takes(u, m, s)
  BY <1>5 DEF Takes
<1> QED
  BY <1>1, <1>2, <1>3, <1>4, <1>5

LEMMA ConfirmSess ==
    ASSUME DeliveryTypeInv, CoreInv, NEW u \in Users, Confirm(u)
    PROVE  SessInv'
<1> DEFINE v == to[u]
           m == req[u]
           b == BaseSession(u)
<1>1. /\ m \in Messages /\ v \in Users /\ made \in Nat /\ RequestOK(u)
      /\ sess' = [sess EXCEPT ![u][v] = work[u]] /\ made' = made
  BY Numbers DEF Confirm, SaveSession, Sending, CoreInv, RequestInv, DeliveryTypeInv
<1>2. /\ Sound(m) /\ m.id <= made /\ m.chain = b.send /\ work[u] = AfterEncrypt(b, m)
  BY <1>1 DEF RequestOK
<1>3. b \in Sessions
  <2>1. CASE sess[u][v] = None
    BY <1>1, <2>1, SessionType DEF BaseSession, Messages
  <2>2. CASE sess[u][v] # None
    BY <1>1, <2>2 DEF BaseSession, DeliveryTypeInv
  <2> QED
    BY <2>1, <2>2
<1> HIDE DEF b
<1>4. m.chain \in Chains /\ m.mix \in Ids \cup {0} /\ m.id \in Nat
  BY <1>1, Numbers
<1>5. work[u].send = Advance(m.chain, m.mix)
  BY <1>1, <1>2, <1>3, AfterEncryptType
<1>6. /\ work[u].send.secret = m.chain.secret
      /\ work[u].send.mixed = Append(m.chain.mixed, m.mix)
  <2>1. /\ Advance(m.chain, m.mix).secret = m.chain.secret
        /\ Advance(m.chain, m.mix).mixed = Append(m.chain.mixed, m.mix)
    BY <1>4, AdvanceType
  <2> QED
    BY <1>5, <2>1
<1>7. /\ m.chain.mixed \in Seq(Ids \cup {0}) /\ m.chain.secret \in Nat
      /\ \A x \in Range(m.chain.mixed) : x \in Nat
  BY <1>4, Numbers
<1>8. /\ work[u].send.mixed # <<>>
      /\ Range(work[u].send.mixed) = Range(m.chain.mixed) \cup {m.mix}
  BY <1>4, <1>6, <1>7, RangeAppend
<1>9. m.chain.secret <= made /\ m.mix <= made
  <2>1. CASE m.opens # 0
    BY <1>1, <1>2, <2>1 DEF Sound
  <2>2. CASE m.opens = 0
    BY <1>1, <1>2, <1>4, <1>7, <2>2 DEF Sound
  <2> QED
    BY <2>1, <2>2
<1>10. \A x \in Range(m.chain.mixed) : x <= made
  BY <1>1, <1>2, <1>4, <1>7 DEF Sound
<1>11. \A x \in Range(work[u].send.mixed) : x <= made
  BY <1>8, <1>9, <1>10
<1>12. \A a, c \in Users : sess'[a][c] = IF a = u /\ c = v THEN work[u] ELSE sess[a][c]
  BY <1>1 DEF DeliveryTypeInv
<1> SUFFICES ASSUME NEW a \in Users, NEW c \in Users, sess'[a][c] # None
             PROVE  /\ sess'[a][c].send.secret <= made
                    /\ \A x \in Range(sess'[a][c].send.mixed) : x <= made
                    /\ sess'[a][c].send.half = 1 => sess'[a][c].send.mixed # <<>>
  BY <1>1 DEF SessInv
<1>13. CASE a = u /\ c = v
  BY <1>6, <1>8, <1>9, <1>11, <1>12, <1>13
<1>14. CASE ~(a = u /\ c = v)
  BY <1>12, <1>14 DEF SessInv, CoreInv
<1> QED
  BY <1>13, <1>14

LEMMA TakesSess ==
    ASSUME DeliveryTypeInv, CoreInv, NEW u \in Users, NEW m \in Messages, NEW s \in Sessions,
           Takes(u, m, s)
    PROVE  SessInv'
<1> DEFINE v == m.from
<1>1. /\ v \in Users /\ m \in Range(mail[u]) /\ made' = made
      /\ sess' = [sess EXCEPT ![u][v] = AfterDecrypt(s, m)]
  <2>1. todo[u] \in Seq(Messages) /\ todo[u] # <<>> /\ m = Head(todo[u])
    BY DEF Takes, DeliveryTypeInv
  <2>2. m \in Range(todo[u])
    BY <2>1, RangeTail
  <2> QED
    BY <2>2, Numbers DEF Takes, CoreInv, MailInv
<1>2. AfterDecrypt(s, m).send = s.send
  BY AfterDecryptType
<1>3. /\ s.send.secret <= made /\ \A x \in Range(s.send.mixed) : x <= made
      /\ s.send.half = 1 => s.send.mixed # <<>>
  <2>1. CASE sess[u][v] # None /\ s = sess[u][v]
    BY <1>1, <2>1 DEF CoreInv, SessInv
  <2>2. CASE m.opens # 0 /\ s = NewSession(m.opens, FALSE)
    <3>1. m.opens <= made
      BY <1>1, <2>2 DEF CoreInv, MailInv, Sound
    <3> QED
      BY <2>2, <3>1, RangeEmpty DEF NewSession
  <2> QED
    BY <2>1, <2>2 DEF Takes
<1>4. \A a, c \in Users : sess'[a][c] = IF a = u /\ c = v THEN AfterDecrypt(s, m) ELSE sess[a][c]
  BY <1>1 DEF DeliveryTypeInv
<1> QED
  BY <1>1, <1>2, <1>3, <1>4 DEF SessInv, CoreInv

LEMMA StoreCore ==
    ASSUME DeliveryTypeInv, CoreInv, NEW u \in Users, Store(u)
    PROVE  CoreInv'
<1> DEFINE m == req[u]
<1>1. /\ m \in Messages /\ to[u] \in Users /\ pc[u] = "request" /\ RequestOK(u)
      /\ mail' = [mail EXCEPT ![to[u]] = Append(mail[to[u]], m)]
      /\ pc' = [pc EXCEPT ![u] = "answer"]
      /\ UNCHANGED <<sess, to, req, work, todo, got, read, made>>
  BY Numbers DEF Store, Goto, local, Sending, CoreInv, RequestInv, DeliveryTypeInv
<1>2. /\ mail[to[u]] \in Seq(Messages)
      /\ Range(Append(mail[to[u]], m)) = Range(mail[to[u]]) \cup {m}
  BY <1>1, RangeAppend DEF DeliveryTypeInv
<1>3. /\ \A w \in Users : \A n \in Range(mail'[w]) : n \in Range(mail[w]) \/ (n = m /\ w = to[u])
      /\ \A w \in Users : Range(mail[w]) \subseteq Range(mail'[w])
      /\ m \in Range(mail'[to[u]])
  <2>1. mail'[to[u]] = Append(mail[to[u]], m) /\ \A w \in Users \ {to[u]} : mail'[w] = mail[w]
    BY <1>1 DEF DeliveryTypeInv
  <2> QED
    BY <1>1, <1>2, <2>1
<1>4. \A w \in Users : \A n \in Range(mail[w]) : n.id # m.id
  BY <1>1 DEF RequestOK
<1>5. MailInv'
  <2>1. \A w \in Users : \A n \in Range(mail'[w]) : Sound(n) /\ n.id <= made
    <3>1. Sound(m) /\ m.id <= made
      BY <1>1 DEF RequestOK
    <3> QED
      BY <1>3, <3>1 DEF CoreInv, MailInv
  <2>2. ASSUME NEW w \in Users, NEW x \in Users, NEW n \in Range(mail'[w]),
               NEW k \in Range(mail'[x]), n.id = k.id
        PROVE  n = k /\ w = x
    <3>1. CASE n \in Range(mail[w]) /\ k \in Range(mail[x])
      BY <2>2, <3>1 DEF CoreInv, MailInv
    <3> QED
      BY <1>3, <1>4, <2>2, <3>1
  <2>3. \A w \in Users :
           /\ Range(todo[w]) \cup Range(got[w]) \cup Range(read[w]) \subseteq Range(mail[w])
           /\ pc'[w] # "decrypt" => Range(got[w]) \subseteq Range(read[w])
    BY <1>1 DEF CoreInv, MailInv, DeliveryTypeInv
  <2>4. \A w \in Users :
           Range(todo[w]) \cup Range(got[w]) \cup Range(read[w]) \subseteq Range(mail'[w])
    BY <1>3, <2>3
  <2> QED
    BY <1>1, <2>1, <2>2, <2>3, <2>4 DEF MailInv
<1>6. \A w \in Users : BaseSession(w)' = BaseSession(w) /\ Sound(req[w])' = Sound(req[w])
  BY <1>1 DEF BaseSession, Sound
<1>7. \A w \in Users : Sending(w)' => Sending(w) /\ RequestOK(w)
  BY <1>1 DEF Sending, CoreInv, RequestInv, DeliveryTypeInv
<1>8. RequestOK(u)'
  <2>1. pc'[u] = "answer" /\ m \in Range(mail'[to[u]])
    BY <1>1, <1>3 DEF DeliveryTypeInv
  <2>2. \A w \in Users : \A n \in Range(mail'[w]) :
           /\ n.id = m.id => n = m /\ w = to[u]
           /\ n.from = u /\ n # m => n.id < m.id
    <3>1. \A w \in Users : \A n \in Range(mail[w]) : n.from = u /\ n # m => n.id < m.id
      BY <1>1 DEF RequestOK
    <3> QED
      BY <1>3, <1>4, <3>1
  <2>3. \A w \in Users \ {u} : Sending(w)' => req[w].id # m.id
    BY <1>1, <1>7 DEF RequestOK
  <2> QED
    BY <1>1, <1>6, <2>1, <2>2, <2>3 DEF RequestOK
<1>9. ASSUME NEW w \in Users \ {u}, Sending(w)' PROVE RequestOK(w)'
  <2>1. RequestOK(w) /\ pc'[w] = pc[w] /\ req[w].id # m.id /\ m.from = u
    BY <1>1, <1>7, <1>9 DEF RequestOK, DeliveryTypeInv, Sending
  <2>2. \A x \in Users : \A n \in Range(mail'[x]) :
           /\ n.id = req[w].id => pc[w] = "answer" /\ n = req[w] /\ x = to[w]
           /\ n.from = w /\ n # req[w] => n.id < req[w].id
    BY <1>3, <2>1 DEF RequestOK
  <2>3. \A x \in Users \ {w} : Sending(x)' => req[x].id # req[w].id
    BY <1>7, <2>1 DEF RequestOK
  <2>4. pc[w] = "answer" => req[w] \in Range(mail'[to[w]])
    BY <1>3, <2>1 DEF RequestOK, DeliveryTypeInv
  <2> QED
    BY <1>1, <1>6, <2>1, <2>2, <2>3, <2>4 DEF RequestOK
<1>10. SessInv'
  BY <1>1, SessSame DEF CoreInv
<1> QED
  BY <1>5, <1>8, <1>9, <1>10 DEF CoreInv, RequestInv

\* What a read command has fetched, decrypted and printed, after each step of it.
LEMMA TodoShrinks ==
    ASSUME DeliveryTypeInv, NEW u \in Users,
           Skips(u) \/ \E m \in Messages, s \in Sessions : Takes(u, m, s)
    PROVE  Range(todo'[u]) \subseteq Range(todo[u])
<1>1. todo[u] \in Seq(Messages) /\ todo'[u] = Tail(todo[u]) /\ todo[u] # <<>>
  BY DEF Skips, Takes, DeliveryTypeInv
<1> QED
  BY <1>1, RangeTail

LEMMA GotGrows ==
    ASSUME DeliveryTypeInv, NEW u \in Users, NEW m \in Messages, NEW s \in Sessions,
           Takes(u, m, s)
    PROVE  m \in Range(todo[u]) /\ Range(got'[u]) = Range(got[u]) \cup {m}
<1>1. /\ got[u] \in Seq(Messages) /\ got'[u] = Append(got[u], m)
      /\ todo[u] \in Seq(Messages) /\ todo[u] # <<>> /\ m = Head(todo[u])
  BY DEF Takes, DeliveryTypeInv
<1> QED
  BY <1>1, RangeAppend, RangeTail

LEMMA ReadGrows ==
    ASSUME DeliveryTypeInv, NEW u \in Users, Prints(u)
    PROVE  Range(read'[u]) = Range(read[u]) \cup Range(got[u])
<1>1. read[u] \in Seq(Messages) /\ got[u] \in Seq(Messages) /\ read'[u] = read[u] \o got[u]
  BY DEF Prints, DeliveryTypeInv
<1> QED
  BY <1>1, RangeConcat

LEMMA CoreStep ==
    ASSUME DeliveryTypeInv, CoreInv, [Next]_vars
    PROVE  CoreInv'
<1>0. \A u \in Users :
         /\ Range(todo[u]) \cup Range(got[u]) \cup Range(read[u]) \subseteq Range(mail[u])
         /\ pc[u] # "decrypt" => Range(got[u]) \subseteq Range(read[u])
  BY DEF CoreInv, MailInv
<1>1. ASSUME NEW u \in Users, \E v \in Users : Connect(u, v)
      PROVE  CoreInv'
  <2>1. UNCHANGED <<sess, made, todo, got, read>> /\ pc[u] = "idle"
    BY <1>1 DEF Connect
  <2>2. OnlyMoves(u) /\ SessInv'
    BY <1>1, <2>1, MovesSteps, SessSame DEF CoreInv
  <2> QED
    BY <1>0, <2>1, <2>2, OnlyMovesCore
<1>2. ASSUME NEW u \in Users, Stops(u) \/ Confirm(u)
      PROVE  CoreInv'
  <2>1. todo'[u] = <<>> /\ got'[u] = <<>> /\ UNCHANGED read
    BY <1>2 DEF Stops, Confirm, End, DeliveryTypeInv
  <2>2. SessInv'
    BY <1>2, ConfirmSess, SessSame DEF CoreInv, Stops
  <2>3. OnlyMoves(u)
    BY <1>2, MovesSteps
  <2> QED
    BY <1>0, <2>1, <2>2, <2>3, RangeEmpty, OnlyMovesCore
<1>3. ASSUME NEW u \in Users, Fetch(u)
      PROVE  CoreInv'
  <2>1. todo'[u] = mail[u] /\ UNCHANGED <<sess, made, got, read>> /\ pc'[u] = "decrypt"
    BY <1>3 DEF Fetch, Goto, DeliveryTypeInv
  <2>2. OnlyMoves(u) /\ SessInv'
    BY <1>3, <2>1, MovesSteps, SessSame DEF CoreInv
  <2> QED
    BY <1>0, <2>1, <2>2, OnlyMovesCore
<1>4. ASSUME NEW u \in Users, Skips(u)
      PROVE  CoreInv'
  <2>1. UNCHANGED <<sess, made, got, read, pc>> /\ pc[u] = "decrypt"
    BY <1>4 DEF Skips
  <2>2. Range(todo'[u]) \subseteq Range(todo[u])
    BY <1>4, TodoShrinks
  <2>3. OnlyMoves(u) /\ SessInv'
    BY <1>4, <2>1, MovesSteps, SessSame DEF CoreInv
  <2> QED
    BY <1>0, <2>1, <2>2, <2>3, OnlyMovesCore
<1>5. ASSUME NEW u \in Users, NEW m \in Messages, NEW s \in Sessions, Takes(u, m, s)
      PROVE  CoreInv'
  <2>1. UNCHANGED <<read, pc>> /\ pc[u] = "decrypt"
    BY <1>5 DEF Takes
  <2>2. /\ Range(todo'[u]) \subseteq Range(todo[u])
        /\ m \in Range(todo[u]) /\ Range(got'[u]) = Range(got[u]) \cup {m}
    BY <1>5, TodoShrinks, GotGrows
  <2>3. OnlyMoves(u)
    BY <1>5, MovesSteps
  <2>4. SessInv'
    BY <1>5, TakesSess
  <2> QED
    BY <1>0, <2>1, <2>2, <2>3, <2>4, OnlyMovesCore
<1>6. ASSUME NEW u \in Users, Prints(u)
      PROVE  CoreInv'
  <2>1. UNCHANGED <<sess, made, todo, got>>
    BY <1>6 DEF Prints
  <2>2. Range(read'[u]) = Range(read[u]) \cup Range(got[u])
    BY <1>6, ReadGrows
  <2>3. OnlyMoves(u) /\ SessInv'
    BY <1>6, <2>1, MovesSteps, SessSame DEF CoreInv
  <2> QED
    BY <1>0, <2>1, <2>2, <2>3, OnlyMovesCore
<1>7. CASE UNCHANGED vars
  <2>1. MailInv' /\ SessInv'
    BY <1>7, SessSame DEF vars, local, CoreInv, MailInv
  <2>2. RequestInv'
    <3>1. UNCHANGED <<mail, sess, pc, to, req, work, made>>
      BY <1>7 DEF vars, local
    <3>2. \A u \in Users : BaseSession(u)' = BaseSession(u) /\ Sending(u)' = Sending(u)
      BY <3>1 DEF BaseSession, Sending
    <3> QED
      BY <3>1, <3>2 DEF CoreInv, RequestInv, RequestOK
  <2> QED
    BY <2>1, <2>2 DEF CoreInv
<1> QED
  BY <1>1, <1>2, <1>3, <1>4, <1>5, <1>6, <1>7, SendCore, StoreCore, StepCases

LEMMA CoreHolds == Spec => []CoreInv
<1>1. DeliveryTypeInv /\ CoreInv /\ [Next]_vars => CoreInv'
  BY CoreStep
<1> QED
  BY <1>1, CoreInit, DeliveryTypeHolds, PTL DEF Spec

\* What the relay was told to store for a sender stays: the purge that follows a read is
\* refused by the relay, and nothing else removes an entry.
LEMMA MailGrows ==
    ASSUME DeliveryTypeInv, [Next]_vars
    PROVE  \A u \in Users : Range(mail[u]) \subseteq Range(mail'[u])
<1>1. ASSUME NEW u \in Users, Store(u)
      PROVE  \A w \in Users : Range(mail[w]) \subseteq Range(mail'[w])
  <2>1. req[u] \in Messages /\ to[u] \in Users /\ mail[to[u]] \in Seq(Messages)
    BY <1>1 DEF Store, DeliveryTypeInv
  <2>2. mail'[to[u]] = Append(mail[to[u]], req[u]) /\ \A w \in Users \ {to[u]} : mail'[w] = mail[w]
    BY <1>1, <2>1 DEF Store, DeliveryTypeInv
  <2>3. Range(mail[to[u]]) \subseteq Range(mail'[to[u]])
    BY <2>1, <2>2, RangeAppend
  <2> QED
    BY <2>2, <2>3
<1>2. ASSUME NEW u \in Users, NEW v \in Users, Send(u, v) PROVE UNCHANGED mail
  BY <1>2 DEF Send
<1>3. CASE UNCHANGED mail
  BY <1>3
<1>4. CASE UNCHANGED vars
  BY <1>3, <1>4 DEF vars
<1> QED
  BY <1>1, <1>2, <1>3, <1>4, StepCases, MovesSteps DEF OnlyMoves

-----------------------------------------------------------------------------
(* Sending chains                                                           *)

\* What is in a chain stays in it.
LEMMA InChainAdvance ==
    ASSUME NEW c \in Chains, NEW x \in Ids \cup {0}, NEW m \in Messages, InChain(c, m)
    PROVE  InChain(Advance(c, x), m)
<1>1. /\ Advance(c, x).secret = c.secret /\ Advance(c, x).half = c.half
      /\ Advance(c, x).mixed = Append(c.mixed, x)
  BY AdvanceType
<1>2. c.mixed \in Seq(Ids \cup {0})
  BY DEF Chains
<1>3. Append(c.mixed, x) # <<>> /\ Range(Append(c.mixed, x)) = Range(c.mixed) \cup {x}
  BY <1>2, RangeAppend
<1> QED
  BY <1>1, <1>3 DEF InChain

\* A message goes into the chain it was made with.
LEMMA InChainOwn ==
    ASSUME NEW m \in Messages, Sound(m)
    PROVE  InChain(Advance(m.chain, m.mix), m)
<1>1. m.chain \in Chains /\ m.mix \in Ids \cup {0} /\ m.chain.mixed \in Seq(Ids \cup {0})
  BY DEF Messages, Chains
<1>2. /\ Advance(m.chain, m.mix).secret = m.chain.secret /\ Advance(m.chain, m.mix).half = m.chain.half
      /\ Advance(m.chain, m.mix).mixed = Append(m.chain.mixed, m.mix)
  BY <1>1, AdvanceType
<1>3. /\ Append(m.chain.mixed, m.mix) # <<>>
      /\ Range(Append(m.chain.mixed, m.mix)) = Range(m.chain.mixed) \cup {m.mix}
  BY <1>1, RangeAppend
<1> QED
  BY <1>2, <1>3 DEF InChain, Sound

LEMMA SentInit == Init => SentInv
BY RangeEmpty DEF Init, SentInv, From

\* A step after which the mailboxes and sending chains are what they were, and no
\* answer is awaited that was not awaited before or whose loss is not noted.
LEMMA SentSame ==
    ASSUME SentInv, UNCHANGED mail, cut \subseteq cut',
           \A v \in Users : /\ pc[v] = "answer" => \/ pc'[v] = "answer" /\ req'[v] = req[v]
                                                   \/ req[v].id \in cut'
                            /\ \A u \in Users : sess[v][u] # None =>
                                  sess'[v][u] # None /\ sess'[v][u].send = sess[v][u].send
    PROVE  SentInv'
<1> SUFFICES ASSUME NEW u \in Users, NEW v \in Users, NEW m \in From(mail[u], v), m.id \notin cut'
             PROVE  /\ \/ pc'[v] = "answer" /\ req'[v].id = m.id
                       \/ sess'[v][u] # None /\ InChain(sess'[v][u].send, m)
                    /\ \A r \in From(mail[u], v) : m.id < r.id => InChain(r.chain, m)
  BY DEF SentInv, From
<1>1. m.id \notin cut
  OBVIOUS
<1>2. /\ \/ pc[v] = "answer" /\ req[v].id = m.id
         \/ sess[v][u] # None /\ InChain(sess[v][u].send, m)
      /\ \A r \in From(mail[u], v) : m.id < r.id => InChain(r.chain, m)
  BY <1>1 DEF SentInv
<1> QED
  BY <1>2

LEMMA ConfirmSent ==
    ASSUME DeliveryTypeInv, CoreInv, SentInv, NEW x \in Users, Confirm(x)
    PROVE  SentInv'
<1> DEFINE k == req[x]
           y == to[x]
<1>1. /\ k \in Messages /\ y \in Users /\ RequestOK(x) /\ work[x] \in Sessions
      /\ mail' = mail /\ cut' = cut /\ sess' = [sess EXCEPT ![x][y] = work[x]]
      /\ \A v \in Users \ {x} : pc'[v] = pc[v] /\ req'[v] = req[v]
  BY Numbers DEF Confirm, End, Goto, SaveSession, Sending, CoreInv, RequestInv, DeliveryTypeInv
<1>2. \A a, c \in Users : sess'[a][c] = IF a = x /\ c = y THEN work[x] ELSE sess[a][c]
  BY <1>1 DEF DeliveryTypeInv
<1>3. work[x] # None
  BY <1>1, NoneAssumption
<1>4. work[x].send = Advance(k.chain, k.mix) /\ k.chain = BaseSession(x).send
  <2>1. BaseSession(x) \in Sessions
    <3>1. CASE sess[x][y] = None
      BY <1>1, <3>1, SessionType DEF BaseSession, Messages
    <3>2. CASE sess[x][y] # None
      BY <1>1, <3>2 DEF BaseSession, DeliveryTypeInv
    <3> QED
      BY <3>1, <3>2
  <2> QED
    BY <1>1, <2>1, AfterEncryptType DEF RequestOK
<1>5. k.chain \in Chains /\ k.mix \in Ids \cup {0} /\ Sound(k)
  BY <1>1, Numbers DEF RequestOK
<1> SUFFICES ASSUME NEW u \in Users, NEW v \in Users, NEW m \in From(mail[u], v), m.id \notin cut
             PROVE  /\ \/ pc'[v] = "answer" /\ req'[v].id = m.id
                       \/ sess'[v][u] # None /\ InChain(sess'[v][u].send, m)
                    /\ \A r \in From(mail[u], v) : m.id < r.id => InChain(r.chain, m)
  BY <1>1 DEF SentInv
<1>6. /\ \/ pc[v] = "answer" /\ req[v].id = m.id
         \/ sess[v][u] # None /\ InChain(sess[v][u].send, m)
      /\ \A r \in From(mail[u], v) : m.id < r.id => InChain(r.chain, m)
  BY DEF SentInv
<1>7. m \in Messages /\ m \in Range(mail[u])
  BY Numbers DEF From
<1>8. CASE v # x
  BY <1>1, <1>2, <1>6, <1>8
<1>9. CASE v = x /\ u # y
  <2>1. ~(pc[x] = "answer" /\ req[x].id = m.id)
    BY <1>1, <1>7, <1>9 DEF RequestOK
  <2> QED
    BY <1>2, <1>6, <1>9, <2>1
<1>10. CASE v = x /\ u = y
  <2>1. CASE pc[v] = "answer" /\ req[v].id = m.id
    <3>1. m = k
      BY <1>1, <1>7, <1>10, <2>1 DEF RequestOK
    <3>2. InChain(work[x].send, m)
      BY <1>4, <1>5, <1>7, <3>1, InChainOwn
    <3> QED
      BY <1>2, <1>3, <1>6, <1>10, <3>2
  <2>2. CASE sess[v][u] # None /\ InChain(sess[v][u].send, m)
    <3>1. k.chain = sess[v][u].send
      BY <1>4, <1>10, <2>2 DEF BaseSession
    <3>2. InChain(work[x].send, m)
      BY <1>4, <1>5, <1>7, <2>2, <3>1, InChainAdvance
    <3> QED
      BY <1>2, <1>3, <1>6, <1>10, <3>2
  <2> QED
    BY <1>6, <2>1, <2>2
<1> QED
  BY <1>8, <1>9, <1>10

LEMMA StoreSent ==
    ASSUME DeliveryTypeInv, CoreInv, SentInv, NEW x \in Users, Store(x)
    PROVE  SentInv'
<1> DEFINE k == req[x]
           y == to[x]
<1>1. /\ k \in Messages /\ y \in Users /\ RequestOK(x) /\ pc[x] = "request"
      /\ UNCHANGED <<cut, sess, req>>
      /\ pc' = [pc EXCEPT ![x] = "answer"]
      /\ mail' = [mail EXCEPT ![y] = Append(mail[y], k)]
  BY Numbers DEF Store, Goto, local, ghosts, Sending, CoreInv, RequestInv, DeliveryTypeInv
<1>2. \A u \in Users : \A n \in Range(mail'[u]) : n \in Range(mail[u]) \/ (n = k /\ u = y)
  <2>1. Range(Append(mail[y], k)) = Range(mail[y]) \cup {k}
    BY <1>1, RangeAppend DEF DeliveryTypeInv
  <2>2. mail'[y] = Append(mail[y], k) /\ \A u \in Users \ {y} : mail'[u] = mail[u]
    BY <1>1 DEF DeliveryTypeInv
  <2> QED
    BY <2>1, <2>2
<1>3. k.from = x /\ k.id \in Nat
  BY <1>1, Numbers DEF RequestOK
<1> SUFFICES ASSUME NEW u \in Users, NEW v \in Users, NEW m \in From(mail'[u], v), m.id \notin cut
             PROVE  /\ \/ pc'[v] = "answer" /\ req[v].id = m.id
                       \/ sess[v][u] # None /\ InChain(sess[v][u].send, m)
                    /\ \A r \in From(mail'[u], v) : m.id < r.id => InChain(r.chain, m)
  BY <1>1 DEF SentInv
<1>4. CASE m \in Range(mail[u])
  <2>1. /\ \/ pc[v] = "answer" /\ req[v].id = m.id
           \/ sess[v][u] # None /\ InChain(sess[v][u].send, m)
        /\ \A r \in From(mail[u], v) : m.id < r.id => InChain(r.chain, m)
    BY <1>4 DEF SentInv, From
  <2>2. \/ pc'[v] = "answer" /\ req[v].id = m.id
        \/ sess[v][u] # None /\ InChain(sess[v][u].send, m)
    BY <1>1, <2>1 DEF DeliveryTypeInv
  <2>3. ASSUME NEW r \in From(mail'[u], v), m.id < r.id PROVE InChain(r.chain, m)
    <3>1. CASE r \in Range(mail[u])
      BY <2>1, <2>3, <3>1 DEF From
    <3>2. CASE r = k /\ u = y
      <4>1. v = x
        BY <1>3, <3>2 DEF From
      <4>2. sess[x][y] # None /\ InChain(sess[x][y].send, m)
        BY <1>1, <2>1, <3>2, <4>1
      <4>3. r.chain = sess[x][y].send
        BY <1>1, <3>2, <4>2 DEF RequestOK, BaseSession
      <4> QED
        BY <4>2, <4>3
    <3> QED
      BY <1>2, <3>1, <3>2 DEF From
  <2> QED
    BY <2>2, <2>3
<1>5. CASE m = k /\ u = y
  <2>1. v = x
    BY <1>3, <1>5 DEF From
  <2>2. pc'[v] = "answer" /\ req[v].id = m.id
    BY <1>1, <1>5, <2>1 DEF DeliveryTypeInv
  <2>3. ASSUME NEW r \in From(mail'[u], v), m.id < r.id PROVE FALSE
    <3>1. r # k
      BY <1>3, <1>5, <2>3
    <3>2. r \in Range(mail[u]) /\ r.from = x
      BY <1>2, <2>1, <3>1 DEF From
    <3>3. r.id < k.id /\ r.id \in Nat
      BY <1>1, <3>1, <3>2, Numbers DEF RequestOK
    <3> QED
      BY <1>3, <1>5, <2>3, <3>3
  <2> QED
    BY <2>2, <2>3
<1> QED
  BY <1>2, <1>4, <1>5 DEF From

LEMMA SentStep ==
    ASSUME DeliveryTypeInv, CoreInv, SentInv, [Next]_vars
    PROVE  SentInv'
<1>1. ASSUME NEW x \in Users, \E y \in Users : Send(x, y) \/ Connect(x, y)
      PROVE  SentInv'
  <2>1. /\ UNCHANGED <<mail, sess, cut>> /\ pc[x] = "idle"
        /\ \A v \in Users \ {x} : pc'[v] = pc[v] /\ req'[v] = req[v]
    BY <1>1 DEF Send, Encrypt, Connect, Goto, ghosts, DeliveryTypeInv
  <2> QED
    BY <2>1, SentSame
<1>2. ASSUME NEW x \in Users, Stops(x) PROVE SentInv'
  <2>1. /\ UNCHANGED <<mail, sess>> /\ cut \subseteq cut' /\ (pc[x] = "answer" => req[x].id \in cut')
        /\ \A v \in Users \ {x} : pc'[v] = pc[v] /\ req'[v] = req[v]
    BY <1>2 DEF Stops, End, Goto, DeliveryTypeInv
  <2> QED
    BY <2>1, SentSame
<1>3. ASSUME NEW x \in Users, Fetch(x) \/ Skips(x) \/ Prints(x) PROVE SentInv'
  <2>1. /\ UNCHANGED <<mail, sess, cut, req>> /\ pc[x] # "answer"
        /\ \A v \in Users \ {x} : pc'[v] = pc[v]
    BY <1>3 DEF Fetch, Skips, Prints, Goto, ghosts, DeliveryTypeInv
  <2> QED
    BY <2>1, SentSame
<1>4. ASSUME NEW x \in Users, NEW k \in Messages, NEW s \in Sessions, Takes(x, k, s)
      PROVE  SentInv'
  <2>1. /\ UNCHANGED <<mail, cut, req, pc>> /\ k.from \in Users
        /\ sess' = [sess EXCEPT ![x][k.from] = AfterDecrypt(s, k)]
        /\ sess[x][k.from] # None => s = sess[x][k.from]
    BY <1>4, Numbers DEF Takes, ghosts
  <2>2. AfterDecrypt(s, k).send = s.send /\ AfterDecrypt(s, k) # None
    BY AfterDecryptType, NoneAssumption
  <2>3. ASSUME NEW v \in Users, NEW u \in Users, sess[v][u] # None
        PROVE  sess'[v][u] # None /\ sess'[v][u].send = sess[v][u].send
    <3>1. sess'[v][u] = IF v = x /\ u = k.from THEN AfterDecrypt(s, k) ELSE sess[v][u]
      BY <2>1 DEF DeliveryTypeInv
    <3> QED
      BY <2>1, <2>2, <2>3, <3>1
  <2> QED
    BY <2>1, <2>3, SentSame
<1>5. CASE UNCHANGED vars
  BY <1>5 DEF vars, local, ghosts, SentInv
<1> QED
  BY <1>1, <1>2, <1>3, <1>4, <1>5, ConfirmSent, StoreSent, StepCases

-----------------------------------------------------------------------------
(* Receiving chains                                                         *)

LEMMA TakenInit == Init => TakenInv
BY RangeEmpty DEF Init, TakenInv

\* What was decrypted with a chain is older than what is decrypted with it next.
LEMMA ConsumedBefore ==
    ASSUME NEW g \in Messages, NEW m \in Messages, Sound(g), Sound(m), Consumed(m.chain, g)
    PROVE  g.id < m.id
<1>1. CASE g.opens = 0
  BY <1>1 DEF Sound, Consumed
<1>2. CASE g.opens # 0
  <2>1. g.chain.secret = g.id /\ g.mix = 0
    BY <1>2 DEF Sound
  <2>2. 0 \in Range(m.chain.mixed) /\ m.chain.secret = g.id
    BY <2>1 DEF Consumed
  <2>3. m.opens = 0
    BY <2>2, RangeEmpty DEF Sound
  <2> QED
    BY <2>2, <2>3 DEF Sound
<1> QED
  BY <1>1, <1>2

LEMMA ConsumedAdvance ==
    ASSUME NEW c \in Chains, NEW x \in Ids \cup {0}, NEW m \in Messages, Consumed(c, m)
    PROVE  Consumed(Advance(c, x), m)
<1>1. /\ Advance(c, x).secret = c.secret /\ Advance(c, x).half = c.half
      /\ Advance(c, x).mixed = Append(c.mixed, x)
  BY AdvanceType
<1>2. c.mixed \in Seq(Ids \cup {0})
  BY DEF Chains
<1>3. Range(Append(c.mixed, x)) = Range(c.mixed) \cup {x}
  BY <1>2, RangeAppend
<1> QED
  BY <1>1, <1>3 DEF Consumed

LEMMA ConsumedOwn ==
    ASSUME NEW m \in Messages
    PROVE  Consumed(Advance(m.chain, m.mix), m)
<1>1. m.chain \in Chains /\ m.mix \in Ids \cup {0} /\ m.chain.mixed \in Seq(Ids \cup {0})
  BY DEF Messages, Chains
<1>2. /\ Advance(m.chain, m.mix).secret = m.chain.secret /\ Advance(m.chain, m.mix).half = m.chain.half
      /\ Advance(m.chain, m.mix).mixed = Append(m.chain.mixed, m.mix)
  BY <1>1, AdvanceType
<1>3. Range(Append(m.chain.mixed, m.mix)) = Range(m.chain.mixed) \cup {m.mix}
  BY <1>1, RangeAppend
<1> QED
  BY <1>2, <1>3 DEF Consumed

\* A step that decrypts nothing, and forgets nothing it had decrypted but notes it.
LEMMA TakenSame ==
    ASSUME TakenInv,
           \A u \in Users :
              /\ Range(read'[u]) \cup Range(got'[u]) \subseteq Range(read[u]) \cup Range(got[u])
              /\ Taken(u) \subseteq Taken(u)'
              /\ \A v \in Users : sess[u][v] # None =>
                    sess'[u][v] # None /\ sess'[u][v].recv = sess[u][v].recv
              /\ \A v \in Users : sess[u][v] = None /\ sess'[u][v] # None =>
                    sess'[u][v].recv.half # 1 /\ sess'[u][v].recv.mixed = <<>>,
           \A u \in Users : \A m \in Range(read[u]) \cup Range(got[u]) : m.from \in Users
    PROVE  TakenInv'
<1> SUFFICES ASSUME NEW u \in Users
             PROVE  /\ \A m \in Range(read'[u]) \cup Range(got'[u]) :
                          sess'[u][m.from] # None /\ Consumed(sess'[u][m.from].recv, m)
                    /\ \A v \in Users : sess'[u][v] # None =>
                          /\ Range(sess'[u][v].recv.mixed) \ {0} \subseteq Taken(u)'
                          /\ sess'[u][v].recv.half = 1 /\ sess'[u][v].recv.mixed # <<>>
                                => sess'[u][v].recv.secret \in Taken(u)'
  BY DEF TakenInv
<1>1. \A m \in Range(read'[u]) \cup Range(got'[u]) :
         sess'[u][m.from] # None /\ Consumed(sess'[u][m.from].recv, m)
  BY DEF TakenInv
<1>2. ASSUME NEW v \in Users, sess'[u][v] # None
      PROVE  /\ Range(sess'[u][v].recv.mixed) \ {0} \subseteq Taken(u)'
             /\ sess'[u][v].recv.half = 1 /\ sess'[u][v].recv.mixed # <<>>
                   => sess'[u][v].recv.secret \in Taken(u)'
  <2>1. CASE sess[u][v] # None
    BY <2>1 DEF TakenInv
  <2>2. CASE sess[u][v] = None
    BY <1>2, <2>2, RangeEmpty
  <2> QED
    BY <2>1, <2>2
<1> QED
  BY <1>1, <1>2

LEMMA TakesTaken ==
    ASSUME DeliveryTypeInv, CoreInv, TakenInv, NEW u \in Users, NEW m \in Messages,
           NEW s \in Sessions, Takes(u, m, s)
    PROVE  TakenInv'
<1> DEFINE v == m.from
           c == m.chain
<1>1. /\ v \in Users /\ c \in Chains /\ m.mix \in Ids \cup {0}
      /\ c.mixed \in Seq(Ids \cup {0}) /\ s.recv = c
      /\ UNCHANGED <<read, dropped>>
      /\ \A w \in Users \ {u} : got'[w] = got[w] /\ sess'[w] = sess[w]
  BY Numbers DEF Takes, ghosts, DeliveryTypeInv
<1>2. /\ AfterDecrypt(s, m).recv = Advance(c, m.mix) /\ AfterDecrypt(s, m) # None
  BY <1>1, AfterDecryptType, NoneAssumption
<1>3. \A b \in Users : sess'[u][b] = IF b = v THEN AfterDecrypt(s, m) ELSE sess[u][b]
  BY <1>1 DEF Takes, DeliveryTypeInv
<1>4. m \in Range(todo[u]) /\ Range(got'[u]) = Range(got[u]) \cup {m} /\ Sound(m)
  BY GotGrows DEF CoreInv, MailInv
<1>5. \/ sess[u][v] # None /\ sess[u][v].recv = c
      \/ sess[u][v] = None /\ c.mixed = <<>>
  BY <1>1 DEF Takes, NewSession
<1>6. Taken(u) \cup {m.id} \subseteq Taken(u)'
  BY <1>1, <1>4 DEF Taken, IdsOf
<1>7. ASSUME NEW w \in Users \ {u}
      PROVE  /\ \A n \in Range(read'[w]) \cup Range(got'[w]) :
                   sess'[w][n.from] # None /\ Consumed(sess'[w][n.from].recv, n)
             /\ \A b \in Users : sess'[w][b] # None =>
                   /\ Range(sess'[w][b].recv.mixed) \ {0} \subseteq Taken(w)'
                   /\ sess'[w][b].recv.half = 1 /\ sess'[w][b].recv.mixed # <<>>
                         => sess'[w][b].recv.secret \in Taken(w)'
  <2>1. Taken(w)' = Taken(w)
    BY <1>1 DEF Taken, IdsOf
  <2> QED
    BY <1>1, <2>1 DEF TakenInv
<1>8. ASSUME NEW n \in Range(read'[u]) \cup Range(got'[u])
      PROVE  sess'[u][n.from] # None /\ Consumed(sess'[u][n.from].recv, n)
  <2>0. n \in Messages /\ n.from \in Users
    <3>1. n \in Range(mail[u])
      BY <1>1, <1>4 DEF CoreInv, MailInv
    <3> QED
      BY <3>1, Numbers
  <2>1. CASE n = m
    BY <1>2, <1>3, <2>0, <2>1, ConsumedOwn
  <2>2. CASE n # m
    <3>1. sess[u][n.from] # None /\ Consumed(sess[u][n.from].recv, n)
      BY <1>1, <1>4, <2>2 DEF TakenInv
    <3>2. CASE n.from # v
      BY <1>3, <2>0, <3>1, <3>2
    <3>3. CASE n.from = v
      <4>1. Consumed(c, n)
        BY <1>5, <3>1, <3>3
      <4>2. Consumed(Advance(c, m.mix), n)
        BY <1>1, <2>0, <4>1, ConsumedAdvance
      <4> QED
        BY <1>1, <1>2, <1>3, <3>3, <4>2
    <3> QED
      BY <3>2, <3>3
  <2> QED
    BY <2>1, <2>2
<1>9. /\ Range(Advance(c, m.mix).mixed) \ {0} \subseteq Taken(u)'
      /\ Advance(c, m.mix).half = 1 => Advance(c, m.mix).secret \in Taken(u)'
  <2>1. /\ Advance(c, m.mix).secret = c.secret /\ Advance(c, m.mix).half = c.half
        /\ Range(Advance(c, m.mix).mixed) = Range(c.mixed) \cup {m.mix}
    <3>1. Range(Append(c.mixed, m.mix)) = Range(c.mixed) \cup {m.mix}
      BY <1>1, RangeAppend
    <3> QED
      BY <1>1, <3>1, AdvanceType
  <2>2. Range(c.mixed) \ {0} \subseteq Taken(u)
    BY <1>1, <1>5, RangeEmpty DEF TakenInv
  <2>3. m.mix \in {0, m.id}
    BY <1>4 DEF Sound
  <2>4. c.half = 1 => c.secret \in Taken(u) \cup {m.id}
    <3>1. CASE c.mixed = <<>>
      BY <1>4, <3>1 DEF Sound
    <3>2. CASE c.mixed # <<>>
      BY <1>1, <1>5, <3>2 DEF TakenInv
    <3> QED
      BY <3>1, <3>2
  <2> QED
    BY <1>6, <2>1, <2>2, <2>3, <2>4
<1>10. ASSUME NEW b \in Users, sess'[u][b] # None
       PROVE  /\ Range(sess'[u][b].recv.mixed) \ {0} \subseteq Taken(u)'
              /\ sess'[u][b].recv.half = 1 /\ sess'[u][b].recv.mixed # <<>>
                    => sess'[u][b].recv.secret \in Taken(u)'
  <2>1. CASE b = v
    BY <1>2, <1>3, <1>9, <2>1
  <2>2. CASE b # v
    BY <1>3, <1>6, <1>10, <2>2 DEF TakenInv
  <2> QED
    BY <2>1, <2>2
<1> QED
  BY <1>7, <1>8, <1>10 DEF TakenInv

LEMMA TakenStep ==
    ASSUME DeliveryTypeInv, CoreInv, TakenInv, [Next]_vars
    PROVE  TakenInv'
<1>0. /\ \A u \in Users : \A m \in Range(read[u]) \cup Range(got[u]) : m.from \in Users
      /\ \A u \in Users : pc[u] # "decrypt" => Range(got[u]) \subseteq Range(read[u])
  <2>1. \A u \in Users : Range(read[u]) \cup Range(got[u]) \subseteq Messages
    BY RangeType DEF DeliveryTypeInv
  <2> QED
    BY <2>1, Numbers DEF CoreInv, MailInv
<1>1. ASSUME NEW x \in Users,
             (\E y \in Users : Send(x, y) \/ Connect(x, y)) \/ Store(x) \/ Fetch(x) \/ Skips(x)
      PROVE  TakenInv'
  <2>1. UNCHANGED <<sess, read, got, dropped>>
    BY <1>1 DEF Send, Connect, Store, Fetch, Skips, local, ghosts
  <2>2. \A u \in Users : Taken(u)' = Taken(u)
    BY <2>1 DEF Taken
  <2> QED
    BY <1>0, <2>1, <2>2, TakenSame
<1>2. ASSUME NEW x \in Users, Stops(x) PROVE TakenInv'
  <2>1. /\ UNCHANGED <<sess, read>> /\ got'[x] = <<>> /\ \A u \in Users \ {x} : got'[u] = got[u]
        /\ dropped \subseteq dropped' /\ (pc[x] = "decrypt" => IdsOf(got[x]) \subseteq dropped')
    BY <1>2 DEF Stops, End, DeliveryTypeInv
  <2>2. \A u \in Users : Range(read'[u]) \cup Range(got'[u]) \subseteq Range(read[u]) \cup Range(got[u])
    BY <2>1, RangeEmpty
  <2>3. IdsOf(got[x]) \subseteq IdsOf(read[x]) \cup dropped'
    BY <1>0, <2>1 DEF IdsOf
  <2>4. \A u \in Users : Taken(u) \subseteq Taken(u)'
    BY <2>1, <2>3 DEF Taken
  <2> QED
    BY <1>0, <2>1, <2>2, <2>4, TakenSame
<1>3. ASSUME NEW x \in Users, Prints(x) PROVE TakenInv'
  <2>1. UNCHANGED <<sess, got, dropped>> /\ \A u \in Users \ {x} : read'[u] = read[u]
    BY <1>3 DEF Prints, ghosts, DeliveryTypeInv
  <2>2. Range(read'[x]) = Range(read[x]) \cup Range(got[x])
    BY <1>3, ReadGrows
  <2>3. \A u \in Users : Range(read'[u]) \cup Range(got'[u]) \subseteq Range(read[u]) \cup Range(got[u])
    BY <2>1, <2>2
  <2>4. \A u \in Users : IdsOf(read[u]) \subseteq IdsOf(read'[u])
    BY <2>1, <2>2 DEF IdsOf
  <2>5. \A u \in Users : Taken(u) \subseteq Taken(u)'
    BY <2>1, <2>4 DEF Taken
  <2> QED
    BY <1>0, <2>1, <2>3, <2>5, TakenSame
<1>4. ASSUME NEW x \in Users, Confirm(x) PROVE TakenInv'
  <2> DEFINE y == to[x]
  <2>1. /\ UNCHANGED <<read, dropped>> /\ got'[x] = <<>> /\ \A u \in Users \ {x} : got'[u] = got[u]
        /\ pc[x] = "answer" /\ y \in Users /\ sess' = [sess EXCEPT ![x][y] = work[x]]
        /\ req[x] \in Messages /\ work[x] \in Sessions /\ RequestOK(x)
    BY <1>4, Numbers DEF Confirm, End, SaveSession, Sending, CoreInv, RequestInv, DeliveryTypeInv
  <2>2. BaseSession(x) \in Sessions
    <3>1. CASE sess[x][y] = None
      BY <2>1, <3>1, SessionType DEF BaseSession, Messages
    <3>2. CASE sess[x][y] # None
      BY <2>1, <3>2 DEF BaseSession, DeliveryTypeInv
    <3> QED
      BY <3>1, <3>2
  <2>3. work[x].recv = BaseSession(x).recv /\ work[x] # None
    BY <2>1, <2>2, AfterEncryptType, NoneAssumption DEF RequestOK
  <2>4. /\ sess[x][y] # None => work[x].recv = sess[x][y].recv
        /\ sess[x][y] = None => work[x].recv.half # 1 /\ work[x].recv.mixed = <<>>
    BY <2>3 DEF BaseSession, NewSession
  <2>5. \A a, b \in Users : sess'[a][b] = IF a = x /\ b = y THEN work[x] ELSE sess[a][b]
    BY <2>1 DEF DeliveryTypeInv
  <2>6. \A u \in Users : Range(read'[u]) \cup Range(got'[u]) \subseteq Range(read[u]) \cup Range(got[u])
    BY <2>1, RangeEmpty
  <2>7. IdsOf(got[x]) \subseteq IdsOf(read[x])
    BY <1>0, <2>1 DEF IdsOf
  <2>8. \A u \in Users : Taken(u) \subseteq Taken(u)'
    BY <2>1, <2>7 DEF Taken
  <2>9. \A u, v \in Users :
           /\ sess[u][v] # None => sess'[u][v] # None /\ sess'[u][v].recv = sess[u][v].recv
           /\ sess[u][v] = None /\ sess'[u][v] # None =>
                 sess'[u][v].recv.half # 1 /\ sess'[u][v].recv.mixed = <<>>
    BY <2>3, <2>4, <2>5
  <2> QED
    BY <1>0, <2>6, <2>8, <2>9, TakenSame
<1>5. CASE UNCHANGED vars
  BY <1>5 DEF vars, local, ghosts, TakenInv, Taken
<1> QED
  BY <1>1, <1>2, <1>3, <1>4, <1>5, TakesTaken, StepCases

-----------------------------------------------------------------------------
(* The order of what is read                                                *)

LEMMA OrderedAppend ==
    ASSUME NEW s \in Seq(Messages), NEW m \in Messages, Ordered(s),
           \A g \in Range(s) : g.from = m.from => g.id < m.id
    PROVE  Ordered(Append(s, m))
<1> DEFINE a == Append(s, m)
<1>1. /\ DOMAIN a = 1 .. Len(s) + 1 /\ DOMAIN s = 1 .. Len(s) /\ Len(s) \in Nat
      /\ \A i \in 1 .. Len(s) : a[i] = s[i]
      /\ a[Len(s) + 1] = m
  OBVIOUS
<1> HIDE DEF a
<1> SUFFICES ASSUME NEW i \in DOMAIN a, NEW j \in DOMAIN a, i < j, a[i].from = a[j].from
             PROVE  a[i].id < a[j].id
  BY DEF Ordered, a
<1>2. CASE j \in DOMAIN s
  <2>1. i \in DOMAIN s
    BY <1>1, <1>2
  <2> QED
    BY <1>1, <1>2, <2>1 DEF Ordered
<1>3. CASE j = Len(s) + 1
  <2>1. i \in DOMAIN s /\ a[j] = m
    BY <1>1, <1>3
  <2>2. a[i] \in Range(s)
    BY <1>1, <2>1 DEF Range
  <2> QED
    BY <2>1, <2>2
<1> QED
  BY <1>1, <1>2, <1>3

LEMMA OrderedConcat ==
    ASSUME NEW s \in Seq(Messages), NEW t \in Seq(Messages), Ordered(s), Ordered(t),
           \A r \in Range(s), g \in Range(t) : r.from = g.from => r.id < g.id
    PROVE  Ordered(s \o t)
<1> DEFINE c == s \o t
<1>1. /\ DOMAIN c = 1 .. Len(s) + Len(t) /\ DOMAIN s = 1 .. Len(s) /\ DOMAIN t = 1 .. Len(t)
      /\ Len(s) \in Nat /\ Len(t) \in Nat
      /\ \A i \in 1 .. Len(s) : c[i] = s[i]
      /\ \A i \in 1 .. Len(t) : c[Len(s) + i] = t[i]
  OBVIOUS
<1> HIDE DEF c
<1>2. \A i \in DOMAIN c : \/ i \in DOMAIN s /\ c[i] = s[i]
                          \/ /\ i - Len(s) \in DOMAIN t /\ i > Len(s)
                             /\ c[i] = t[i - Len(s)]
  <2> SUFFICES ASSUME NEW i \in DOMAIN c, i \notin DOMAIN s
               PROVE  i - Len(s) \in DOMAIN t /\ i > Len(s) /\ c[i] = t[i - Len(s)]
    BY <1>1
  <2>1. i - Len(s) \in DOMAIN t /\ i > Len(s) /\ i = Len(s) + (i - Len(s))
    BY <1>1
  <2> QED
    BY <1>1, <2>1
<1> SUFFICES ASSUME NEW i \in DOMAIN c, NEW j \in DOMAIN c, i < j, c[i].from = c[j].from
             PROVE  c[i].id < c[j].id
  BY DEF Ordered, c
<1>3. CASE j \in DOMAIN s
  <2>1. i \in DOMAIN s
    BY <1>1, <1>3
  <2> QED
    BY <1>1, <1>3, <2>1 DEF Ordered
<1>4. CASE i \in DOMAIN s /\ j \notin DOMAIN s
  <2>1. c[i] \in Range(s) /\ c[j] \in Range(t)
    BY <1>1, <1>2, <1>4 DEF Range
  <2> QED
    BY <2>1
<1>5. CASE i \notin DOMAIN s /\ j \notin DOMAIN s
  <2>1. /\ i - Len(s) \in DOMAIN t /\ j - Len(s) \in DOMAIN t /\ i - Len(s) < j - Len(s)
        /\ c[i] = t[i - Len(s)] /\ c[j] = t[j - Len(s)]
    BY <1>1, <1>2, <1>5
  <2> QED
    BY <2>1 DEF Ordered
<1> QED
  BY <1>3, <1>4, <1>5

LEMMA OrderInit == Init => OrderInv
BY RangeEmpty DEF Init, OrderInv, Ordered

LEMMA OrderStep ==
    ASSUME DeliveryTypeInv, CoreInv, TakenInv, OrderInv, [Next]_vars
    PROVE  OrderInv'
<1>1. ASSUME NEW x \in Users,
             (\E y \in Users : Send(x, y) \/ Connect(x, y)) \/ Store(x) \/ Skips(x)
      PROVE  OrderInv'
  <2>1. UNCHANGED <<read, got>> /\ \A u \in Users : pc'[u] = "decrypt" => pc[u] = "decrypt"
    BY <1>1 DEF Send, Connect, Store, Skips, Goto, local, DeliveryTypeInv
  <2> QED
    BY <2>1 DEF OrderInv, Ordered
<1>2. ASSUME NEW x \in Users, Stops(x) \/ Confirm(x) PROVE OrderInv'
  <2>1. /\ UNCHANGED read /\ got'[x] = <<>> /\ pc'[x] = "idle"
        /\ \A u \in Users \ {x} : got'[u] = got[u] /\ pc'[u] = pc[u]
    BY <1>2 DEF Stops, Confirm, End, Goto, DeliveryTypeInv
  <2>2. Ordered(got'[x])
    BY <2>1 DEF Ordered
  <2> QED
    BY <2>1, <2>2 DEF OrderInv
<1>3. ASSUME NEW x \in Users, Fetch(x) PROVE OrderInv'
  <2>1. /\ UNCHANGED <<read, got>> /\ got[x] = <<>> /\ \A u \in Users \ {x} : pc'[u] = pc[u]
    BY <1>3 DEF Fetch, Goto, DeliveryTypeInv
  <2> QED
    BY <2>1, RangeEmpty DEF OrderInv
<1>4. ASSUME NEW x \in Users, NEW m \in Messages, NEW s \in Sessions, Takes(x, m, s)
      PROVE  OrderInv'
  <2>1. /\ UNCHANGED <<read, pc>> /\ pc[x] = "decrypt" /\ got'[x] = Append(got[x], m)
        /\ \A u \in Users \ {x} : got'[u] = got[u]
        /\ got[x] \in Seq(Messages)
    BY <1>4 DEF Takes, DeliveryTypeInv
  <2>2. m \in Range(todo[x]) /\ Range(got'[x]) = Range(got[x]) \cup {m} /\ Sound(m)
    BY <1>4, GotGrows DEF CoreInv, MailInv
  <2>3. ASSUME NEW g \in Range(read[x]) \cup Range(got[x]), g.from = m.from
        PROVE  g.id < m.id
    <3>1. g \in Range(mail[x])
      BY DEF CoreInv, MailInv
    <3>2. g \in Messages /\ Sound(g)
      BY <3>1, Numbers DEF CoreInv, MailInv
    <3>3. sess[x][m.from] # None /\ Consumed(sess[x][m.from].recv, g)
      BY <2>3 DEF TakenInv
    <3>4. sess[x][m.from].recv = m.chain
      BY <1>4, <3>3 DEF Takes
    <3> QED
      BY <2>2, <3>2, <3>3, <3>4, ConsumedBefore
  <2>4. Ordered(got'[x])
    BY <2>1, <2>3, OrderedAppend DEF OrderInv
  <2>5. \A r \in Range(read[x]), g \in Range(got'[x]) : r.from = g.from => r.id < g.id
    BY <2>1, <2>2, <2>3 DEF OrderInv
  <2> QED
    BY <2>1, <2>4, <2>5 DEF OrderInv
<1>5. ASSUME NEW x \in Users, Prints(x) PROVE OrderInv'
  <2>1. /\ UNCHANGED got /\ pc[x] = "decrypt" /\ pc'[x] = "purge" /\ read'[x] = read[x] \o got[x]
        /\ \A u \in Users \ {x} : read'[u] = read[u] /\ pc'[u] = pc[u]
        /\ read[x] \in Seq(Messages) /\ got[x] \in Seq(Messages)
    BY <1>5 DEF Prints, Goto, DeliveryTypeInv
  <2>2. Ordered(read'[x])
    BY <2>1, OrderedConcat DEF OrderInv
  <2> QED
    BY <2>1, <2>2 DEF OrderInv
<1>6. CASE UNCHANGED vars
  BY <1>6 DEF vars, local, OrderInv
<1> QED
  BY <1>1, <1>2, <1>3, <1>4, <1>5, <1>6, StepCases

\* What a user has read of a sender is in the order it was sent, with nothing read
\* twice, and with nothing left out between but what a killed read lost or the sender
\* was not told of: for any users, messages, kills, lost answers and sessions that cross.
THEOREM ReadingKeepsOrder == Spec => []ReadInOrderOnce
<1> DEFINE Inv == SentInv /\ TakenInv /\ OrderInv
<1>1. Init => Inv
  BY SentInit, TakenInit, OrderInit
<1>2. DeliveryTypeInv /\ CoreInv /\ Inv /\ [Next]_vars => Inv'
  BY SentStep, TakenStep, OrderStep
<1>3. ASSUME DeliveryTypeInv, CoreInv, Inv PROVE ReadInOrderOnce
  <2> SUFFICES ASSUME NEW u \in Users, NEW r \in Range(read[u]), NEW m \in From(mail[u], r.from),
                      m.id < r.id, m.id \notin dropped \cup cut
               PROVE  m \in Range(read[u])
    BY <1>3 DEF ReadInOrderOnce, OrderInv, Ordered
  <2>1. /\ r \in Range(mail[u]) /\ m \in Range(mail[u]) /\ m.from = r.from
        /\ r \in Messages /\ m \in Messages /\ r.from \in Users
    BY <1>3, Numbers DEF From, CoreInv, MailInv
  <2>2. InChain(r.chain, m)
    BY <1>3, <2>1 DEF SentInv, From
  <2> DEFINE c == sess[u][r.from].recv
  <2>3. sess[u][r.from] # None /\ Consumed(c, r)
    BY <1>3 DEF TakenInv
  <2>4. /\ Range(c.mixed) \ {0} \subseteq Taken(u)
        /\ c.half = 1 /\ c.mixed # <<>> => c.secret \in Taken(u)
    BY <1>3, <2>1, <2>3 DEF TakenInv
  <2>5. m.id \in Taken(u)
    <3>1. CASE m.opens = 0
      <4>1. m.id \in Range(c.mixed) /\ m.id # 0
        BY <1>3, <2>1, <2>2, <2>3, <3>1, Numbers DEF InChain, Consumed
      <4> QED
        BY <2>4, <4>1
    <3>2. CASE m.opens # 0
      <4>1. c.secret = m.id /\ c.half = 1 /\ r.mix \in Range(c.mixed)
        BY <2>2, <2>3, <3>2 DEF InChain, Consumed
      <4>2. c.mixed # <<>>
        BY <4>1, RangeEmpty
      <4> QED
        BY <2>4, <4>1, <4>2
    <3> QED
      BY <3>1, <3>2
  <2>6. PICK n \in Range(read[u]) \cup Range(got[u]) : n.id = m.id
    BY <2>5 DEF Taken, IdsOf
  <2>7. n = m
    BY <1>3, <2>1, <2>6 DEF CoreInv, MailInv
  <2>8. CASE m \in Range(got[u])
    <3>1. pc[u] # "decrypt"
      <4>1. m.id \in Nat /\ r.id \in Nat
        BY <1>3, <2>1, Numbers
      <4> QED
        BY <1>3, <2>1, <2>8, <4>1 DEF OrderInv
    <3> QED
      BY <1>3, <2>8, <3>1 DEF CoreInv, MailInv
  <2> QED
    BY <2>6, <2>7, <2>8
<1> HIDE DEF Inv
<1> QED
  BY <1>1, <1>2, <1>3, DeliveryTypeHolds, CoreHolds, PTL DEF Spec
-----------------------------------------------------------------------------
(* The two sides of a conversation in step                                  *)

Position(m) == Len(m.chain.mixed)

\* c is d at an earlier time, or d itself.
Within(c, d) ==
    /\ c.secret = d.secret /\ c.half = d.half
    /\ Len(c.mixed) <= Len(d.mixed)
    /\ \A i \in 1 .. Len(c.mixed) : c.mixed[i] = d.mixed[i]

\* m is one of the messages that brought the chain to where it is.
Carried(m, chain) ==
    /\ Within(m.chain, chain) /\ Position(m) < Len(chain.mixed)
    /\ chain.mixed[Position(m) + 1] = m.mix

\* The relay holds exactly the messages M that brought the sending chain S to where it
\* is, in their order, and those before the receiving chain R are what was decrypted.
Direction(M, S, R, T) ==
    /\ \A m \in M : Carried(m, S)
    /\ \A n \in 0 .. Len(S.mixed) - 1 : \E m \in M : Position(m) = n
    /\ \A m, r \in M : m.id < r.id => Position(m) < Position(r)
    /\ Within(R, S)
    /\ \A m \in M : m.id \in T <=> Position(m) < Len(R.mixed)

LEMMA ChainParts ==
    ASSUME NEW c \in Chains
    PROVE  /\ c.mixed \in Seq(Ids \cup {0}) /\ Len(c.mixed) \in Nat
           /\ c.half \in {1, 2} /\ c.secret \in Ids
           /\ c = [secret |-> c.secret, half |-> c.half, mixed |-> c.mixed]
BY DEF Chains

LEMMA ChainsEqual ==
    ASSUME NEW c \in Chains, NEW d \in Chains, Within(c, d), Len(c.mixed) = Len(d.mixed)
    PROVE  c = d
<1>1. /\ c.mixed \in Seq(Ids \cup {0}) /\ d.mixed \in Seq(Ids \cup {0})
      /\ Len(c.mixed) \in Nat
  BY ChainParts
<1>2. c.mixed = d.mixed
  BY <1>1 DEF Within
<1>3. c.secret = d.secret /\ c.half = d.half
  BY DEF Within
<1> QED
  BY <1>2, <1>3, ChainParts

LEMMA WithinRefl == ASSUME NEW c \in Chains PROVE Within(c, c)
<1>1. Len(c.mixed) \in Nat
  BY ChainParts
<1> QED
  BY <1>1 DEF Within

LEMMA AdvanceParts ==
    ASSUME NEW c \in Chains, NEW x \in Ids \cup {0}
    PROVE  /\ Advance(c, x) \in Chains
           /\ Advance(c, x).secret = c.secret /\ Advance(c, x).half = c.half
           /\ Len(Advance(c, x).mixed) = Len(c.mixed) + 1
           /\ \A i \in 1 .. Len(c.mixed) : Advance(c, x).mixed[i] = c.mixed[i]
           /\ Advance(c, x).mixed[Len(c.mixed) + 1] = x
<1>1. c.mixed \in Seq(Ids \cup {0})
  BY ChainParts
<1>2. /\ Len(Append(c.mixed, x)) = Len(c.mixed) + 1
      /\ \A i \in 1 .. Len(c.mixed) : Append(c.mixed, x)[i] = c.mixed[i]
      /\ Append(c.mixed, x)[Len(c.mixed) + 1] = x
  BY <1>1
<1>3. /\ Advance(c, x) \in Chains
      /\ Advance(c, x).secret = c.secret /\ Advance(c, x).half = c.half
      /\ Advance(c, x).mixed = Append(c.mixed, x)
  BY AdvanceType
<1> QED
  BY <1>2, <1>3

LEMMA WithinAdvance ==
    ASSUME NEW c \in Chains, NEW d \in Chains, NEW x \in Ids \cup {0}, Within(c, d)
    PROVE  Within(c, Advance(d, x))
<1>1. Len(c.mixed) \in Nat /\ Len(d.mixed) \in Nat
  BY ChainParts
<1> DEFINE a == Advance(d, x)
<1>2. /\ a.secret = d.secret /\ a.half = d.half /\ Len(a.mixed) = Len(d.mixed) + 1
      /\ \A i \in 1 .. Len(d.mixed) : a.mixed[i] = d.mixed[i]
  BY AdvanceParts
<1> HIDE DEF a
<1>3. Within(c, a)
  BY <1>1, <1>2 DEF Within
<1> QED
  BY <1>3 DEF a

\* Facts about the messages of one sender that the lemmas below have in common.
OneSender(M) ==
    /\ M \subseteq Messages
    /\ \A m, r \in M : m.id = r.id => m = r

LEMMA MessageParts ==
    ASSUME NEW m \in Messages
    PROVE  /\ m.id \in Nat /\ m.chain \in Chains /\ Position(m) \in Nat /\ m.mix \in Ids \cup {0}
           /\ m.parses \in BOOLEAN
<1>1. m.id \in Nat /\ m.chain \in Chains /\ m.mix \in Ids \cup {0} /\ m.parses \in BOOLEAN
  BY DEF Messages, Ids
<1> QED
  BY <1>1, ChainParts DEF Position

\* A new message, made with the sending chain, is stored.
LEMMA DirectionGrows ==
    ASSUME NEW M, OneSender(M), NEW S \in Chains, NEW R \in Chains, NEW T,
           Direction(M, S, R, T), NEW m \in Messages, m.chain = S, m.id \notin T,
           \A r \in M : r.id < m.id
    PROVE  Direction(M \cup {m}, Advance(S, m.mix), R, T)
<1> DEFINE a == Advance(S, m.mix)
           N == M \cup {m}
<1>1. m.mix \in Ids \cup {0} /\ Len(S.mixed) \in Nat /\ Len(R.mixed) \in Nat /\ m.id \in Nat
  BY ChainParts, MessageParts
<1>2. /\ a \in Chains /\ Len(a.mixed) = Len(S.mixed) + 1
      /\ \A i \in 1 .. Len(S.mixed) : a.mixed[i] = S.mixed[i]
      /\ a.mixed[Len(S.mixed) + 1] = m.mix
  BY <1>1, AdvanceParts
<1>3. \A c \in Chains : Within(c, S) => Within(c, a)
  BY <1>1, WithinAdvance
<1> HIDE DEF a
<1>4. \A r \in M : r \in Messages /\ r.chain \in Chains /\ Position(r) \in Nat /\ r.id \in Nat
  BY MessageParts DEF OneSender
<1>5. /\ Position(m) = Len(S.mixed)
      /\ \A r \in M : Within(r.chain, S) /\ Position(r) < Len(S.mixed)
                      /\ S.mixed[Position(r) + 1] = r.mix
  BY DEF Direction, Carried, Position
<1>6. \A r \in N : Carried(r, a)
  <2>1. ASSUME NEW r \in M PROVE Carried(r, a)
    <3>1. Position(r) + 1 \in 1 .. Len(S.mixed)
      BY <1>1, <1>4, <1>5
    <3> QED
      BY <1>1, <1>2, <1>3, <1>4, <1>5, <3>1 DEF Carried
  <2>2. Carried(m, a)
    <3>1. Within(m.chain, a)
      BY <1>3, WithinRefl
    <3> QED
      BY <1>1, <1>2, <1>5, <3>1 DEF Carried
  <2> QED
    BY <2>1, <2>2
<1>7. \A n \in 0 .. Len(a.mixed) - 1 : \E r \in N : Position(r) = n
  <2> SUFFICES ASSUME NEW n \in 0 .. Len(S.mixed) PROVE \E r \in N : Position(r) = n
    BY <1>1, <1>2
  <2>1. CASE n = Len(S.mixed)
    BY <1>5, <2>1
  <2>2. CASE n # Len(S.mixed)
    <3>1. n \in 0 .. Len(S.mixed) - 1
      BY <1>1, <2>2
    <3> QED
      BY <3>1 DEF Direction
  <2> QED
    BY <2>1, <2>2
<1>8. \A r, q \in N : r.id < q.id => Position(r) < Position(q)
  <2>1. \A r, q \in M : r.id < q.id => Position(r) < Position(q)
    BY DEF Direction
  <2>2. \A r \in M : ~(m.id < r.id)
    BY <1>1, <1>4
  <2>3. ~(m.id < m.id)
    BY <1>1
  <2> QED
    BY <1>5, <2>1, <2>2, <2>3
<1>9. Within(R, a) /\ Len(R.mixed) <= Len(S.mixed)
  BY <1>3 DEF Direction, Within
<1>10. \A r \in N : r.id \in T <=> Position(r) < Len(R.mixed)
  <2>1. ~(Position(m) < Len(R.mixed))
    BY <1>1, <1>5, <1>9
  <2> QED
    BY <2>1 DEF Direction
<1> HIDE DEF N
<1>11. Direction(N, a, R, T)
  BY <1>6, <1>7, <1>8, <1>9, <1>10 DEF Direction
<1> QED
  BY <1>11 DEF a, N

\* The message the receiving chain waits for is decrypted.
LEMMA DirectionTakes ==
    ASSUME NEW M, OneSender(M), NEW S \in Chains, NEW T, NEW m \in M,
           Direction(M, S, m.chain, T)
    PROVE  Direction(M, S, Advance(m.chain, m.mix), T \cup {m.id})
<1> DEFINE c == m.chain
           a == Advance(c, m.mix)
           p == Position(m)
<1>1. /\ c \in Chains /\ m.mix \in Ids \cup {0} /\ p \in Nat /\ Len(S.mixed) \in Nat
      /\ p = Len(c.mixed)
  BY ChainParts, MessageParts DEF OneSender, Position
<1>2. /\ a.secret = c.secret /\ a.half = c.half /\ Len(a.mixed) = p + 1
      /\ \A i \in 1 .. p : a.mixed[i] = c.mixed[i]
      /\ a.mixed[p + 1] = m.mix
  BY <1>1, AdvanceParts
<1>3. Within(c, S) /\ p < Len(S.mixed) /\ S.mixed[p + 1] = m.mix
  BY DEF Direction, Carried
<1> HIDE DEF a
<1>4. Within(a, S)
  <2>1. \A i \in 1 .. p + 1 : a.mixed[i] = S.mixed[i]
    <3>1. \A i \in 1 .. p + 1 : i \in 1 .. p \/ i = p + 1
      BY <1>1
    <3> QED
      BY <1>1, <1>2, <1>3, <3>1 DEF Within
  <2> QED
    BY <1>1, <1>2, <1>3, <2>1 DEF Within
<1>5. ASSUME NEW r \in M
      PROVE  r.id \in T \cup {m.id} <=> Position(r) < p + 1
  <2>1. /\ Position(r) \in Nat /\ r.id \in Nat /\ m.id \in Nat
        /\ r.id = m.id => r = m
    BY MessageParts DEF OneSender
  <2>2. /\ r.id \in T <=> Position(r) < p
        /\ r.id < m.id => Position(r) < p
        /\ m.id < r.id => p < Position(r)
    BY <1>1 DEF Direction
  <2> QED
    BY <1>1, <2>1, <2>2
<1>6. \A r \in M : r.id \in T \cup {m.id} <=> Position(r) < Len(a.mixed)
  BY <1>2, <1>5
<1>7. Direction(M, S, a, T \cup {m.id})
  BY <1>4, <1>6 DEF Direction
<1> QED
  BY <1>7 DEF a

\* The first message that was not decrypted is the one the receiving chain waits for.
LEMMA DirectionNext ==
    ASSUME NEW M, OneSender(M), NEW S \in Chains, NEW R \in Chains, NEW T,
           Direction(M, S, R, T), NEW m \in M, m.id \notin T,
           \A r \in M : r.id < m.id => r.id \in T
    PROVE  R = m.chain
<1> DEFINE p == Position(m)
           k == Len(R.mixed)
<1>1. /\ m.chain \in Chains /\ p \in Nat /\ k \in Nat /\ m.id \in Nat /\ Len(S.mixed) \in Nat
      /\ p = Len(m.chain.mixed)
  BY ChainParts, MessageParts DEF OneSender, Position
<1>2. /\ Within(m.chain, S) /\ p < Len(S.mixed) /\ Within(R, S) /\ ~(p < k)
  BY DEF Direction, Carried
<1>3. ~(k < p)
  <2> SUFFICES ASSUME k < p PROVE FALSE
    OBVIOUS
  <2>1. k \in 0 .. Len(S.mixed) - 1
    BY <1>1, <1>2
  <2>2. PICK r \in M : Position(r) = k
    BY <2>1 DEF Direction
  <2>3. r.id \in Nat /\ (r.id = m.id => r = m)
    BY MessageParts DEF OneSender
  <2>4. /\ r.id \in T <=> Position(r) < k
        /\ m.id < r.id => p < Position(r)
    BY DEF Direction
  <2>5. ~(r.id < m.id)
    BY <1>1, <2>2, <2>4
  <2>6. r.id # m.id /\ ~(m.id < r.id)
    BY <1>1, <2>2, <2>3, <2>4
  <2> QED
    BY <1>1, <2>3, <2>5, <2>6
<1>4. k = p
  BY <1>1, <1>2, <1>3
<1>5. /\ R.secret = m.chain.secret /\ R.half = m.chain.half
      /\ \A i \in 1 .. k : R.mixed[i] = m.chain.mixed[i]
  BY <1>1, <1>2, <1>4 DEF Within
<1>6. Within(R, m.chain)
  BY <1>1, <1>4, <1>5 DEF Within
<1> QED
  BY <1>1, <1>4, <1>6, ChainsEqual

\* Nothing was sent yet.
LEMMA DirectionFresh ==
    ASSUME NEW S \in Chains, S.mixed = <<>>, NEW T
    PROVE  Direction({}, S, S, T)
<1>1. Within(S, S) /\ Len(S.mixed) = 0
  BY WithinRefl
<1>2. \A n \in 0 .. Len(S.mixed) - 1 : FALSE
  BY <1>1
<1> QED
  BY <1>1, <1>2 DEF Direction
\* The session u has for v: the one in memory once the relay has stored the message.
Held(u, v) == IF pc[u] = "answer" /\ to[u] = v THEN work[u] ELSE sess[u][v]

\* The chain that what comes from the other side is decrypted with.
Listening(here, there) ==
    IF here # None THEN here.recv
    ELSE [secret |-> there.send.secret, half |-> 1, mixed |-> <<>>]

\* M are the entries for the side `here' from the side `there', T what was decrypted.
Agree(M, here, there, T) ==
    IF there = None
    THEN /\ M = {}
         /\ here # None =>
              /\ here.send.half = 1
              /\ here.recv = [secret |-> here.send.secret, half |-> 2, mixed |-> <<>>]
    ELSE Direction(M, there.send, Listening(here, there), T)

InStep(u, v) == Agree(From(mail[u], v), Held(u, v), Held(v, u), Taken(u))

\* The sessions of two users agree unless their conversation was upset.
StepInv == \A u \in Users : \A v \in Users \ {u} : ~Upset(u, v) => InStep(u, v)

\* Nobody sends to itself, and what was lost or missed was stored.
KnownInv ==
    /\ \A id \in dropped \cup missed : \E u \in Users : id \in IdsOf(mail[u])
    /\ \A u \in Users : \A m \in Range(mail[u]) : m.from # u
    /\ \A u \in Users : Sending(u) => to[u] # u

\* A read command tries the entries in order, and has decrypted all that came before.
PassOK(u) ==
    /\ Ordered(todo[u])
    /\ \A t \in Range(todo[u]), g \in Range(got[u]) : t.from = g.from => g.id < t.id
    /\ \A t \in Range(todo[u]) : ~Upset(u, t.from) =>
          \A r \in From(mail[u], t.from) :
              r.id < t.id /\ r \notin Range(todo[u]) => r.id \in Taken(u)

PassInv == \A u \in Users : Ordered(mail[u]) /\ (pc[u] = "decrypt" => PassOK(u))

LEMMA UpsetEither == ASSUME NEW u, NEW v PROVE Upset(u, v) <=> Upset(v, u)
BY DEF Upset

LEMMA UpsetStays ==
    ASSUME NEW u \in Users, NEW v \in Users, Upset(u, v), cut \subseteq cut',
           \A a \in Users : Range(mail[a]) \subseteq Range(mail'[a])
    PROVE  Upset(u, v)'
<1> DEFINE A == From(mail[u], v) \cup From(mail[v], u)
           B == From(mail'[u], v) \cup From(mail'[v], u)
<1>1. A \subseteq B
  BY DEF From
<1>2. \/ \E m \in A : m.id \in cut \/ ~m.parses
      \/ \E m, n \in A : m.opens # 0 /\ n.opens # 0 /\ m.from # n.from
  BY DEF Upset
<1> HIDE DEF A, B
<1>3. \/ \E m \in B : m.id \in cut' \/ ~m.parses
      \/ \E m, n \in B : m.opens # 0 /\ n.opens # 0 /\ m.from # n.from
  BY <1>1, <1>2
<1> QED
  BY <1>3 DEF Upset, B

LEMMA CutGrows ==
    ASSUME DeliveryTypeInv, [Next]_vars
    PROVE  cut \subseteq cut'
<1>1. ASSUME NEW x \in Users,
             \/ \E y \in Users : Send(x, y) \/ Connect(x, y)
             \/ Stops(x) \/ Store(x) \/ Confirm(x) \/ Fetch(x) \/ Skips(x) \/ Prints(x)
             \/ \E m \in Messages, s \in Sessions : Takes(x, m, s)
      PROVE  cut \subseteq cut'
  BY <1>1 DEF Send, Connect, Stops, Store, Confirm, Fetch, Skips, Prints, Takes, ghosts
<1> QED
  BY <1>1, StepCases DEF vars, ghosts

LEMMA UpsetForever ==
    ASSUME DeliveryTypeInv, [Next]_vars, NEW u \in Users, NEW v \in Users, Upset(u, v)
    PROVE  Upset(u, v)'
BY CutGrows, MailGrows, UpsetStays

LEMMA FromOneSender ==
    ASSUME DeliveryTypeInv, MailInv, NEW u \in Users, NEW v
    PROVE  OneSender(From(mail[u], v))
<1>1. Range(mail[u]) \subseteq Messages
  BY Numbers
<1> QED
  BY <1>1 DEF OneSender, From, MailInv

LEMMA BaseType ==
    ASSUME DeliveryTypeInv, NEW u \in Users, Sending(u)
    PROVE  BaseSession(u) \in Sessions /\ req[u] \in Messages /\ to[u] \in Users
<1>1. req[u] \in Messages /\ to[u] \in Users /\ req[u].id \in Ids
  BY DEF Sending, DeliveryTypeInv, Messages
<1>2. CASE sess[u][to[u]] = None
  BY <1>1, <1>2, SessionType DEF BaseSession
<1>3. CASE sess[u][to[u]] # None
  BY <1>1, <1>3 DEF BaseSession, DeliveryTypeInv
<1> QED
  BY <1>1, <1>2, <1>3

LEMMA HeldType ==
    ASSUME DeliveryTypeInv, CoreInv, NEW u \in Users, NEW v \in Users, Held(u, v) # None
    PROVE  /\ Held(u, v) \in Sessions
           /\ Held(u, v).send \in Chains /\ Held(u, v).recv \in Chains
           /\ Held(u, v).send.half = 1 => Len(Held(u, v).send.mixed) > 0
<1>1. CASE pc[u] = "answer" /\ to[u] = v
  <2>1. Sending(u) /\ RequestOK(u) /\ Held(u, v) = work[u]
    BY <1>1 DEF Sending, CoreInv, RequestInv, Held
  <2>2. BaseSession(u) \in Sessions /\ req[u] \in Messages
    BY <2>1, BaseType
  <2>3. /\ work[u] \in Sessions /\ work[u].send = Advance(BaseSession(u).send, req[u].mix)
    BY <2>1, <2>2, AfterEncryptType DEF RequestOK
  <2>4. BaseSession(u).send \in Chains /\ req[u].mix \in Ids \cup {0}
    BY <2>2, Numbers
  <2>5. Len(work[u].send.mixed) = Len(BaseSession(u).send.mixed) + 1
    BY <2>3, <2>4, AdvanceParts
  <2> QED
    BY <2>1, <2>3, <2>4, <2>5, ChainParts, Numbers
<1>2. CASE ~(pc[u] = "answer" /\ to[u] = v)
  <2>1. Held(u, v) = sess[u][v] /\ sess[u][v] \in Sessions
    BY <1>2 DEF Held, DeliveryTypeInv
  <2>2. sess[u][v].send.half = 1 => sess[u][v].send.mixed # <<>>
    BY <2>1 DEF CoreInv, SessInv
  <2>3. sess[u][v].send \in Chains /\ sess[u][v].recv \in Chains
    BY <2>1, Numbers
  <2>4. sess[u][v].send.mixed \in Seq(Ids \cup {0})
    BY <2>3, ChainParts
  <2> QED
    BY <2>1, <2>2, <2>3, <2>4
<1> QED
  BY <1>1, <1>2

-----------------------------------------------------------------------------
(* What is known of the mailboxes                                           *)

LEMMA KnownInit == Init => KnownInv
BY RangeEmpty DEF Init, KnownInv, Sending

LEMMA KnownStep ==
    ASSUME DeliveryTypeInv, CoreInv, KnownInv, [Next]_vars
    PROVE  KnownInv'
<1>1. \A u \in Users : IdsOf(mail[u]) \subseteq IdsOf(mail'[u])
  BY MailGrows DEF IdsOf
<1>2. dropped' \cup missed' \subseteq dropped \cup missed \cup UNION {IdsOf(mail[u]) : u \in Users}
  <2>1. ASSUME NEW x \in Users, Stops(x)
        PROVE  dropped' \subseteq dropped \cup IdsOf(mail[x]) /\ missed' = missed
    <3>1. IdsOf(got[x]) \subseteq IdsOf(mail[x])
      BY DEF IdsOf, CoreInv, MailInv
    <3> QED
      BY <2>1, <3>1 DEF Stops
  <2>2. ASSUME NEW x \in Users, Skips(x)
        PROVE  missed' \subseteq missed \cup IdsOf(mail[x]) /\ dropped' = dropped
    <3>1. todo[x] \in Seq(Messages) /\ todo[x] # <<>>
      BY <2>2 DEF Skips, DeliveryTypeInv
    <3>2. Head(todo[x]) \in Range(mail[x])
      BY <3>1, RangeTail DEF CoreInv, MailInv
    <3>3. Head(todo[x]).id \in IdsOf(mail[x])
      BY <3>2 DEF IdsOf
    <3> QED
      BY <2>2, <3>3 DEF Skips
  <2>3. ASSUME NEW x \in Users,
               \/ \E y \in Users : Send(x, y) \/ Connect(x, y)
               \/ Store(x) \/ Confirm(x) \/ Fetch(x) \/ Prints(x)
               \/ \E m \in Messages, s \in Sessions : Takes(x, m, s)
        PROVE  UNCHANGED <<dropped, missed>>
    BY <2>3 DEF Send, Connect, Store, Confirm, Fetch, Prints, Takes, ghosts
  <2>4. CASE UNCHANGED vars
    BY <2>4 DEF vars, ghosts
  <2> QED
    BY <2>1, <2>2, <2>3, <2>4, StepCases
<1>3. \A id \in dropped' \cup missed' : \E u \in Users : id \in IdsOf(mail'[u])
  BY <1>1, <1>2 DEF KnownInv
<1>4. ASSUME NEW x \in Users, Store(x)
      PROVE  /\ \A u \in Users : \A m \in Range(mail'[u]) : m.from # u
             /\ \A u \in Users : Sending(u)' => to'[u] # u
  <2>1. /\ Sending(x) /\ RequestOK(x) /\ to[x] # x /\ to' = to /\ to[x] \in Users
        /\ req[x] \in Messages /\ \A u \in Users : Sending(u)' => Sending(u)
    BY <1>4 DEF Store, Goto, Sending, CoreInv, RequestInv, KnownInv, local, DeliveryTypeInv
  <2>2. /\ mail[to[x]] \in Seq(Messages) /\ mail'[to[x]] = Append(mail[to[x]], req[x])
        /\ \A u \in Users \ {to[x]} : mail'[u] = mail[u]
    BY <1>4, <2>1 DEF Store, DeliveryTypeInv
  <2>3. Range(mail'[to[x]]) = Range(mail[to[x]]) \cup {req[x]}
    BY <2>1, <2>2, RangeAppend
  <2>4. req[x].from = x
    BY <2>1 DEF RequestOK
  <2>5. \A u \in Users : \A m \in Range(mail'[u]) : m.from # u
    BY <2>1, <2>2, <2>3, <2>4 DEF KnownInv
  <2> QED
    BY <2>1, <2>5 DEF KnownInv
<1>5. ASSUME NEW x \in Users, NEW y \in Users, Send(x, y)
      PROVE  /\ \A u \in Users : \A m \in Range(mail'[u]) : m.from # u
             /\ \A u \in Users : Sending(u)' => to'[u] # u
  BY <1>5 DEF Send, Goto, Sending, KnownInv, DeliveryTypeInv
<1>6. ASSUME NEW x \in Users, OnlyMoves(x)
      PROVE  /\ \A u \in Users : \A m \in Range(mail'[u]) : m.from # u
             /\ \A u \in Users : Sending(u)' => to'[u] # u
  BY <1>6 DEF OnlyMoves, Sending, KnownInv
<1>7. CASE UNCHANGED vars
  <2>1. UNCHANGED <<mail, pc, to>>
    BY <1>7 DEF vars, local
  <2> QED
    BY <1>3, <2>1 DEF KnownInv, Sending
<1> QED
  BY <1>3, <1>4, <1>5, <1>6, <1>7, StepCases, MovesSteps DEF KnownInv
-----------------------------------------------------------------------------
(* Sessions stay in step                                                    *)

LEMMA StepInit == Init => StepInv
<1>1. ASSUME Init, NEW u \in Users, NEW v \in Users \ {u} PROVE InStep(u, v)
  <2>1. /\ Held(u, v) = None /\ Held(v, u) = None /\ From(mail[u], v) = {}
    BY <1>1, RangeEmpty DEF Init, Held, From
  <2> QED
    BY <2>1 DEF InStep, Agree
<1> QED
  BY <1>1 DEF StepInv

LEMMA AgreeIds ==
    ASSUME NEW M, NEW here, NEW there, NEW T, NEW U, Agree(M, here, there, T),
           \A m \in M : m.id \in U <=> m.id \in T
    PROVE  Agree(M, here, there, U)
BY DEF Agree, Direction

\* Nothing that matters to a conversation changes, unless it is upset.
LEMMA StepFrame ==
    ASSUME StepInv, UNCHANGED mail, cut \subseteq cut',
           \A a \in Users : \A b \in Users \ {a} : Held(a, b)' = Held(a, b) \/ Upset(a, b)',
           \A a \in Users : \A m \in Range(mail[a]) : m.id \in Taken(a)' <=> m.id \in Taken(a)
    PROVE  StepInv'
<1> SUFFICES ASSUME NEW u \in Users, NEW v \in Users \ {u}, ~Upset(u, v)'
             PROVE  InStep(u, v)'
  BY DEF StepInv
<1>1. ~Upset(u, v) /\ ~Upset(v, u)'
  BY UpsetStays, UpsetEither DEF Upset
<1>2. Held(u, v)' = Held(u, v) /\ Held(v, u)' = Held(v, u)
  BY <1>1
<1>3. Agree(From(mail[u], v), Held(u, v), Held(v, u), Taken(u))
  BY <1>1 DEF StepInv, InStep
<1>4. PICK T, U : T = Taken(u) /\ U = Taken(u)'
  OBVIOUS
<1>5. PICK M, h, t : M = From(mail[u], v) /\ h = Held(u, v) /\ t = Held(v, u)
  OBVIOUS
<1>6. \A m \in M : m.id \in U <=> m.id \in T
  BY <1>4, <1>5 DEF From
<1>7. Agree(M, h, t, U)
  BY <1>3, <1>4, <1>5, <1>6, AgreeIds
<1>8. From(mail[u], v)' = M
  BY <1>5 DEF From
<1> QED
  BY <1>2, <1>4, <1>5, <1>7, <1>8 DEF InStep

LEMMA TakenAgrees ==
    ASSUME DeliveryTypeInv, CoreInv, NEW x \in Users,
           UNCHANGED <<mail, read>>, got'[x] = <<>>, \A u \in Users \ {x} : got'[u] = got[u],
           dropped \subseteq dropped', dropped' \subseteq (dropped \cup IdsOf(got[x])),
           pc[x] = "decrypt" => IdsOf(got[x]) \subseteq dropped'
    PROVE  \A a \in Users : \A m \in Range(mail[a]) : m.id \in Taken(a)' <=> m.id \in Taken(a)
<1>1. IdsOf(got'[x]) = {} /\ IdsOf(got[x]) \subseteq IdsOf(mail[x])
  BY RangeEmpty DEF IdsOf, CoreInv, MailInv
<1>2. IdsOf(got[x]) \subseteq IdsOf(read[x]) \cup dropped'
  BY DEF IdsOf, CoreInv, MailInv
<1>3. \A m \in Range(mail[x]) : m.id \in Taken(x)' <=> m.id \in Taken(x)
  BY <1>1, <1>2 DEF Taken
<1>4. ASSUME NEW a \in Users \ {x}, NEW m \in Range(mail[a])
      PROVE  m.id \in Taken(a)' <=> m.id \in Taken(a)
  <2>1. m.id \notin IdsOf(mail[x])
    BY DEF IdsOf, CoreInv, MailInv
  <2>2. m.id \in dropped' <=> m.id \in dropped
    BY <1>1, <2>1
  <2> QED
    BY <2>2 DEF Taken
<1> QED
  BY <1>3, <1>4

\* The steps that change no session and store nothing.
LEMMA QuietStep ==
    ASSUME DeliveryTypeInv, CoreInv, StepInv, NEW x \in Users,
           \/ \E y \in Users : Send(x, y) \/ Connect(x, y)
           \/ Fetch(x) \/ Skips(x) \/ Prints(x)
    PROVE  StepInv'
<1>1. UNCHANGED <<mail, sess, cut, dropped>>
  BY DEF Send, Connect, Fetch, Skips, Prints, ghosts
<1>2. /\ pc[x] # "answer" /\ pc'[x] # "answer"
      /\ \A a \in Users \ {x} : pc'[a] = pc[a] /\ to'[a] = to[a] /\ work'[a] = work[a]
  <2>1. CASE \E y \in Users : Send(x, y)
    <3>1. PICK y \in Users : Send(x, y)
      BY <2>1
    <3>2. PICK m \in Messages, s \in Sessions : Makes(x, y, m, s)
      BY <3>1, SendMakes
    <3> QED
      BY <3>1, <3>2 DEF Send, Makes, Goto, DeliveryTypeInv
  <2>2. CASE (\E y \in Users : Connect(x, y)) \/ Fetch(x) \/ Skips(x) \/ Prints(x)
    BY <2>2 DEF Connect, Fetch, Skips, Prints, Goto, DeliveryTypeInv
  <2> QED
    BY <2>1, <2>2
<1>3. \A a \in Users : \A b \in Users \ {a} : Held(a, b)' = Held(a, b)
  BY <1>1, <1>2 DEF Held
<1>4. \A a \in Users : Taken(a)' = Taken(a)
  <2>1. CASE Prints(x)
    <3>1. /\ got' = got /\ Range(read'[x]) = Range(read[x]) \cup Range(got[x])
          /\ \A a \in Users \ {x} : read'[a] = read[a]
      BY <2>1, ReadGrows DEF Prints, DeliveryTypeInv
    <3>2. Taken(x)' = Taken(x)
      BY <1>1, <3>1 DEF Taken, IdsOf
    <3> QED
      BY <1>1, <3>1, <3>2 DEF Taken
  <2>2. CASE ~Prints(x)
    <3>1. UNCHANGED <<got, read>>
      BY <2>2 DEF Send, Connect, Fetch, Skips
    <3> QED
      BY <1>1, <3>1 DEF Taken
  <2> QED
    BY <2>1, <2>2
<1> QED
  BY <1>1, <1>3, <1>4, StepFrame

LEMMA StopsStep ==
    ASSUME DeliveryTypeInv, CoreInv, StepInv, NEW x \in Users, Stops(x)
    PROVE  StepInv'
<1>1. /\ UNCHANGED <<mail, sess, read>> /\ cut \subseteq cut' /\ got'[x] = <<>>
      /\ \A a \in Users \ {x} : /\ pc'[a] = pc[a] /\ to'[a] = to[a] /\ work'[a] = work[a]
                                /\ got'[a] = got[a]
      /\ pc'[x] = "idle"
      /\ dropped \subseteq dropped' /\ dropped' \subseteq (dropped \cup IdsOf(got[x]))
      /\ pc[x] = "decrypt" => IdsOf(got[x]) \subseteq dropped'
  BY DEF Stops, End, Goto, DeliveryTypeInv
<1>2. ASSUME NEW a \in Users, NEW b \in Users \ {a}, Held(a, b)' # Held(a, b)
      PROVE  Upset(a, b)'
  <2>1. a = x /\ pc[x] = "answer" /\ to[x] = b
    BY <1>1, <1>2 DEF Held
  <2>2. req[x] \in Range(mail[b]) /\ req[x].from = x /\ req[x].id \in cut'
    BY <2>1 DEF Stops, Sending, CoreInv, RequestInv, RequestOK
  <2>3. req[x] \in From(mail'[b], a)
    BY <1>1, <2>1, <2>2 DEF From
  <2> QED
    BY <2>2, <2>3 DEF Upset
<1>3. \A a \in Users : \A m \in Range(mail[a]) : m.id \in Taken(a)' <=> m.id \in Taken(a)
  BY <1>1, TakenAgrees
<1> QED
  BY <1>1, <1>2, <1>3, StepFrame

LEMMA ConfirmStep ==
    ASSUME DeliveryTypeInv, CoreInv, StepInv, NEW x \in Users, Confirm(x)
    PROVE  StepInv'
<1>1. /\ UNCHANGED <<mail, read, cut, dropped>> /\ got'[x] = <<>>
      /\ \A a \in Users \ {x} : /\ pc'[a] = pc[a] /\ to'[a] = to[a] /\ work'[a] = work[a]
                                /\ got'[a] = got[a]
      /\ pc[x] = "answer" /\ pc'[x] = "idle"
      /\ \A a, b \in Users : sess'[a][b] = IF a = x /\ b = to[x] THEN work[x] ELSE sess[a][b]
  BY DEF Confirm, End, Goto, SaveSession, DeliveryTypeInv
<1>2. \A a \in Users : \A b \in Users \ {a} : Held(a, b)' = Held(a, b)
  BY <1>1 DEF Held
<1>3. \A a \in Users : \A m \in Range(mail[a]) : m.id \in Taken(a)' <=> m.id \in Taken(a)
  BY <1>1, TakenAgrees
<1> QED
  BY <1>1, <1>2, <1>3, StepFrame

\* A message that opens a session, when the other side has opened one too.
LEMMA OpenersCross ==
    ASSUME DeliveryTypeInv, CoreInv, NEW u \in Users, NEW v \in Users,
           Held(v, u) # None, Held(v, u).send.half = 1, InStep(u, v)
    PROVE  \E r \in From(mail[u], v) : r.opens # 0
<1> DEFINE S == Held(v, u).send
           M == From(mail[u], v)
<1>1. S \in Chains /\ Len(S.mixed) \in Nat /\ Len(S.mixed) > 0
  BY HeldType, ChainParts
<1>2. Direction(M, S, Listening(Held(u, v), Held(v, u)), Taken(u))
  BY DEF InStep, Agree
<1>3. 0 \in 0 .. Len(S.mixed) - 1
  BY <1>1
<1>4. PICK r \in M : Position(r) = 0
  BY <1>2, <1>3 DEF Direction
<1>5. Within(r.chain, S)
  BY <1>2 DEF Direction, Carried
<1>6. r \in Range(mail[u]) /\ r \in Messages /\ Sound(r)
  BY Numbers DEF From, CoreInv, MailInv
<1>7. r.chain.mixed \in Seq(Ids \cup {0}) /\ Len(r.chain.mixed) = 0
  BY <1>4, <1>6, Numbers, ChainParts DEF Position
<1>8. r.chain.mixed = <<>> /\ r.chain.half = 1
  BY <1>5, <1>7 DEF Within
<1> QED
  BY <1>6, <1>8 DEF Sound
\* Both directions of a conversation after a message of u for v was stored.
LEMMA StoreAgrees ==
    ASSUME DeliveryTypeInv, CoreInv, KnownInv, StepInv, NEW u \in Users, NEW v \in Users,
           pc[u] = "request", to[u] = v, u # v,
           ~Upset(u, v),
           ~\E r \in From(mail[u], v) : r.opens # 0 /\ req[u].opens # 0
    PROVE  /\ Agree(From(mail[v], u) \cup {req[u]}, Held(v, u), work[u], Taken(v))
           /\ Agree(From(mail[u], v), work[u], Held(v, u), Taken(u))
<1> DEFINE m == req[u]
           b == BaseSession(u)
           M == From(mail[v], u)
           h == Held(v, u)
           T == Taken(v)
<1>1. /\ Sending(u) /\ RequestOK(u) /\ m \in Messages /\ b \in Sessions
      /\ work[u] \in Sessions /\ work[u] # None
  BY BaseType, Numbers, NoneAssumption DEF Sending, CoreInv, RequestInv
<1>2. /\ Sound(m) /\ m.id \in Nat /\ m.id # 0 /\ m.chain = b.send /\ m.chain \in Chains
      /\ m.mix \in Ids \cup {0}
  BY <1>1, Numbers DEF RequestOK
<1>3. /\ work[u].send = Advance(m.chain, m.mix) /\ work[u].recv = b.recv
  BY <1>1, <1>2, AfterEncryptType DEF RequestOK
<1>4. /\ work[u].send.secret = m.chain.secret /\ work[u].send.half = m.chain.half
  BY <1>2, <1>3, AdvanceType
<1>5. m.id \notin T
  <2>1. \A w \in Users : m.id \notin IdsOf(mail[w])
    BY <1>1 DEF RequestOK, IdsOf
  <2>2. IdsOf(read[v]) \cup IdsOf(got[v]) \subseteq IdsOf(mail[v])
    BY DEF IdsOf, CoreInv, MailInv
  <2> QED
    BY <2>1, <2>2 DEF Taken, KnownInv
<1>6. \A r \in M : r.id < m.id
  <2>1. \A r \in M : r.from = u /\ r \in Range(mail[v]) /\ r # m
    BY <1>1 DEF From, RequestOK
  <2> QED
    BY <1>1, <2>1 DEF RequestOK
<1>7. OneSender(M) /\ OneSender(From(mail[u], v))
  BY FromOneSender DEF CoreInv
<1>8. Held(u, v) = sess[u][v]
  BY DEF Held
<1>9. Agree(M, h, Held(u, v), T) /\ Agree(From(mail[u], v), Held(u, v), h, Taken(u))
  BY UpsetEither DEF StepInv, InStep
<1>10. h # None => h \in Sessions /\ h.send \in Chains /\ h.recv \in Chains
  BY HeldType
<1> HIDE DEF m, b, M, h, T
<1>11. CASE sess[u][v] # None
  <2>1. b = sess[u][v] /\ sess[u][v] \in Sessions /\ b.send \in Chains /\ b.recv \in Chains
    BY <1>1, <1>11, Numbers DEF b, BaseSession, DeliveryTypeInv
  <2>2. Direction(M, m.chain, Listening(h, b), T)
    BY <1>2, <1>8, <1>9, <1>11, <2>1 DEF Agree
  <2>3. Listening(h, b) = Listening(h, work[u])
    BY <1>2, <1>4 DEF Listening
  <2>4. Listening(h, b) \in Chains
    <3>1. CASE h # None
      BY <1>10, <3>1 DEF Listening
    <3>2. CASE h = None
      <4>1. b.send.secret \in Ids
        BY <2>1, ChainParts
      <4>2. [secret |-> b.send.secret, half |-> 1, mixed |-> <<>>] \in Chains
        BY <4>1 DEF Chains
      <4> QED
        BY <3>2, <4>2 DEF Listening
    <3> QED
      BY <3>1, <3>2
  <2>5. Direction(M \cup {m}, Advance(m.chain, m.mix), Listening(h, b), T)
    BY <1>1, <1>2, <1>5, <1>6, <1>7, <2>2, <2>4, DirectionGrows DEF m
  <2>6. Agree(M \cup {m}, h, work[u], T)
    BY <1>1, <1>3, <2>3, <2>5 DEF Agree
  <2>7. Agree(From(mail[u], v), work[u], h, Taken(u))
    <3>1. Agree(From(mail[u], v), b, h, Taken(u)) /\ b # None
      BY <1>8, <1>9, <1>11, <2>1
    <3>2. CASE h = None
      BY <1>1, <1>2, <1>3, <1>4, <3>1, <3>2 DEF Agree
    <3>3. CASE h # None
      <4>1. Listening(work[u], h) = Listening(b, h)
        BY <1>1, <1>3, <3>1 DEF Listening
      <4> QED
        BY <3>1, <3>3, <4>1 DEF Agree
    <3> QED
      BY <3>2, <3>3
  <2> QED
    BY <2>6, <2>7 DEF m, M, h, T
<1>12. CASE sess[u][v] = None
  <2>1. /\ b = NewSession(m.id, TRUE)
    BY <1>12 DEF b, m, BaseSession
  <2>2. /\ m.chain = [secret |-> m.id, half |-> 1, mixed |-> <<>>]
        /\ b.recv = [secret |-> m.id, half |-> 2, mixed |-> <<>>]
    BY <1>2, <2>1 DEF NewSession
  <2>3. m.opens # 0
    BY <1>2, <2>2 DEF Sound
  <2>4. /\ M = {} /\ (h # None => h.send.half = 1)
    BY <1>8, <1>9, <1>12 DEF Agree
  <2>5. h = None
    <3>1. InStep(u, v)
      BY DEF StepInv
    <3>2. ASSUME h # None PROVE FALSE
      <4>1. \E r \in From(mail[u], v) : r.opens # 0
        BY <2>4, <3>1, <3>2, OpenersCross DEF h
      <4> QED
        BY <2>3, <4>1 DEF m
    <3> QED
      BY <3>2
  <2>6. Direction({}, m.chain, m.chain, T)
    BY <1>2, <2>2, DirectionFresh
  <2>7. Direction({m}, Advance(m.chain, m.mix), m.chain, T)
    <3>1. OneSender({}) /\ {} \cup {m} = {m}
      BY DEF OneSender
    <3>2. Direction({} \cup {m}, Advance(m.chain, m.mix), m.chain, T)
      BY <1>1, <1>2, <1>5, <2>6, <3>1, DirectionGrows DEF m
    <3> QED
      BY <3>1, <3>2
  <2>8. Listening(None, work[u]) = m.chain
    BY <1>4, <2>2 DEF Listening
  <2>9. Agree(M \cup {m}, h, work[u], T)
    <3>1. M \cup {m} = {m}
      BY <2>4
    <3> QED
      BY <1>1, <1>3, <2>5, <2>7, <2>8, <3>1 DEF Agree
  <2>10. Agree(From(mail[u], v), work[u], h, Taken(u))
    <3>1. From(mail[u], v) = {}
      BY <1>9, <2>5 DEF Agree
    <3> QED
      BY <1>3, <1>4, <2>2, <2>5, <3>1 DEF Agree
  <2> QED
    BY <2>9, <2>10 DEF m, M, h, T
<1> QED
  BY <1>11, <1>12

LEMMA StoreStep ==
    ASSUME DeliveryTypeInv, CoreInv, KnownInv, StepInv, NEW x \in Users, Store(x)
    PROVE  StepInv'
<1>0. PICK y, m : y = to[x] /\ m = req[x]
  OBVIOUS
<1>1. /\ pc[x] = "request" /\ y \in Users /\ x # y /\ m \in Messages
      /\ pc' = [pc EXCEPT ![x] = "answer"]
      /\ UNCHANGED <<sess, to, req, work, todo, got, read, cut, dropped>>
      /\ mail[y] \in Seq(Messages) /\ mail'[y] = Append(mail[y], m)
      /\ \A a \in Users \ {y} : mail'[a] = mail[a]
  BY <1>0 DEF Store, Goto, local, ghosts, Sending, KnownInv, DeliveryTypeInv
<1>2. m.from = x
  BY <1>0, <1>1 DEF Sending, CoreInv, RequestInv, RequestOK
<1>3. Range(mail'[y]) = Range(mail[y]) \cup {m}
  BY <1>1, RangeAppend
<1>4. /\ From(mail'[y], x) = From(mail[y], x) \cup {m}
      /\ \A a, b \in Users : a # y \/ b # x => From(mail'[a], b) = From(mail[a], b)
  BY <1>1, <1>2, <1>3 DEF From
<1>5. \A a \in Users : Taken(a)' = Taken(a)
  BY <1>1 DEF Taken
<1>6. /\ Held(x, y)' = work[x]
      /\ \A a, b \in Users : a # x \/ b # y => Held(a, b)' = Held(a, b)
  BY <1>0, <1>1 DEF Held, DeliveryTypeInv
<1> SUFFICES ASSUME NEW u \in Users, NEW v \in Users \ {u}, ~Upset(u, v)'
             PROVE  InStep(u, v)'
  BY DEF StepInv
<1>7. ~Upset(u, v)
  <2>1. \A a \in Users : Range(mail[a]) \subseteq Range(mail'[a])
    BY <1>1, <1>3
  <2> QED
    BY <1>1, <2>1, UpsetStays
<1>8. InStep(u, v)' = Agree(From(mail'[u], v), Held(u, v)', Held(v, u)', Taken(u))
  BY <1>5 DEF InStep
<1>9. ASSUME {u, v} = {x, y}
      PROVE  /\ Agree(From(mail[y], x) \cup {m}, Held(y, x), work[x], Taken(y))
             /\ Agree(From(mail[x], y), work[x], Held(y, x), Taken(x))
  <2>1. ~Upset(x, y)' /\ ~Upset(x, y)
    <3>1. (u = x /\ v = y) \/ (u = y /\ v = x)
      BY <1>9
    <3>2. Upset(y, x)' <=> Upset(x, y)'
      BY DEF Upset
    <3>3. Upset(y, x) <=> Upset(x, y)
      BY UpsetEither
    <3>4. CASE u = x /\ v = y
      BY <1>7, <3>4
    <3>5. CASE u = y /\ v = x
      BY <1>7, <3>2, <3>3, <3>5
    <3> QED
      BY <3>1, <3>4, <3>5
  <2>2. ASSUME NEW r \in From(mail[x], y), r.opens # 0, m.opens # 0
        PROVE  FALSE
    <3>1. r \in From(mail'[x], y) /\ m \in From(mail'[y], x) /\ r.from = y
      BY <1>1, <1>4 DEF From
    <3>2. Upset(x, y)'
      BY <1>1, <1>2, <2>2, <3>1 DEF Upset
    <3> QED
      BY <2>1, <3>2
  <2> QED
    BY <1>0, <1>1, <2>1, <2>2, StoreAgrees
<1>10. CASE u = x /\ v = y
  BY <1>1, <1>4, <1>6, <1>8, <1>9, <1>10
<1>11. CASE u = y /\ v = x
  BY <1>1, <1>4, <1>6, <1>8, <1>9, <1>11
<1>12. CASE ~(u = x /\ v = y) /\ ~(u = y /\ v = x)
  <2>1. /\ From(mail'[u], v) = From(mail[u], v) /\ Held(u, v)' = Held(u, v)
        /\ Held(v, u)' = Held(v, u)
    BY <1>4, <1>6, <1>12
  <2>2. InStep(u, v)
    BY <1>7 DEF StepInv
  <2> QED
    BY <1>8, <2>1, <2>2 DEF InStep
<1> QED
  BY <1>10, <1>11, <1>12
\* Both directions of a conversation after u has decrypted a message of v.
LEMMA TakesAgrees ==
    ASSUME DeliveryTypeInv, CoreInv, StepInv, NEW u \in Users, NEW m \in Messages,
           NEW s \in Sessions, Takes(u, m, s), NEW v \in Users, v = m.from, u # v, ~Upset(u, v)
    PROVE  /\ Agree(From(mail[u], v), AfterDecrypt(s, m), Held(v, u), Taken(u) \cup {m.id})
           /\ Agree(From(mail[v], u), Held(v, u), AfterDecrypt(s, m), Taken(v))
<1> DEFINE a == AfterDecrypt(s, m)
           M == From(mail[u], v)
           N == From(mail[v], u)
           h == Held(v, u)
           S == h.send
<1>1. /\ m \in M /\ m.chain \in Chains /\ m.mix \in Ids \cup {0}
      /\ OneSender(M) /\ OneSender(N)
  <2>1. m \in Range(mail[u])
    BY GotGrows DEF CoreInv, MailInv
  <2> QED
    BY <2>1, FromOneSender, Numbers DEF From, CoreInv
<1>2. /\ a \in Sessions /\ a # None /\ a.recv = Advance(m.chain, m.mix) /\ a.send = s.send
      /\ s.recv = m.chain
  BY AfterDecryptType, NoneAssumption DEF Takes
<1>3. Held(u, v) = sess[u][v]
  BY DEF Held, Takes
<1>4. Agree(M, sess[u][v], h, Taken(u)) /\ Agree(N, h, sess[u][v], Taken(v))
  BY <1>3, UpsetEither DEF StepInv, InStep
<1>5. h # None
  BY <1>1, <1>4 DEF Agree
<1>6. S \in Chains /\ h.recv \in Chains
  BY <1>5, HeldType
<1> HIDE DEF a, M, N, h, S
<1>7. Direction(M, S, Listening(sess[u][v], h), Taken(u))
  BY <1>4, <1>5 DEF Agree, S
<1>8. m.chain.secret = S.secret
  BY <1>1, <1>7 DEF Direction, Carried, Within
<1>9. \/ sess[u][v] # None /\ s = sess[u][v]
      \/ sess[u][v] = None /\ m.opens # 0 /\ s = NewSession(m.opens, FALSE)
  BY DEF Takes
<1>10. Listening(sess[u][v], h) = m.chain
  <2>1. CASE sess[u][v] # None
    BY <1>2, <1>9, <2>1 DEF Listening
  <2>2. CASE sess[u][v] = None
    <3>1. m.chain = [secret |-> m.opens, half |-> 1, mixed |-> <<>>]
      BY <1>2, <1>9, <2>2 DEF NewSession
    <3>2. m.chain = [secret |-> S.secret, half |-> 1, mixed |-> <<>>]
      BY <1>8, <3>1
    <3> QED
      BY <2>2, <3>2 DEF Listening, S
  <2> QED
    BY <2>1, <2>2
<1>11. Direction(M, S, Advance(m.chain, m.mix), Taken(u) \cup {m.id})
  BY <1>1, <1>6, <1>7, <1>10, DirectionTakes
<1>12. Agree(M, a, h, Taken(u) \cup {m.id})
  BY <1>2, <1>5, <1>11 DEF Agree, Listening, S
<1>13. Agree(N, h, a, Taken(v))
  <2>1. CASE sess[u][v] # None
    <3>1. Listening(h, a) = Listening(h, s)
      BY <1>2 DEF Listening
    <3> QED
      BY <1>2, <1>4, <1>9, <2>1, <3>1 DEF Agree
  <2>2. CASE sess[u][v] = None
    <3>1. /\ N = {} /\ h.recv = [secret |-> S.secret, half |-> 2, mixed |-> <<>>]
      BY <1>4, <1>5, <2>2 DEF Agree, S
    <3>2. m.chain.secret = m.opens /\ s.send = [secret |-> m.opens, half |-> 2, mixed |-> <<>>]
      BY <1>2, <1>9, <2>2 DEF NewSession
    <3>3. a.send = h.recv /\ h.recv.mixed = <<>>
      BY <1>2, <1>8, <3>1, <3>2
    <3>4. Direction({}, h.recv, h.recv, Taken(v))
      BY <1>6, <3>3, DirectionFresh
    <3> QED
      BY <1>2, <1>5, <3>1, <3>3, <3>4 DEF Agree, Listening
  <2> QED
    BY <2>1, <2>2
<1> QED
  BY <1>12, <1>13 DEF a, M, N, h

LEMMA TakesStep ==
    ASSUME DeliveryTypeInv, CoreInv, KnownInv, StepInv, NEW x \in Users, NEW m \in Messages,
           NEW s \in Sessions, Takes(x, m, s)
    PROVE  StepInv'
<1>0. PICK y : y = m.from
  OBVIOUS
<1>1. /\ pc[x] = "decrypt" /\ y \in Users
      /\ UNCHANGED <<mail, pc, to, req, work, read, cut, dropped>>
      /\ \A a, b \in Users : sess'[a][b] =
            IF a = x /\ b = y THEN AfterDecrypt(s, m) ELSE sess[a][b]
      /\ \A a \in Users \ {x} : got'[a] = got[a]
  BY <1>0, Numbers DEF Takes, ghosts, DeliveryTypeInv
<1>2. /\ m \in Range(mail[x]) /\ Range(got'[x]) = Range(got[x]) \cup {m}
  BY GotGrows DEF CoreInv, MailInv
<1>3. x # y
  BY <1>0, <1>2 DEF KnownInv
<1>4. /\ Taken(x)' = Taken(x) \cup {m.id}
      /\ \A a \in Users \ {x} : Taken(a)' = Taken(a)
  BY <1>1, <1>2 DEF Taken, IdsOf
<1>5. /\ Held(x, y)' = AfterDecrypt(s, m)
      /\ \A a, b \in Users : a # x \/ b # y => Held(a, b)' = Held(a, b)
  BY <1>1 DEF Held
<1>6. \A a, b \in Users : (Upset(a, b)' <=> Upset(a, b)) /\ From(mail[a], b)' = From(mail[a], b)
  BY <1>1 DEF Upset, From
<1> SUFFICES ASSUME NEW u \in Users, NEW v \in Users \ {u}, ~Upset(u, v)
             PROVE  InStep(u, v)'
  BY <1>6 DEF StepInv
<1>7. InStep(u, v)' = Agree(From(mail[u], v), Held(u, v)', Held(v, u)', Taken(u)')
  BY <1>6 DEF InStep
<1>8. ASSUME ~Upset(x, y)
      PROVE  /\ Agree(From(mail[x], y), AfterDecrypt(s, m), Held(y, x), Taken(x) \cup {m.id})
             /\ Agree(From(mail[y], x), Held(y, x), AfterDecrypt(s, m), Taken(y))
  BY <1>0, <1>1, <1>3, <1>8, TakesAgrees
<1>9. CASE u = x /\ v = y
  BY <1>1, <1>3, <1>4, <1>5, <1>7, <1>8, <1>9
<1>10. CASE u = y /\ v = x
  <2>1. ~Upset(x, y)
    BY <1>10, UpsetEither
  <2> QED
    BY <1>1, <1>3, <1>4, <1>5, <1>7, <1>8, <1>10, <2>1
<1>11. CASE ~(u = x /\ v = y) /\ ~(u = y /\ v = x)
  <2>1. Held(u, v)' = Held(u, v) /\ Held(v, u)' = Held(v, u)
    BY <1>5, <1>11
  <2>2. Agree(From(mail[u], v), Held(u, v), Held(v, u), Taken(u))
    BY DEF StepInv, InStep
  <2>3. PICK T, U : T = Taken(u) /\ U = Taken(u)'
    OBVIOUS
  <2>4. PICK M, h, t : M = From(mail[u], v) /\ h = Held(u, v) /\ t = Held(v, u)
    OBVIOUS
  <2>5. \A r \in M : r.id \in U <=> r.id \in T
    <3>1. CASE u # x
      BY <1>4, <2>3, <3>1
    <3>2. CASE u = x
      <4>1. \A r \in M : r.id # m.id
        <5>1. \A r \in M : r \in Range(mail[x]) /\ r.from # m.from
          BY <1>0, <1>11, <2>4, <3>2 DEF From
        <5> QED
          BY <1>2, <5>1 DEF CoreInv, MailInv
      <4> QED
        BY <1>4, <2>3, <3>2, <4>1
    <3> QED
      BY <3>1, <3>2
  <2>6. Agree(M, h, t, U)
    BY <2>2, <2>3, <2>4, <2>5, AgreeIds
  <2> QED
    BY <1>7, <2>1, <2>3, <2>4, <2>6
<1> QED
  BY <1>9, <1>10, <1>11

LEMMA StepStep ==
    ASSUME DeliveryTypeInv, CoreInv, KnownInv, StepInv, [Next]_vars
    PROVE  StepInv'
<1>1. CASE UNCHANGED vars
  <2>1. UNCHANGED <<mail, sess, pc, to, work, got, read, cut, dropped>>
    BY <1>1 DEF vars, local, ghosts
  <2>2. \A a, b \in Users : Held(a, b)' = Held(a, b) /\ Taken(a)' = Taken(a)
    BY <2>1 DEF Held, Taken
  <2> QED
    BY <2>1, <2>2, StepFrame
<1> QED
  BY <1>1, StepCases, QuietStep, StopsStep, ConfirmStep, StoreStep, TakesStep

-----------------------------------------------------------------------------
(* What a read command goes past                                            *)

LEMMA TailParts ==
    ASSUME NEW s \in Seq(Messages), s # <<>>
    PROVE  /\ Range(s) = Range(Tail(s)) \cup {Head(s)}
           /\ Ordered(s) => /\ Ordered(Tail(s))
                            /\ \A t \in Range(Tail(s)) : t.from = Head(s).from => Head(s).id < t.id
<1> DEFINE r == Tail(s)
<1>1. /\ DOMAIN s = 1 .. Len(s) /\ Len(s) \in Nat /\ Len(s) # 0 /\ Head(s) = s[1]
      /\ DOMAIN r = 1 .. Len(s) - 1
      /\ \A i \in DOMAIN r : i + 1 \in DOMAIN s /\ r[i] = s[i + 1]
  OBVIOUS
<1> HIDE DEF r
<1>2. Range(r) \subseteq Range(s) /\ Head(s) \in Range(s)
  BY <1>1 DEF Range
<1>3. ASSUME NEW i \in DOMAIN s PROVE s[i] \in Range(r) \cup {Head(s)}
  <2>1. CASE i = 1
    BY <1>1, <2>1
  <2>2. CASE i # 1
    <3>1. i - 1 \in DOMAIN r /\ i = (i - 1) + 1
      BY <1>1, <2>2
    <3>2. r[i - 1] = s[i]
      BY <1>1, <3>1
    <3> QED
      BY <3>1, <3>2 DEF Range
  <2> QED
    BY <2>1, <2>2
<1>4. ASSUME Ordered(s) PROVE Ordered(r)
  <2> SUFFICES ASSUME NEW i \in DOMAIN r, NEW j \in DOMAIN r, i < j, r[i].from = r[j].from
               PROVE  r[i].id < r[j].id
    BY DEF Ordered
  <2>1. i + 1 \in DOMAIN s /\ j + 1 \in DOMAIN s /\ i + 1 < j + 1
    BY <1>1
  <2> QED
    BY <1>1, <1>4, <2>1 DEF Ordered
<1>5. ASSUME Ordered(s), NEW i \in DOMAIN r, r[i].from = Head(s).from
      PROVE  Head(s).id < r[i].id
  <2>1. 1 \in DOMAIN s /\ i + 1 \in DOMAIN s /\ 1 < i + 1
    BY <1>1
  <2> QED
    BY <1>1, <1>5, <2>1 DEF Ordered
<1>6. Range(s) \subseteq Range(r) \cup {Head(s)}
  BY <1>3 DEF Range
<1>7. Ordered(s) => \A t \in Range(r) : t.from = Head(s).from => Head(s).id < t.id
  BY <1>5 DEF Range
<1> QED
  BY <1>2, <1>4, <1>6, <1>7 DEF r

\* An entry that cannot be decrypted was decrypted before, or the conversation is upset.
LEMMA SkipsOld ==
    ASSUME DeliveryTypeInv, CoreInv, KnownInv, StepInv, PassInv, NEW u \in Users, Skips(u),
           ~Upset(u, Head(todo[u]).from)
    PROVE  Head(todo[u]).id \in Taken(u)
<1> DEFINE m == Head(todo[u])
           v == m.from
           M == From(mail[u], v)
           h == Held(v, u)
           R == Listening(sess[u][v], h)
<1>1. /\ pc[u] = "decrypt" /\ todo[u] \in Seq(Messages) /\ todo[u] # <<>> /\ PassOK(u)
  BY DEF Skips, PassInv, DeliveryTypeInv
<1>2. /\ m \in Range(todo[u]) /\ m \in Messages /\ m \in Range(mail[u]) /\ v \in Users
      /\ v # u /\ Sound(m) /\ m.id \in Nat /\ m.chain \in Chains
  BY <1>1, RangeTail, Numbers DEF CoreInv, MailInv, KnownInv
<1>3. m \in M /\ OneSender(M)
  BY <1>2, FromOneSender DEF From, CoreInv
<1>4. m.parses
  <2>1. m.parses \in BOOLEAN
    BY <1>2, MessageParts
  <2> QED
    BY <1>3, <2>1 DEF Upset
<1>5. Held(u, v) = sess[u][v] /\ Agree(M, sess[u][v], h, Taken(u))
  BY <1>1, <1>2 DEF Held, StepInv, InStep
<1>6. h # None
  BY <1>3, <1>5 DEF Agree
<1>7. h.send \in Chains /\ Direction(M, h.send, R, Taken(u))
  BY <1>2, <1>5, <1>6, HeldType DEF Agree
<1>8. R \in Chains
  <2>1. CASE sess[u][v] # None
    BY <1>2, <1>5, <2>1, HeldType DEF Listening
  <2>2. CASE sess[u][v] = None
    <3>1. h.send.secret \in Ids
      BY <1>7, ChainParts
    <3>2. [secret |-> h.send.secret, half |-> 1, mixed |-> <<>>] \in Chains
      BY <3>1 DEF Chains
    <3> QED
      BY <2>2, <3>2 DEF Listening
  <2> QED
    BY <2>1, <2>2
<1>9. ASSUME NEW r \in M, r.id < m.id PROVE r.id \in Taken(u)
  <2>1. r \in Range(mail[u]) /\ r.from = v /\ r.id \in Nat
    BY Numbers DEF From
  <2>2. r \notin Range(todo[u])
    <3>1. /\ Range(todo[u]) = Range(Tail(todo[u])) \cup {m}
          /\ \A t \in Range(Tail(todo[u])) : t.from = v => m.id < t.id
      BY <1>1, TailParts DEF PassOK
    <3> QED
      BY <1>2, <1>9, <2>1, <3>1
  <2> QED
    BY <1>1, <1>2, <1>9, <2>2 DEF PassOK
<1> HIDE DEF R, h, M
<1> SUFFICES ASSUME m.id \notin Taken(u) PROVE FALSE
  OBVIOUS
<1>10. R = m.chain
  BY <1>3, <1>7, <1>8, <1>9, DirectionNext
<1>11. ~\E s \in SessionsFor(u, m) : Decrypts(s, m)
  BY DEF Skips
<1>12. CASE sess[u][v] # None
  <2>1. sess[u][v].recv = m.chain
    BY <1>10, <1>12 DEF R, Listening
  <2>2. sess[u][v] \in SessionsFor(u, m)
    BY <1>12 DEF SessionsFor, LoadSession
  <2> QED
    BY <1>4, <1>11, <2>1, <2>2 DEF Decrypts
<1>13. CASE sess[u][v] = None
  <2>1. m.chain.half = 1 /\ m.chain.mixed = <<>>
    <3>1. R = [secret |-> h.send.secret, half |-> 1, mixed |-> <<>>]
      BY <1>13 DEF R, Listening
    <3> QED
      BY <1>10, <3>1
  <2>2. m.opens # 0 /\ m.opens = m.id
    BY <1>2, <2>1 DEF Sound
  <2>3. NewSession(m.opens, FALSE) \in SessionsFor(u, m)
    BY <1>13, <2>2 DEF SessionsFor, LoadSession
  <2>4. NewSession(m.opens, FALSE).recv = m.chain
    BY <1>2, <2>2 DEF NewSession, Sound
  <2> QED
    BY <1>4, <1>11, <2>3, <2>4 DEF Decrypts
<1> QED
  BY <1>12, <1>13
LEMMA DroppedGrows ==
    ASSUME DeliveryTypeInv, [Next]_vars
    PROVE  /\ dropped \subseteq dropped'
           /\ missed' = missed \/ \E x \in Users : Skips(x)
<1>1. ASSUME NEW x \in Users,
             \/ \E y \in Users : Send(x, y) \/ Connect(x, y)
             \/ Stops(x) \/ Store(x) \/ Confirm(x) \/ Fetch(x) \/ Prints(x)
             \/ \E m \in Messages, s \in Sessions : Takes(x, m, s)
      PROVE  dropped \subseteq dropped' /\ missed' = missed
  BY <1>1 DEF Send, Connect, Stops, Store, Confirm, Fetch, Prints, Takes, ghosts
<1>2. ASSUME NEW x \in Users, Skips(x) PROVE dropped \subseteq dropped'
  BY <1>2 DEF Skips
<1> QED
  BY <1>1, <1>2, StepCases DEF vars, ghosts

\* A read command of u that is not at work, while others may store entries.
LEMMA PassSame ==
    ASSUME DeliveryTypeInv, MailInv, NEW u \in Users, PassOK(u),
           todo'[u] = todo[u], got'[u] = got[u], read'[u] = read[u], dropped \subseteq dropped',
           \A v \in Users : Upset(u, v) => Upset(u, v)',
           \A t \in Range(todo[u]), r \in Range(mail'[u]) :
              r.from = t.from /\ r.id < t.id => r \in Range(mail[u])
    PROVE  PassOK(u)'
<1>1. Taken(u) \subseteq Taken(u)'
  BY DEF Taken
<1>2. \A t \in Range(todo[u]) : t.from \in Users
  BY Numbers DEF MailInv
<1>3. ASSUME NEW t \in Range(todo[u]), ~Upset(u, t.from)', NEW r \in From(mail'[u], t.from),
             r.id < t.id, r \notin Range(todo[u])
      PROVE  r.id \in Taken(u)
  <2>1. r \in From(mail[u], t.from)
    BY <1>3 DEF From
  <2>2. ~Upset(u, t.from)
    <3>1. PICK w \in Users : w = t.from
      BY <1>2
    <3> QED
      BY <1>3, <3>1
  <2> QED
    BY <1>3, <2>1, <2>2 DEF PassOK
<1>4. /\ Ordered(todo'[u])
      /\ \A t \in Range(todo'[u]), g \in Range(got'[u]) : t.from = g.from => g.id < t.id
  BY DEF PassOK
<1>5. \A t \in Range(todo'[u]) : ~Upset(u, t.from)' =>
         \A r \in From(mail'[u], t.from) :
             r.id < t.id /\ r \notin Range(todo'[u]) => r.id \in Taken(u)'
  BY <1>1, <1>3
<1> QED
  BY <1>4, <1>5 DEF PassOK

LEMMA PassFetch ==
    ASSUME DeliveryTypeInv, PassInv, NEW u \in Users, Fetch(u)
    PROVE  PassOK(u)'
<1>1. todo'[u] = mail[u] /\ mail' = mail /\ got'[u] = <<>> /\ Ordered(mail[u])
  BY DEF Fetch, PassInv, DeliveryTypeInv
<1>2. Range(got'[u]) = {} /\ \A v : From(mail'[u], v) \subseteq Range(todo'[u])
  BY <1>1, RangeEmpty DEF From
<1> QED
  BY <1>1, <1>2 DEF PassOK

\* The read command of u is done with the entry m: it was decrypted now or before.
LEMMA PassNext ==
    ASSUME DeliveryTypeInv, MailInv, NEW u \in Users, PassOK(u), todo[u] # <<>>,
           NEW m \in Messages, m = Head(todo[u]), todo'[u] = Tail(todo[u]),
           UNCHANGED <<mail, cut>>, Taken(u) \subseteq Taken(u)',
           ~Upset(u, m.from) => m.id \in Taken(u)',
           Range(got'[u]) \subseteq (Range(got[u]) \cup {m})
    PROVE  PassOK(u)'
<1>1. todo[u] \in Seq(Messages)
  BY DEF DeliveryTypeInv
<1>2. /\ Range(todo[u]) = Range(todo'[u]) \cup {m} /\ Ordered(todo'[u])
      /\ \A t \in Range(todo'[u]) : t.from = m.from => m.id < t.id
  BY <1>1, TailParts DEF PassOK
<1>3. ASSUME NEW t \in Range(todo'[u]), NEW g \in Range(got'[u]), t.from = g.from
      PROVE  g.id < t.id
  BY <1>2, <1>3 DEF PassOK
<1>4. ASSUME NEW t \in Range(todo'[u]), ~Upset(u, t.from)', NEW r \in From(mail'[u], t.from),
             r.id < t.id, r \notin Range(todo'[u])
      PROVE  r.id \in Taken(u)'
  <2>1. r \in From(mail[u], t.from) /\ r.from = t.from /\ ~Upset(u, t.from)
    BY <1>4 DEF From, Upset
  <2>2. CASE r = m
    BY <2>1, <2>2
  <2>3. CASE r # m
    <3>1. r.id \in Taken(u)
      BY <1>2, <1>4, <2>1, <2>3 DEF PassOK
    <3> QED
      BY <3>1
  <2> QED
    BY <2>2, <2>3
<1> QED
  BY <1>2, <1>3, <1>4 DEF PassOK

LEMMA PassInit == Init => PassInv
BY DEF Init, PassInv, Ordered

LEMMA PassStep ==
    ASSUME DeliveryTypeInv, CoreInv, KnownInv, StepInv, PassInv, [Next]_vars
    PROVE  PassInv'
<1>0. /\ dropped \subseteq dropped'
      /\ \A u, v \in Users : Upset(u, v) => Upset(u, v)'
  BY DroppedGrows, UpsetForever
<1>1. ASSUME NEW x \in Users, Store(x) PROVE PassInv'
  <2> DEFINE y == to[x]
             m == req[x]
  <2>1. /\ y \in Users /\ m \in Messages /\ pc[x] = "request" /\ RequestOK(x)
        /\ pc' = [pc EXCEPT ![x] = "answer"] /\ UNCHANGED <<todo, got, read>>
        /\ mail[y] \in Seq(Messages) /\ mail'[y] = Append(mail[y], m)
        /\ \A a \in Users \ {y} : mail'[a] = mail[a]
    BY <1>1 DEF Store, Goto, local, Sending, CoreInv, RequestInv, DeliveryTypeInv
  <2>2. Range(mail'[y]) = Range(mail[y]) \cup {m} /\ m.from = x /\ m.id \in Nat
    BY <2>1, RangeAppend, Numbers DEF RequestOK
  <2>3. \A r \in Range(mail[y]) : r.from = x => r.id < m.id /\ r.id \in Nat
    BY <2>1, Numbers DEF RequestOK
  <2>4. \A a \in Users : Ordered(mail'[a])
    <3>1. Ordered(mail'[y])
      BY <2>1, <2>2, <2>3, OrderedAppend DEF PassInv
    <3> QED
      BY <2>1, <3>1 DEF PassInv
  <2>5. ASSUME NEW u \in Users, pc'[u] = "decrypt" PROVE PassOK(u)'
    <3>1. PassOK(u)
      BY <2>1, <2>5 DEF PassInv, DeliveryTypeInv
    <3>2. \A t \in Range(todo[u]), r \in Range(mail'[u]) :
             r.from = t.from /\ r.id < t.id => r \in Range(mail[u])
      <4>1. Range(todo[u]) \subseteq Range(mail[u])
        BY DEF CoreInv, MailInv
      <4>2. CASE u # y
        BY <2>1, <4>2
      <4>3. CASE u = y
        BY <2>2, <2>3, <4>1, <4>3
      <4> QED
        BY <4>2, <4>3
    <3> QED
      BY <1>0, <2>1, <3>1, <3>2, PassSame DEF CoreInv
  <2> QED
    BY <2>4, <2>5 DEF PassInv
<1>2. ASSUME NEW x \in Users, UNCHANGED mail,
             \A w \in Users \ {x} : /\ pc'[w] = pc[w] /\ todo'[w] = todo[w]
                                    /\ got'[w] = got[w] /\ read'[w] = read[w],
             pc'[x] = "decrypt" => PassOK(x)'
      PROVE  PassInv'
  <2>1. ASSUME NEW u \in Users \ {x}, pc'[u] = "decrypt" PROVE PassOK(u)'
    <3>1. PassOK(u)
      BY <1>2, <2>1 DEF PassInv
    <3> QED
      BY <1>0, <1>2, <3>1, PassSame DEF CoreInv
  <2> QED
    BY <1>2, <2>1 DEF PassInv
<1>3. ASSUME NEW x \in Users, NEW y \in Users, Send(x, y) PROVE PassInv'
  BY <1>2, <1>3 DEF Send, Goto, DeliveryTypeInv
<1>4. ASSUME NEW x \in Users, OnlyMoves(x), pc'[x] = "decrypt" => PassOK(x)' PROVE PassInv'
  BY <1>2, <1>4 DEF OnlyMoves
<1>5. ASSUME NEW x \in Users,
             (\E y \in Users : Connect(x, y)) \/ Stops(x) \/ Confirm(x) \/ Prints(x)
      PROVE  pc'[x] # "decrypt"
  BY <1>5 DEF Connect, Stops, Confirm, Prints, End, Goto, DeliveryTypeInv
<1>6. ASSUME NEW x \in Users, NEW m \in Messages, NEW s \in Sessions, Takes(x, m, s)
      PROVE  PassOK(x)'
  <2>1. /\ pc[x] = "decrypt" /\ todo[x] # <<>> /\ m = Head(todo[x]) /\ todo'[x] = Tail(todo[x])
        /\ UNCHANGED <<mail, cut, read, dropped>>
    BY <1>6 DEF Takes, ghosts, DeliveryTypeInv
  <2>2. Range(got'[x]) = Range(got[x]) \cup {m}
    BY <1>6, GotGrows
  <2>3. Taken(x) \cup {m.id} \subseteq Taken(x)'
    BY <2>1, <2>2 DEF Taken, IdsOf
  <2> QED
    BY <2>1, <2>2, <2>3, PassNext DEF PassInv, CoreInv
<1>7. ASSUME NEW x \in Users, Skips(x) PROVE PassOK(x)'
  <2>1. PICK m : m = Head(todo[x])
    OBVIOUS
  <2>2. /\ pc[x] = "decrypt" /\ todo[x] # <<>> /\ todo'[x] = Tail(todo[x])
        /\ UNCHANGED <<mail, cut, read, got, dropped>> /\ todo[x] \in Seq(Messages)
    BY <1>7 DEF Skips, DeliveryTypeInv
  <2>3. m \in Messages
    BY <2>1, <2>2, RangeTail
  <2>4. Taken(x)' = Taken(x)
    BY <2>2 DEF Taken
  <2>5. ~Upset(x, m.from) => m.id \in Taken(x)'
    BY <1>7, <2>1, <2>4, SkipsOld
  <2> QED
    BY <2>1, <2>2, <2>3, <2>4, <2>5, PassNext DEF PassInv, CoreInv
<1>8. CASE UNCHANGED vars
  <2>1. UNCHANGED <<mail, pc, todo, got, read, cut, dropped>>
    BY <1>8 DEF vars, local, ghosts
  <2> QED
    BY <2>1 DEF PassInv, PassOK, Taken, Upset
<1> QED
  BY <1>1, <1>3, <1>4, <1>5, <1>6, <1>7, <1>8, PassFetch, StepCases, MovesSteps

LEMMA MissedStep ==
    ASSUME DeliveryTypeInv, CoreInv, KnownInv, StepInv, PassInv, MissedOnlyIfUpset, [Next]_vars
    PROVE  MissedOnlyIfUpset'
<1> SUFFICES ASSUME NEW u \in Users, NEW m \in Range(mail'[u]), m.id \in missed'
             PROVE  Upset(u, m.from)'
  BY DEF MissedOnlyIfUpset
<1>1. MailInv' /\ \A w \in Users : Range(mail[w]) \subseteq Range(mail'[w])
  BY CoreStep, MailGrows DEF CoreInv
<1>2. CASE m.id \in missed
  <2>0. PICK w \in Users : m.id \in IdsOf(mail[w])
    BY <1>2 DEF KnownInv
  <2>1. PICK n \in Range(mail[w]) : n.id = m.id
    BY <2>0 DEF IdsOf
  <2>2. n = m /\ w = u
    BY <1>1, <2>1 DEF MailInv
  <2>3. Upset(u, m.from) /\ m.from \in Users
    BY <1>2, <2>1, <2>2, Numbers DEF MissedOnlyIfUpset
  <2> QED
    BY <2>3, UpsetForever
<1>3. CASE m.id \notin missed
  <2>1. PICK x \in Users : Skips(x)
    BY <1>3, DroppedGrows
  <2>2. PICK h : h = Head(todo[x])
    OBVIOUS
  <2>3. /\ UNCHANGED mail /\ pc[x] = "decrypt" /\ todo[x] # <<>> /\ todo[x] \in Seq(Messages)
        /\ m.id = h.id /\ h.id \notin (dropped \cup IdsOf(read[x]))
    BY <1>3, <2>1, <2>2 DEF Skips, DeliveryTypeInv
  <2>4. h \in Range(todo[x]) /\ h \in Range(mail[x]) /\ h \in Messages /\ h.id \in Nat
        /\ h.from \in Users
    BY <2>2, <2>3, RangeTail, Numbers DEF CoreInv, MailInv
  <2>5. m = h /\ u = x
    BY <2>3, <2>4 DEF CoreInv, MailInv
  <2>6. h.id \notin IdsOf(got[x])
    <3> SUFFICES ASSUME NEW g \in Range(got[x]), g.id = h.id PROVE FALSE
      BY DEF IdsOf
    <3>1. g = h
      BY <2>4 DEF CoreInv, MailInv
    <3> QED
      BY <2>3, <2>4, <3>1 DEF PassInv, PassOK
  <2>7. Upset(x, h.from)
    BY <2>1, <2>2, <2>3, <2>6, SkipsOld DEF Taken
  <2> QED
    BY <2>4, <2>5, <2>7, UpsetForever
<1> QED
  BY <1>2, <1>3

\* An entry of the relay that a read command could not decrypt when it first tried belongs
\* to a conversation that was upset by a lost answer, a first message that does not parse
\* or sessions opened from both sides: relay_decrypt_message and send_via_relay keep the
\* two chains of two users in step through everything else, for any users, messages, kills
\* and interleaving of their commands.
THEOREM MissesAreExcused == Spec => []MissedOnlyIfUpset
<1> DEFINE Inv == KnownInv /\ StepInv /\ PassInv /\ MissedOnlyIfUpset
<1>1. Init => Inv
  <2>1. Init => MissedOnlyIfUpset
    BY DEF Init, MissedOnlyIfUpset
  <2> QED
    BY <2>1, KnownInit, StepInit, PassInit
<1>2. DeliveryTypeInv /\ CoreInv /\ Inv /\ [Next]_vars => Inv'
  BY KnownStep, StepStep, PassStep, MissedStep
<1>3. Inv => MissedOnlyIfUpset
  OBVIOUS
<1> HIDE DEF Inv
<1> QED
  BY <1>1, <1>2, <1>3, DeliveryTypeHolds, CoreHolds, PTL DEF Spec
\* What a read command decrypts of the entries it fetched: each entry it is done with was
\* decrypted now or before, or its conversation was upset.
TriesTake(u) ==
    pc[u] = "decrypt" /\ pc'[u] = "decrypt" /\ todo[u] # <<>> /\ todo'[u] # todo[u] =>
        \/ Head(todo[u]).id \in Taken(u)'
        \/ Upset(u, Head(todo[u]).from)

\* The safety half of "what was delivered is read" (ToldIsRead): relay_fetch goes past an
\* entry of its list only when it is decrypted, was decrypted before, or belongs to an upset
\* conversation, so all that fairness has to add is that read commands come to their end.
THEOREM EntriesAreTaken == Spec => [][\A u \in Users : TriesTake(u)]_vars
<1> DEFINE Inv == KnownInv /\ StepInv /\ PassInv
<1>1. Init => Inv
  BY KnownInit, StepInit, PassInit
<1>2. DeliveryTypeInv /\ CoreInv /\ Inv /\ [Next]_vars => Inv'
  BY KnownStep, StepStep, PassStep
<1>3. ASSUME DeliveryTypeInv, CoreInv, Inv, [Next]_vars
      PROVE  [\A u \in Users : TriesTake(u)]_vars
  <2>1. ASSUME NEW x \in Users, NEW m \in Messages, NEW s \in Sessions, Takes(x, m, s)
        PROVE  Head(todo[x]).id \in Taken(x)'
    <3>1. Range(got'[x]) = Range(got[x]) \cup {m}
      BY <1>3, <2>1, GotGrows
    <3>2. m = Head(todo[x])
      BY <2>1 DEF Takes
    <3>3. m.id \in Taken(x)'
      BY <3>1 DEF Taken, IdsOf
    <3> QED
      BY <3>2, <3>3
  <2>2. ASSUME NEW x \in Users, Skips(x), ~Upset(x, Head(todo[x]).from)
        PROVE  Head(todo[x]).id \in Taken(x)'
    <3>1. Taken(x)' = Taken(x)
      BY <2>2 DEF Skips, Taken
    <3> QED
      BY <1>3, <2>2, <3>1, SkipsOld
  <2>3. ASSUME NEW x \in Users, Skips(x) \/ \E m \in Messages, s \in Sessions : Takes(x, m, s)
        PROVE  \A u \in Users : TriesTake(u)
    <3>1. \A u \in Users \ {x} : todo'[u] = todo[u]
      BY <1>3, <2>3, MovesSteps DEF OnlyMoves
    <3> QED
      BY <2>1, <2>2, <2>3, <3>1 DEF TriesTake
  <2>4. ASSUME NEW x \in Users,
               \/ \E y \in Users : Send(x, y) \/ Connect(x, y)
               \/ Stops(x) \/ Store(x) \/ Confirm(x) \/ Fetch(x) \/ Prints(x)
        PROVE  \A u \in Users : TriesTake(u)
    <3>1. \A u \in Users \ {x} : todo'[u] = todo[u]
      BY <1>3, <2>4, MovesSteps DEF OnlyMoves, Send, Store, local
    <3>2. pc[x] # "decrypt" \/ pc'[x] # "decrypt"
      BY <1>3, <2>4
         DEF Send, Connect, Stops, Store, Confirm, Fetch, Prints, End, Goto, DeliveryTypeInv
    <3> QED
      BY <3>1, <3>2 DEF TriesTake
  <2> QED
    BY <1>3, <2>3, <2>4, StepCases
<1> HIDE DEF Inv
<1> QED
  BY <1>1, <1>2, <1>3, DeliveryTypeHolds, CoreHolds, PTL DEF Spec
=============================================================================
