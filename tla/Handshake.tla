----------------------------- MODULE Handshake -----------------------------
(***************************************************************************)
(* The p2p handshake with proof of work (p2p/src/handshake.rs,             *)
(* handshake_initiator and handshake_responder) over one WebSocket         *)
(* connection.  Each side solves its puzzle from a random u64 on, and      *)
(* refuses an answer whose nonce is above a fixed limit.                   *)
(*                                                                         *)
(* The hash is given by the constant Zeros: how many leading zero bits     *)
(* pow_check finds for a challenge and a nonce.  The hello has no          *)
(* challenge.  Keys are left out: a side only ever uses its own.           *)
(***************************************************************************)
EXTENDS Integers

CONSTANTS
    NonceSpace,  \* 2^64
    NonceLimit,  \* 1_000_000_000
    Attempts,    \* nonces that the solver tries (1_000_000)
    HelloBits,   \* HELLO_POW_BITS
    MinBits,     \* MIN_POW_DIFFICULTY
    BitsLimit,   \* 32
    Challenges, NoChallenge, \* server_challenge; that of a hello
    NoMessage,   \* nothing to read
    Zeros        \* Zeros[c][n]: leading zero bits

Nonces == 0..NonceSpace - 1

ASSUME HandshakeAssumption ==
    /\ NonceSpace \in Nat \ {0} /\ NonceLimit \in Nat /\ Attempts \in Nat
    /\ HelloBits \in Nat /\ MinBits \in Nat \ {0} /\ BitsLimit \in Nat
    /\ HelloBits <= BitsLimit
    /\ Zeros \in [Challenges \cup {NoChallenge} -> [Nonces -> Nat]]

VARIABLES
    initiator,  \* its step
    responder,
    hello, ack, \* the messages on the wire
    ours,       \* whether the hello is an initiator's and not another program's
    refusal     \* why a side gave up

handVars == <<initiator, responder, hello, ack, ours, refusal>>

HandInit ==
    /\ initiator = "start" /\ responder = "wait"
    /\ hello = NoMessage /\ ack = NoMessage
    /\ ours = FALSE /\ refusal = "none"

\* A difficulty below the minimum is an error, which both sides take for no.
PowCheck(c, n, bits) == bits >= MinBits /\ Zeros[c][n] >= bits

\* The i-th nonce that a solver tries, and whether none of those does.
Tried(base, i) == (base + i) % NonceSpace
Exhausted(c, base) == \A i \in 0..Attempts - 1 : ~PowCheck(c, Tried(base, i), HelloBits)

\* Mutant of Solve: the responder, too, solves the puzzle without the challenge.
SolveUnchallenged(c, base) ==
    LET good == {i \in 0..Attempts - 1 : PowCheck(NoChallenge, Tried(base, i), HelloBits)}
    IN IF good = {} THEN base ELSE Tried(base, CHOOSE i \in good : \A j \in good : i <= j)

\* The first nonce from base on that solves the puzzle, wrapping around; base
\* itself when none of those tried does.
Solve(c, base) ==
    LET good == {i \in 0..Attempts - 1 : PowCheck(c, Tried(base, i), HelloBits)}
    IN IF good = {} THEN base ELSE Tried(base, CHOOSE i \in good : \A j \in good : i <= j)

\* The checks of the responder, in order.
HelloRefusal(m) ==
    IF m.nonce > NonceLimit \/ m.bits = 0 \/ m.bits > BitsLimit THEN "parameters"
    ELSE IF ~PowCheck(NoChallenge, m.nonce, m.bits) THEN "no proof"
    ELSE "none"

\* The checks of the initiator: only it insists on the difficulty.
AckRefusal(m) ==
    IF m.nonce > NonceLimit \/ m.bits = 0 \/ m.bits > BitsLimit THEN "parameters"
    ELSE IF m.bits # HelloBits THEN "difficulty"
    ELSE IF ~PowCheck(m.challenge, m.nonce, m.bits) THEN "no proof"
    ELSE "none"

SendHello(base) ==
    /\ initiator = "start" /\ hello = NoMessage
    /\ initiator' = "wait"
    /\ hello' = [nonce |-> Solve(NoChallenge, base), bits |-> HelloBits]
    /\ ours' = TRUE
    /\ UNCHANGED <<responder, ack, refusal>>

\* Another program says hello instead.
OtherHello(n, bits) ==
    /\ initiator = "start" /\ hello = NoMessage
    /\ hello' = [nonce |-> n, bits |-> bits]
    /\ UNCHANGED <<initiator, responder, ack, ours, refusal>>

\* handshake_responder: it refuses the hello,
RefuseHello ==
    /\ responder = "wait" /\ hello # NoMessage
    /\ HelloRefusal(hello) # "none"
    /\ responder' = "failed" /\ refusal' = HelloRefusal(hello)
    /\ UNCHANGED <<initiator, hello, ack, ours>>

\* or solves its own puzzle and sends the ack.  The ack may arrive before the send
\* returns.
AnswerHello(c, base) ==
    /\ responder = "wait" /\ hello # NoMessage
    /\ HelloRefusal(hello) = "none"
    /\ responder' = "sending"
    /\ ack' = [nonce |-> Solve(c, base), bits |-> HelloBits, challenge |-> c]
    /\ UNCHANGED <<initiator, hello, ours, refusal>>

AckSent ==
    /\ responder = "sending"
    /\ responder' = "done"
    /\ UNCHANGED <<initiator, hello, ack, ours, refusal>>

\* The send fails, whether or not the ack got through.
SendFails ==
    /\ responder = "sending"
    /\ responder' = "failed" /\ refusal' = "send"
    /\ \/ UNCHANGED ack
       \/ initiator = "wait" /\ ack' = NoMessage
    /\ UNCHANGED <<initiator, hello, ours>>

\* handshake_initiator, once the ack is there.
TakeAck ==
    /\ initiator = "wait" /\ ack # NoMessage
    /\ refusal' = AckRefusal(ack)
    /\ initiator' = IF AckRefusal(ack) = "none" THEN "done" ELSE "failed"
    /\ UNCHANGED <<responder, hello, ack, ours>>

\* HANDSHAKE_TIMEOUT passes, or the connection closes, on either side; the
\* initiator may also fail to send.
InitiatorTimeout ==
    /\ initiator \in {"start", "wait"}
    /\ initiator' = "failed" /\ refusal' = "timeout"
    /\ UNCHANGED <<responder, hello, ack, ours>>

ResponderTimeout ==
    /\ responder = "wait"
    /\ responder' = "failed" /\ refusal' = "timeout"
    /\ UNCHANGED <<initiator, hello, ack, ours>>

HandNext ==
    \/ \E base \in Nonces : SendHello(base) \/ \E c \in Challenges : AnswerHello(c, base)
    \/ \E n \in Nonces, bits \in {0, MinBits - 1, MinBits, HelloBits, BitsLimit + 1} :
          OtherHello(n, bits)
    \/ RefuseHello \/ AckSent \/ SendFails \/ TakeAck \/ InitiatorTimeout \/ ResponderTimeout

HandSpec == HandInit /\ [][HandNext]_handVars

-----------------------------------------------------------------------------
(* Properties                                                               *)

\* Two programs of this repository refuse each other's proof only because its nonce
\* is above the limit (both sides start from a random u64, the limit notwithstanding)
\* or because the solver ran out of attempts: where no nonce from the one that was sent
\* on solves the very puzzle that the other side checks.  They never disagree about the
\* difficulty.  And the initiator is done only when each side's proof is good, also
\* when the responder's send has not returned or has failed.
HonestSidesAgree ==
    /\ initiator = "done" => /\ PowCheck(NoChallenge, hello.nonce, HelloBits)
                             /\ PowCheck(ack.challenge, ack.nonce, HelloBits)
    /\ ours /\ refusal \in {"parameters", "no proof", "difficulty"} =>
          \/ hello.nonce > NonceLimit \/ Exhausted(NoChallenge, hello.nonce)
          \/ /\ ack # NoMessage
             /\ ack.nonce > NonceLimit \/ Exhausted(ack.challenge, ack.nonce)
=============================================================================
