------------------------------ MODULE Padding ------------------------------
(***************************************************************************)
(* Messages are padded to a few sizes before they are encrypted            *)
(* (client/src/main.rs, pad_message_bucket and unpad_message_bucket): one  *)
(* byte with the length of the padding, the message, the padding.  The     *)
(* message is the sequence 1..n, the padding zeros, sizes are scaled down  *)
(* so that the smallest bucket is still as large as a byte has values.     *)
(***************************************************************************)
EXTENDS Integers, Sequences

CONSTANTS
    ByteValues, \* 256, which is also the smallest bucket
    Buckets     \* 256, 512, ..., 65536

ASSUME PaddingAssumption ==
    /\ ByteValues \in Nat \ {0} /\ ByteValues \in Buckets
    /\ Buckets \subseteq Nat /\ \E b \in Buckets : \A c \in Buckets : c <= b

Largest == CHOOSE b \in Buckets : \A c \in Buckets : c <= b

VARIABLES plain, wire, readBack

padVars == <<plain, wire, readBack>>

Message(n) == [i \in 1..n |-> i]

\* Mutant of BucketSize: the header byte is not counted.
BucketSizeTight(n) ==
    IF n > Largest THEN Largest
    ELSE CHOOSE b \in Buckets : n <= b /\ \A c \in Buckets : n <= c => b <= c

\* The next bucket that the message and the header byte fit in, else the largest.
BucketSize(n) ==
    IF n + 1 > Largest THEN Largest
    ELSE CHOOSE b \in Buckets : n + 1 <= b /\ \A c \in Buckets : n + 1 <= c => b <= c

\* pad_message_bucket: the header byte keeps the low bits of the length.
PadLen(n) == BucketSize(n) - n - 1
Pad(n) == <<PadLen(n) % ByteValues>> \o Message(n) \o [i \in 1..PadLen(n) |-> 0]

\* unpad_message_bucket
Unpad(w) == IF Len(w) < w[1] + 1 THEN << >> ELSE SubSeq(w, 2, Len(w) - w[1])

PadInit == plain = 0 /\ wire = << >> /\ readBack = << >>

\* Messages that do not fit the largest bucket end the sender: PadLen underflows.
PadNext ==
    \/ /\ wire = << >>
       /\ wire' = Pad(plain) /\ UNCHANGED <<plain, readBack>>
    \/ /\ wire # << >> /\ readBack = << >>
       /\ readBack' = Unpad(wire) /\ UNCHANGED <<plain, wire>>
    \/ /\ wire # << >> /\ plain + 1 < Largest
       /\ plain' = plain + 1 /\ wire' = << >> /\ readBack' = << >>

PadSpec == PadInit /\ [][PadNext]_padVars
-----------------------------------------------------------------------------
(* Properties                                                               *)

\* What is sent has one of the bucket sizes, whatever the message; the reader gets
\* the whole message back, and nothing after it if the length of the padding fits the
\* header byte.
MessageSurvivesPadding ==
    /\ wire # << >> => Len(wire) \in Buckets
    /\ readBack # << >> =>
          /\ SubSeq(readBack, 1, plain) = Message(plain)
          /\ PadLen(plain) < ByteValues => Len(readBack) = plain

\* client/src/main.rs:2370, on pad_message_bucket: "The first byte of the padded
\* output indicates the padding length so the receiver can strip it."  The reader
\* gets back what was sent, whatever its length.
PaddingStripped == readBack # << >> => readBack = Message(plain)
=============================================================================
