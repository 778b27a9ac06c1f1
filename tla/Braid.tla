------------------------------- MODULE Braid -------------------------------
(***************************************************************************)
(* A long key sent in chunks (protocol/src/braid.rs, split_key_to_chunks,  *)
(* BraidHandshake): chunks arrive in any order, more than once, and mixed  *)
(* with chunks of other keys.  The first one that arrives decides which    *)
(* key is collected.  Keys are sequences of bytes and are their own hash.  *)
(***************************************************************************)
EXTENDS Integers, Sequences, FiniteSets

CONSTANTS
    Keys,       \* keys that are being sent
    ChunkSize   \* CHUNK_SIZE

ASSUME BraidAssumption ==
    /\ ChunkSize \in Nat \ {0}
    /\ Keys \subseteq Seq(Nat) /\ \A k \in Keys : Len(k) > 0

VARIABLES
    received,   \* received_chunks
    total,      \* total_chunks, 0 before the first chunk
    ekHash,     \* ek_hash
    complete

braidVars == <<received, total, ekHash, complete>>

\* div_ceil
ChunkCount(k) == (Len(k) + ChunkSize - 1) \div ChunkSize
EndOf(k, i) == IF (i + 1) * ChunkSize < Len(k) THEN (i + 1) * ChunkSize ELSE Len(k)

SplitKeyToChunks(k) ==
    {[num |-> i, of |-> ChunkCount(k), hash |-> k, payload |-> SubSeq(k, i * ChunkSize + 1, EndOf(k, i))] :
        i \in 0..ChunkCount(k) - 1}

BraidInit == received = << >> /\ total = 0 /\ ekHash = << >> /\ complete = FALSE

\* Mutant of AddChunk: a chunk may come twice.
AddChunkTwice(c) ==
    /\ c.num < c.of
    /\ total = 0 \/ ekHash = c.hash
    /\ received' = Append(received, c)
    /\ total' = IF total = 0 THEN c.of ELSE total
    /\ ekHash' = IF total = 0 THEN c.hash ELSE ekHash
    /\ complete' = (complete \/ Len(received) + 1 = total')

\* add_chunk: what it refuses changes nothing.  The handshake does not close: a
\* chunk may still come when it is complete.
AddChunk(c) ==
    /\ c.num < c.of
    /\ total = 0 \/ ekHash = c.hash
    /\ \A i \in 1..Len(received) : received[i].num # c.num
    /\ received' = Append(received, c)
    /\ total' = IF total = 0 THEN c.of ELSE total
    /\ ekHash' = IF total = 0 THEN c.hash ELSE ekHash
    /\ complete' = (complete \/ Len(received) + 1 = total')

\* reconstruct_enc_key: a chunk that would reach past the key is left out, and what
\* no chunk covers is zero.
ReconstructEncKey(len) ==
    [b \in 1..len |->
        LET covers == {i \in 1..Len(received) :
                          LET s == received[i].num * ChunkSize
                              e == s + Len(received[i].payload)
                          IN s < b /\ b <= e /\ e <= len}
        IN IF covers = {} THEN 0
           ELSE LET i == CHOOSE i \in covers : \A j \in covers : j <= i
                IN received[i].payload[b - received[i].num * ChunkSize]]

BraidNext == \E k \in Keys : \E c \in SplitKeyToChunks(k) : AddChunk(c)

BraidSpec == BraidInit /\ [][BraidNext]_braidVars
-----------------------------------------------------------------------------
(* Properties                                                               *)

\* A complete handshake rebuilds exactly the key whose chunk came first, in
\* whatever order the chunks of it and of other keys came and however often; and
\* it is complete as soon as that key's chunks are all there.
BraidRebuildsKey ==
    /\ complete => ekHash \in Keys /\ ReconstructEncKey(Len(ekHash)) = ekHash
    /\ total > 0 => complete = (SplitKeyToChunks(ekHash) \subseteq {received[i] : i \in 1..Len(received)})
=============================================================================
