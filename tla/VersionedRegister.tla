------------------------- MODULE VersionedRegister --------------------------
(***************************************************************************)
(* What DhtStore::put promises (the comment above it in                    *)
(* dht-core/src/sqlite_store.rs): each key is a register whose versions    *)
(* only grow, and a nonce writes a key at most once.  A write takes effect *)
(* in one step.                                                            *)
(*                                                                         *)
(* The promise is kept for a key until two writers meet at it: put checks  *)
(* the version before its transaction, so from then on it may be           *)
(* overwritten with any record.                                            *)
(***************************************************************************)
EXTENDS Integers

CONSTANTS
    Keys,
    Nonces,
    NoRow          \* the content of a register never written

VARIABLES
    reg,    \* reg[k]: the current record of k
    used,   \* pairs of a key and a nonce that has written it
    raced   \* keys at which two writers have met

Rows == [seq : Int, exp : Int, by : Nonces]

Init ==
    /\ reg = [k \in Keys |-> NoRow]
    /\ used = {} /\ raced = {}

\* Some record with a greater seq and a new nonce becomes the content of k.
Write(k) ==
    LET r == reg'[k] IN
    /\ r \in Rows
    /\ <<k, r.by>> \notin used
    /\ reg[k] # NoRow => r.seq > reg[k].seq
    /\ reg' = [reg EXCEPT ![k] = r]
    /\ used' = used \cup {<<k, r.by>>}
    /\ UNCHANGED raced

Meet(k) ==
    /\ raced' = raced \cup {k}
    /\ UNCHANGED <<reg, used>>

\* Whatever is written to k, other keys are left alone.
Overwrite(k) ==
    LET r == reg'[k] IN
    /\ k \in raced
    /\ r \in Rows
    /\ reg' = [reg EXCEPT ![k] = r]
    /\ used' = used \cup {<<k, r.by>>}
    /\ UNCHANGED raced

Next == \E k \in Keys : Write(k) \/ Meet(k) \/ Overwrite(k)

Spec == Init /\ [][Next]_<<reg, used, raced>>
=============================================================================
