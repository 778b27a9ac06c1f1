--------------------------- MODULE RelayAdmission ---------------------------
(***************************************************************************)
(* How the relay admits a request (relay/src/main.rs, the relay-store,     *)
(* relay-fetch, relay-ack, relay-purge and relay-forward arms of           *)
(* handle_message up to the call that touches the mailboxes): the checks   *)
(* of the signature against the certificate cache and of the timestamp,    *)
(* then check_and_record_nonce_str, which waits for its lock in between.   *)
(* The network may deliver a request late and more than once.              *)
(* The timestamp of the envelope is not signed, and is taken to be current. *)
(*                                                                         *)
(* The clock advances in half seconds: check_timestamp_freshness compares  *)
(* a fractional time, check_and_record_nonce_str one cut to whole seconds. *)
(***************************************************************************)
EXTENDS Integers, FiniteSets

CONSTANTS
    Handlers,      \* connection handler tasks
    Reqs,          \* requests clients and peers send
    Fps,           \* fingerprints requests are made under
    NonceStrings,  \* values of the nonce field
    KindOf, FpOf, NonceOf,   \* the fields of a request
    StampOf,       \* its timestamp, in half seconds; the sender's clock may differ
    Signed,        \* requests whose signature checks out (of a sealed store: is there)
    Maced,         \* requests whose HMAC checks out, or need not
    Eligible,      \* forwards that pass the edge-mode, peer, loop and hop checks;
                   \* others whose null id is that of their fingerprint
    Certified,     \* requests with a certificate in sender_cert
    Tolerance,     \* STORE_TIMESTAMP_TOLERANCE_SECS
    MaxNonces,     \* MAX_NONCES_PER_SENDER
    MaxClock,      \* bound: the clock stops here
    MaxDeliveries, \* bound: requests and copies of them that arrive
    MaxCrashes     \* bound: relay restarts

Kinds == {"store", "sealed", "forward", "fetch", "ack", "purge"}

ASSUME AdmissionAssumption ==
    /\ IsFiniteSet(Reqs)
    /\ KindOf \in [Reqs -> Kinds]
    /\ FpOf \in [Reqs -> Fps]
    /\ NonceOf \in [Reqs -> NonceStrings]
    /\ StampOf \in [Reqs -> Nat]
    /\ Signed \subseteq Reqs /\ Maced \subseteq Reqs
    /\ Eligible \subseteq Reqs /\ Certified \subseteq Reqs
    /\ Tolerance \in Nat
    /\ MaxNonces \in Nat /\ MaxNonces >= 2
    /\ MaxClock \in Nat /\ MaxDeliveries \in Nat /\ MaxCrashes \in Nat

VARIABLES
    clock,      \* half seconds of the relay host's clock
    pc,         \* where each handler is
    req,        \* the request each handler works on
    certs,      \* fingerprints with a certificate in cert_cache
    seen,       \* seen[f]: the pairs of seen_nonce_strs[f], n numbering the pushes
    pushes, crashes,
    delivered,  \* how many requests have arrived, copies included
    admitted,   \* admitted[q]: how often q was admitted
    \* Observations the properties are stated with; no action reads them.
    first,      \* first[q]: when q was first admitted
    forgotten,  \* keys that left `seen' although they were not old
    late        \* requests recorded when their timestamp had run out

ghosts == <<first, forgotten, late>>
admissionVars == <<clock, pc, req, certs, seen, pushes, crashes, delivered, admitted,
                   ghosts>>

\* The string a request is remembered by.  relay-fetch and relay-ack build the
\* same one from the same nonce.
Classes == {"plain", "owner", "purge"}
ClassOf(kind) ==
    CASE kind \in {"store", "sealed", "forward"} -> "plain"
      [] kind \in {"fetch", "ack"}               -> "owner"
      [] OTHER                                   -> "purge"
ReplayKeys == Classes \X NonceStrings
Key(q) == <<ClassOf(KindOf[q]), NonceOf[q]>>
Entries == [key : ReplayKeys, at : Nat, n : Nat]
NoReq == "none"

Secs(t) == t \div 2

-----------------------------------------------------------------------------
(* check_timestamp_freshness and verify_gpg_detached                        *)

Fresh(q) ==
    /\ clock - StampOf[q] <= 2 * Tolerance
    /\ StampOf[q] - clock <= 2 * Tolerance

\* The checks each arm makes before it calls verify_gpg_detached; a sealed store
\* never calls it.
ReachesVerify(q) ==
    CASE KindOf[q] = "store"            -> TRUE
      [] KindOf[q] = "sealed"           -> FALSE
      [] KindOf[q] = "forward"          -> q \in Eligible
      [] KindOf[q] \in {"fetch", "ack"} -> Fresh(q) /\ q \in Eligible
      [] KindOf[q] = "purge"            -> q \in Maced /\ Fresh(q) /\ q \in Eligible

\* A certificate that comes with the request is cached before it is used; a
\* forward and a purge pass the empty string instead.
CarriesCert(q) == KindOf[q] \in {"store", "fetch", "ack"} /\ q \in Certified
CertsAfter(q) ==
    IF ReachesVerify(q) /\ CarriesCert(q) THEN certs \cup {FpOf[q]} ELSE certs

\* Mutant of Passes: a failed verification is not an error.
PassesUnverified(q) ==
    /\ Fresh(q)
    /\ KindOf[q] # "sealed" => ReachesVerify(q) /\ FpOf[q] \in CertsAfter(q)

Passes(q) ==
    /\ Fresh(q)
    /\ q \in Signed
    /\ KindOf[q] # "sealed" => ReachesVerify(q) /\ FpOf[q] \in CertsAfter(q)

-----------------------------------------------------------------------------
(* check_and_record_nonce_str                                               *)

\* Mutant of Retained: a pair exactly as old as the window is dropped.
RetainedTooShort(f) == {e \in seen[f] : e.at > Secs(clock) - Tolerance}

\* retain: pairs recorded in the last Tolerance seconds.
Retained(f) == {e \in seen[f] : e.at >= Secs(clock) - Tolerance}

\* Mutant of Drained: the list is halved only once it has outgrown the cap.
DrainedLate(f) ==
    LET kept == Retained(f) IN
    IF Cardinality(kept) <= MaxNonces THEN {}
    ELSE {e \in kept :
            Cardinality({d \in kept : d.n < e.n}) < Cardinality(kept) \div 2}

\* drain(0..len / 2): the older half, when the list is full.
Drained(f) ==
    LET kept == Retained(f) IN
    IF Cardinality(kept) < MaxNonces THEN {}
    ELSE {e \in kept :
            Cardinality({d \in kept : d.n < e.n}) < Cardinality(kept) \div 2}

KeysOf(S) == {e.key : e \in S}

-----------------------------------------------------------------------------
AdmissionInit ==
    /\ clock = 0 /\ pushes = 0 /\ crashes = 0 /\ delivered = 0
    /\ pc = [h \in Handlers |-> "idle"]
    /\ req = [h \in Handlers |-> NoReq]
    /\ certs = {}
    /\ seen = [f \in Fps |-> {}]
    /\ admitted = [q \in Reqs |-> 0]
    /\ first = [q \in Reqs |-> 0]
    /\ forgotten = {} /\ late = {}

MoveTo(h, label) == pc' = [pc EXCEPT ![h] = label]

\* The handler answers, with an error or after the mailboxes were served, and
\* goes back to its message loop.
Finish(h) ==
    /\ MoveTo(h, "idle")
    /\ req' = [req EXCEPT ![h] = NoReq]

\* The network delivers a copy of q on h's connection.
DeliverCopy(h, q) ==
    /\ pc[h] = "idle"
    /\ delivered < MaxDeliveries
    /\ delivered' = delivered + 1
    /\ MoveTo(h, "check")
    /\ req' = [req EXCEPT ![h] = q]
    /\ UNCHANGED <<clock, certs, seen, pushes, crashes, admitted, ghosts>>

Check(h) ==
    /\ pc[h] = "check"
    /\ certs' = CertsAfter(req[h])
    /\ IF Passes(req[h]) THEN MoveTo(h, "record") /\ UNCHANGED req
                         ELSE Finish(h)
    /\ UNCHANGED <<clock, seen, pushes, crashes, delivered, admitted, ghosts>>

\* try_write or try_read of cert_cache fails while another handler holds it: the
\* request is refused, before or after its certificate was cached.
CheckBusy(h) ==
    /\ pc[h] = "check"
    /\ \E g \in Handlers \ {h} : pc[g] = "check"
    /\ ReachesVerify(req[h])
    /\ certs' \in {certs, CertsAfter(req[h])}
    /\ Finish(h)
    /\ UNCHANGED <<clock, seen, pushes, crashes, delivered, admitted, ghosts>>

\* The nonce is known: "replay detected".
Refuse(h) ==
    /\ pc[h] = "record"
    /\ Key(req[h]) \in KeysOf(seen[FpOf[req[h]]])
    /\ Finish(h)
    /\ UNCHANGED <<clock, certs, seen, pushes, crashes, delivered, admitted, ghosts>>

\* The nonce is new: old pairs leave, the list is halved if it is full, the nonce
\* is pushed.  The HMAC of a fetch is checked only then, so a fetch it refuses
\* stays recorded.
Record(h) ==
    LET q == req[h]
        f == FpOf[q] IN
    /\ pc[h] = "record"
    /\ Key(q) \notin KeysOf(seen[f])
    /\ seen' = [seen EXCEPT ![f] =
                  (Retained(f) \ Drained(f))
                    \cup {[key |-> Key(q), at |-> Secs(clock), n |-> pushes]}]
    /\ pushes' = pushes + 1
    /\ forgotten' = forgotten \cup ({f} \X KeysOf(Drained(f)))
    /\ IF KindOf[q] = "fetch" /\ q \notin Maced
       THEN UNCHANGED <<admitted, first, late>>
       ELSE /\ admitted' = [admitted EXCEPT ![q] = @ + 1]
            /\ first' = IF admitted[q] = 0 THEN [first EXCEPT ![q] = clock] ELSE first
            /\ late' = IF Fresh(q) THEN late ELSE late \cup {q}
    /\ Finish(h)
    /\ UNCHANGED <<clock, certs, crashes, delivered>>

Tick ==
    /\ clock < MaxClock
    /\ clock' = clock + 1
    /\ UNCHANGED <<pc, req, certs, seen, pushes, crashes, delivered, admitted, ghosts>>

\* Both maps live in memory only.
Restart ==
    /\ crashes < MaxCrashes
    /\ crashes' = crashes + 1
    /\ pc' = [h \in Handlers |-> "idle"]
    /\ req' = [h \in Handlers |-> NoReq]
    /\ certs' = {}
    /\ seen' = [f \in Fps |-> {}]
    /\ forgotten' = forgotten \cup UNION {{f} \X KeysOf(seen[f]) : f \in Fps}
    /\ UNCHANGED <<clock, pushes, delivered, admitted, first, late>>

Step(h) == Check(h) \/ CheckBusy(h) \/ Refuse(h) \/ Record(h)

AdmissionNext ==
    \/ \E h \in Handlers : (\E q \in Reqs : DeliverCopy(h, q)) \/ Step(h)
    \/ Tick
    \/ Restart

AdmissionSpec == AdmissionInit /\ [][AdmissionNext]_admissionVars
-----------------------------------------------------------------------------
(* Properties                                                               *)

\* Every variable has its type, and a handler past its checks works on a request
\* whose signature checked out.
AdmissionTypeOK ==
    /\ clock \in 0 .. MaxClock
    /\ pc \in [Handlers -> {"idle", "check", "record"}]
    /\ req \in [Handlers -> Reqs \cup {NoReq}]
    /\ \A h \in Handlers :
          /\ pc[h] # "idle" => req[h] \in Reqs
          /\ pc[h] = "record" => req[h] \in Signed
    /\ certs \subseteq Fps
    /\ seen \in [Fps -> SUBSET Entries]
    /\ pushes \in Nat
    /\ crashes \in 0 .. MaxCrashes
    /\ delivered \in 0 .. MaxDeliveries
    /\ admitted \in [Reqs -> Nat]
    /\ first \in [Reqs -> 0 .. MaxClock]
    /\ forgotten \subseteq Fps \X ReplayKeys
    /\ late \subseteq Reqs

\* A request is admitted once, however often and however late the network
\* delivers it and whichever handlers take the copies up, with three exceptions:
\* its timestamp was ahead of the relay's clock (its freshness then outlives its
\* pair in seen_nonce_strs); its nonce was given up by the cap or by a restart;
\* its timestamp ran out between its freshness check and its nonce check.  The
\* truncation to whole seconds adds none.
AdmittedOnce ==
    \A q \in Reqs :
        admitted[q] >= 2 =>
            \/ StampOf[q] > first[q]
            \/ <<FpOf[q], Key(q)>> \in forgotten
            \/ q \in late

\* seen_nonce_strs never holds more than MAX_NONCES_PER_SENDER nonces of a
\* fingerprint, nor one nonce twice.
GuardBounded ==
    \A f \in Fps :
        /\ Cardinality(seen[f]) <= MaxNonces
        /\ \A d, e \in seen[f] : d.key = e.key => d = e
=============================================================================
