----------------------------- MODULE CertCache -----------------------------
(***************************************************************************)
(* The process-wide cache of OpenPGP certificates by fingerprint           *)
(* (dht-core/src/crypto_helpers.rs): least recently used entries are       *)
(* evicted.  A lookup copies the entry under the read lock and dates it    *)
(* under the write lock afterwards; between the two other threads insert,  *)
(* look up and evict.                                                      *)
(*                                                                         *)
(* The certificates themselves are left out.                               *)
(***************************************************************************)
EXTENDS Integers, FiniteSets

CONSTANTS
    Threads,     \* threads that verify signatures
    Prints,      \* fingerprints
    NoCert,      \* no entry
    CacheMax,    \* CERT_CACHE_MAX_ENTRIES
    MaxInstant   \* bound: operations

ASSUME CertCacheAssumption ==
    /\ CacheMax \in Nat \ {0} /\ MaxInstant \in Nat
    /\ NoCert \notin Nat /\ NoCert \notin Prints

VARIABLES
    instant,    \* Instant::now(), which moves with every operation
    certCache,  \* certCache[f]: when the entry was last accessed, or NoCert
    touching,   \* touching[t]: the entry t has copied and not dated yet, or NoCert
    sought      \* observation: when f was last looked up or entered

certVars == <<instant, certCache, touching, sought>>

Cached == {f \in Prints : certCache[f] # NoCert}

CertInit ==
    /\ instant = 1
    /\ certCache = [f \in Prints |-> NoCert]
    /\ touching = [t \in Threads |-> NoCert]
    /\ sought = [f \in Prints |-> 0]

Now == instant < MaxInstant /\ instant' = instant + 1

\* cache_cert: insert or replace, then evict the oldest entry if there is one too many.
CacheCert(f) ==
    LET with == [certCache EXCEPT ![f] = instant]
        all == Cached \cup {f}
        lru == CHOOSE g \in all : \A h \in all : with[g] <= with[h]
    IN certCache' = IF Cardinality(all) > CacheMax THEN [with EXCEPT ![lru] = NoCert] ELSE with

\* verify_signature_with_cert enters the certificate it was given.
VerifyWithCert(t, f) ==
    /\ touching[t] = NoCert /\ Now
    /\ CacheCert(f)
    /\ sought' = [sought EXCEPT ![f] = instant]
    /\ UNCHANGED touching

\* get_cached_cert, first half.
LookUp(t, f) ==
    /\ touching[t] = NoCert /\ Now
    /\ f \in Cached
    /\ touching' = [touching EXCEPT ![t] = f]
    /\ sought' = [sought EXCEPT ![f] = instant]
    /\ UNCHANGED certCache

\* Mutant of Touch: the lookup does not date the entry.
TouchNot(t) ==
    /\ touching[t] # NoCert /\ Now
    /\ touching' = [touching EXCEPT ![t] = NoCert]
    /\ UNCHANGED <<certCache, sought>>

\* get_cached_cert, second half: an entry that is gone by now stays away.
Touch(t) ==
    /\ touching[t] # NoCert /\ Now
    /\ LET f == touching[t]
       IN certCache' = IF f \in Cached THEN [certCache EXCEPT ![f] = instant] ELSE certCache
    /\ touching' = [touching EXCEPT ![t] = NoCert]
    /\ UNCHANGED sought

CertNext ==
    \E t \in Threads :
       \/ Touch(t)
       \/ \E f \in Prints : VerifyWithCert(t, f) \/ LookUp(t, f)

CertSpec == CertInit /\ [][CertNext]_certVars

-----------------------------------------------------------------------------
(* Properties                                                               *)

\* An entry is evicted only for one that was used no earlier: no survivor's last
\* use was over before the evicted entry's last use began, unless the evicted
\* entry was being looked up at that moment.  And the cache never exceeds its
\* size.
EvictsLeastRecent ==
    [][/\ Cardinality({f \in Prints : certCache'[f] # NoCert}) <= CacheMax
       /\ \A f \in Cached : certCache'[f] = NoCert =>
             \/ \E t \in Threads : touching[t] = f
             \/ \A g \in Prints \ {f} : certCache'[g] # NoCert => sought[f] <= certCache'[g]
      ]_certVars
=============================================================================
