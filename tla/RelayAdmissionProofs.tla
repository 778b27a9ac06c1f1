------------------------ MODULE RelayAdmissionProofs ------------------------
(***************************************************************************)
(* Proofs about RelayAdmission, for any number of handlers, requests and    *)
(* deliveries, any tolerance and any cap.                                   *)
(***************************************************************************)
EXTENDS RelayAdmission, FiniteSetTheorems, WellFoundedInduction, TLAPS

\* q's key is in seen_nonce_strs, with a time not before q was first admitted.
Kept(q) ==
    \E e \in seen[FpOf[q]] : e.key = Key(q) /\ e.at >= Secs(first[q])

\* The strengthening: an admitted request is still remembered, or too old to pass
\* the freshness check again, or one of the exceptions.
Remembered ==
    \A q \in Reqs : admitted[q] >= 1 =>
        /\ first[q] <= clock
        /\ \/ StampOf[q] > first[q]
           \/ <<FpOf[q], Key(q)>> \in forgotten
           \/ Kept(q)
           \/ clock - StampOf[q] > 2 * Tolerance

-----------------------------------------------------------------------------
\* Truncation to whole seconds loses less than a second.
LEMMA SecsBounds ==
    ASSUME NEW t \in Nat
    PROVE  Secs(t) \in Nat /\ 2 * Secs(t) <= t /\ t <= 2 * Secs(t) + 1
BY DEF Secs

LEMMA SecsMonotone ==
    ASSUME NEW s \in Nat, NEW t \in Nat, s <= t
    PROVE  Secs(s) <= Secs(t)
<1>1. Secs(s) \in Nat /\ 2 * Secs(s) <= s
  BY SecsBounds
<1>2. Secs(t) \in Nat /\ t <= 2 * Secs(t) + 1
  BY SecsBounds
<1> QED
  BY <1>1, <1>2

LEMMA KeyType == ASSUME NEW q \in Reqs PROVE Key(q) \in ReplayKeys
BY AdmissionAssumption DEF Key, ReplayKeys, ClassOf, Classes

\* A pair that retain drops belonged to a request that was stamped no later than
\* it was admitted only if that request is stale by now.
LEMMA PrunedIsStale ==
    ASSUME NEW stamp \in Nat, NEW t \in Nat, NEW now \in Nat, NEW at \in Nat,
           stamp <= t, at >= Secs(t), at < Secs(now) - Tolerance
    PROVE  now - stamp > 2 * Tolerance
<1>1. t <= 2 * Secs(t) + 1 /\ Secs(t) \in Nat
  BY SecsBounds
<1>2. 2 * Secs(now) <= now /\ Secs(now) \in Nat
  BY SecsBounds
<1> QED
  BY <1>1, <1>2, AdmissionAssumption

LEMMA EntryType ==
    ASSUME AdmissionTypeOK, NEW q \in Reqs
    PROVE  [key |-> Key(q), at |-> Secs(clock), n |-> pushes] \in Entries
<1>1. Key(q) \in ReplayKeys
  BY KeyType
<1>2. clock \in Nat /\ pushes \in Nat
  BY AdmissionAssumption DEF AdmissionTypeOK
<1>3. Secs(clock) \in Nat
  BY <1>2, SecsBounds
<1> QED
  BY <1>1, <1>2, <1>3 DEF Entries

LEMMA DrainedKept ==
    ASSUME NEW f
    PROVE  Drained(f) \subseteq Retained(f) /\ Retained(f) \subseteq seen[f]
BY DEF Drained, Retained

-----------------------------------------------------------------------------
LEMMA TypeInit == AdmissionInit => AdmissionTypeOK
BY AdmissionAssumption DEF AdmissionInit, AdmissionTypeOK, NoReq

LEMMA TypeStep == AdmissionTypeOK /\ [AdmissionNext]_admissionVars => AdmissionTypeOK'
<1> SUFFICES ASSUME AdmissionTypeOK, [AdmissionNext]_admissionVars PROVE AdmissionTypeOK'
  OBVIOUS
<1> USE AdmissionAssumption DEF MoveTo, Finish, ghosts
<1>1. ASSUME NEW h \in Handlers, NEW q \in Reqs, DeliverCopy(h, q) PROVE AdmissionTypeOK'
  BY <1>1 DEF DeliverCopy, AdmissionTypeOK
<1>2. ASSUME NEW h \in Handlers, Check(h) PROVE AdmissionTypeOK'
  <2>1. req[h] \in Reqs
    BY <1>2 DEF Check, AdmissionTypeOK
  <2>2. CertsAfter(req[h]) \subseteq Fps
    BY <2>1 DEF CertsAfter, AdmissionTypeOK
  <2> QED
    BY <1>2, <2>1, <2>2 DEF Check, Passes, AdmissionTypeOK
<1>3. ASSUME NEW h \in Handlers, CheckBusy(h) PROVE AdmissionTypeOK'
  <2>1. req[h] \in Reqs
    BY <1>3 DEF CheckBusy, AdmissionTypeOK
  <2>2. CertsAfter(req[h]) \subseteq Fps
    BY <2>1 DEF CertsAfter, AdmissionTypeOK
  <2> QED
    BY <1>3, <2>1, <2>2 DEF CheckBusy, AdmissionTypeOK
<1>4. ASSUME NEW h \in Handlers, Refuse(h) PROVE AdmissionTypeOK'
  BY <1>4 DEF Refuse, AdmissionTypeOK
<1>5. ASSUME NEW h \in Handlers, Record(h) PROVE AdmissionTypeOK'
  <2> DEFINE q == req[h]
             f == FpOf[q]
             new == [key |-> Key(q), at |-> Secs(clock), n |-> pushes]
  <2>1. q \in Reqs /\ f \in Fps
    BY <1>5 DEF Record, AdmissionTypeOK
  <2>2. new \in Entries
    BY <2>1, EntryType
  <2>3. seen' = [seen EXCEPT ![f] = (Retained(f) \ Drained(f)) \cup {new}]
    BY <1>5 DEF Record
  <2> HIDE DEF new
  <2>4. seen' \in [Fps -> SUBSET Entries]
    BY <2>1, <2>2, <2>3, DrainedKept DEF AdmissionTypeOK
  <2>5. KeysOf(Drained(f)) \subseteq ReplayKeys
    BY <2>1, DrainedKept DEF KeysOf, AdmissionTypeOK, Entries
  <2>6. forgotten' \subseteq Fps \X ReplayKeys
    BY <1>5, <2>1, <2>5 DEF Record, AdmissionTypeOK
  <2>7. /\ admitted' \in [Reqs -> Nat]
        /\ first' \in [Reqs -> 0 .. MaxClock]
        /\ late' \subseteq Reqs
    BY <1>5, <2>1 DEF Record, AdmissionTypeOK
  <2>8. /\ pc' \in [Handlers -> {"idle", "check", "record"}]
        /\ req' \in [Handlers -> Reqs \cup {NoReq}]
        /\ \A g \in Handlers :
              /\ pc'[g] # "idle" => req'[g] \in Reqs
              /\ pc'[g] = "record" => req'[g] \in Signed
    BY <1>5 DEF Record, AdmissionTypeOK
  <2>9. UNCHANGED <<clock, certs, crashes, delivered>> /\ pushes' = pushes + 1
    BY <1>5 DEF Record
  <2> QED
    BY <2>4, <2>6, <2>7, <2>8, <2>9 DEF AdmissionTypeOK
<1>6. CASE Tick
  BY <1>6 DEF Tick, AdmissionTypeOK
<1>7. CASE Restart
  <2>1. forgotten' \subseteq Fps \X ReplayKeys
    BY <1>7 DEF Restart, KeysOf, AdmissionTypeOK, Entries
  <2> QED
    BY <1>7, <2>1 DEF Restart, AdmissionTypeOK
<1>8. CASE UNCHANGED admissionVars
  BY <1>8 DEF admissionVars, AdmissionTypeOK
<1> QED
  BY <1>1, <1>2, <1>3, <1>4, <1>5, <1>6, <1>7, <1>8 DEF AdmissionNext, Step

\* Type correctness of the admission state, and no handler goes on to the nonce
\* check with a request that verify_gpg_detached has not accepted.
THEOREM AdmissionTypeCorrect == AdmissionSpec => []AdmissionTypeOK
BY TypeInit, TypeStep, PTL DEF AdmissionSpec

-----------------------------------------------------------------------------
(* At most once                                                             *)

LEMMA OnceInit == AdmissionInit => Remembered /\ AdmittedOnce
BY DEF AdmissionInit, Remembered, AdmittedOnce

\* A step that leaves the admissions alone, forgets nothing silently and does not
\* turn the clock back.
LEMMA OnceFrame ==
    ASSUME AdmissionTypeOK, AdmissionTypeOK', Remembered, AdmittedOnce,
           admitted' = admitted, first' = first, late' = late, seen' = seen,
           forgotten \subseteq forgotten', clock <= clock'
    PROVE  Remembered' /\ AdmittedOnce'
<1>1. AdmittedOnce'
  BY DEF AdmittedOnce
<1>2. Remembered'
  BY AdmissionAssumption DEF Remembered, Kept, AdmissionTypeOK
<1> QED
  BY <1>1, <1>2

LEMMA OnceRecord ==
    ASSUME AdmissionTypeOK, AdmissionTypeOK', Remembered, AdmittedOnce,
           NEW h \in Handlers, Record(h)
    PROVE  Remembered' /\ AdmittedOnce'
<1> DEFINE r == req[h]
           f == FpOf[r]
           new == [key |-> Key(r), at |-> Secs(clock), n |-> pushes]
<1>1. r \in Reqs /\ f \in Fps /\ clock \in Nat /\ clock' = clock
  BY AdmissionAssumption DEF Record, AdmissionTypeOK
<1>2. /\ seen' = [seen EXCEPT ![f] = (Retained(f) \ Drained(f)) \cup {new}]
      /\ forgotten' = forgotten \cup ({f} \X KeysOf(Drained(f)))
      /\ Key(r) \notin KeysOf(seen[f])
  BY DEF Record
<1>3. new.key = Key(r) /\ new.at = Secs(clock)
  OBVIOUS
<1> HIDE DEF new
<1>4. ASSUME NEW q \in Reqs, admitted[q] >= 1, StampOf[q] <= first[q],
             <<FpOf[q], Key(q)>> \notin forgotten', Kept(q)
      PROVE  \/ \E e \in seen'[FpOf[q]] : e.key = Key(q) /\ e.at >= Secs(first[q])
             \/ clock - StampOf[q] > 2 * Tolerance
  <2>1. PICK e \in seen[FpOf[q]] : e.key = Key(q) /\ e.at >= Secs(first[q])
    BY <1>4 DEF Kept
  <2>2. CASE FpOf[q] # f
    BY <1>1, <1>2, <2>1, <2>2 DEF AdmissionTypeOK
  <2>3. CASE FpOf[q] = f /\ e \notin Retained(f)
    <3>1. e.at < Secs(clock) - Tolerance
      <4>1. Secs(clock) \in Nat
        BY <1>1, SecsBounds
      <4>2. e \in seen[f] /\ e.at \in Nat
        BY <1>1, <2>1, <2>3 DEF AdmissionTypeOK, Entries
      <4> QED
        BY <2>3, <4>1, <4>2, AdmissionAssumption DEF Retained
    <3>2. e.at \in Nat /\ first[q] \in Nat /\ StampOf[q] \in Nat
      BY <1>1, <2>1, <2>3, AdmissionAssumption DEF AdmissionTypeOK, Entries
    <3> QED
      BY <1>1, <1>4, <2>1, <3>1, <3>2, PrunedIsStale
  <2>4. CASE FpOf[q] = f /\ e \in Drained(f)
    BY <1>2, <1>4, <2>1, <2>4 DEF KeysOf
  <2>5. CASE FpOf[q] = f /\ e \in Retained(f) \ Drained(f)
    BY <1>1, <1>2, <2>1, <2>5 DEF AdmissionTypeOK
  <2> QED
    BY <2>2, <2>3, <2>4, <2>5
<1>5. CASE admitted' = admitted /\ first' = first /\ late' = late
  <2>1. AdmittedOnce'
    BY <1>2, <1>5 DEF AdmittedOnce
  <2>2. Remembered'
    BY <1>1, <1>2, <1>4, <1>5, AdmissionAssumption DEF Remembered, Kept, AdmissionTypeOK
  <2> QED
    BY <2>1, <2>2
<1>6. CASE /\ admitted' = [admitted EXCEPT ![r] = @ + 1]
           /\ first' = IF admitted[r] = 0 THEN [first EXCEPT ![r] = clock] ELSE first
           /\ late' = IF Fresh(r) THEN late ELSE late \cup {r}
  <2>1. ~Kept(r)
    BY <1>2 DEF Kept, KeysOf
  <2>2. first'[r] \in Nat /\ first'[r] <= clock
    <3>1. CASE admitted[r] = 0
      BY <1>1, <1>6, <3>1 DEF AdmissionTypeOK
    <3>2. CASE admitted[r] # 0
      <4>1. admitted[r] >= 1
        BY <1>1, <3>2 DEF AdmissionTypeOK
      <4>2. first'[r] = first[r]
        BY <1>6, <3>2
      <4>3. first[r] \in Nat
        BY <1>1, AdmissionAssumption DEF AdmissionTypeOK
      <4>4. first[r] <= clock
        BY <1>1, <4>1 DEF Remembered
      <4> QED
        BY <4>2, <4>3, <4>4
    <3> QED
      BY <3>1, <3>2
  <2>3. \E e \in seen'[f] : e.key = Key(r) /\ e.at >= Secs(first'[r])
    <3>1. new \in seen'[f]
      BY <1>1, <1>2 DEF AdmissionTypeOK
    <3>2. Secs(clock) >= Secs(first'[r])
      BY <1>1, <2>2, SecsMonotone, SecsBounds
    <3> QED
      BY <1>3, <3>1, <3>2
  <2>4. ASSUME NEW q \in Reqs, q # r
        PROVE  admitted'[q] = admitted[q] /\ first'[q] = first[q]
    BY <1>1, <1>6, <2>4 DEF AdmissionTypeOK
  <2>5. Remembered'
    <3> SUFFICES ASSUME NEW q \in Reqs, admitted'[q] >= 1
                 PROVE  /\ first'[q] <= clock'
                        /\ \/ StampOf[q] > first'[q]
                           \/ <<FpOf[q], Key(q)>> \in forgotten'
                           \/ \E e \in seen'[FpOf[q]] :
                                 e.key = Key(q) /\ e.at >= Secs(first'[q])
                           \/ clock' - StampOf[q] > 2 * Tolerance
      BY DEF Remembered, Kept
    <3>1. CASE q = r
      BY <1>1, <2>2, <2>3, <3>1
    <3>2. CASE q # r
      BY <1>1, <1>2, <1>4, <2>4, <3>2, AdmissionAssumption DEF Remembered, AdmissionTypeOK
    <3> QED
      BY <3>1, <3>2
  <2>6. AdmittedOnce'
    <3> SUFFICES ASSUME NEW q \in Reqs, admitted'[q] >= 2
                 PROVE  \/ StampOf[q] > first'[q]
                        \/ <<FpOf[q], Key(q)>> \in forgotten'
                        \/ q \in late'
      BY DEF AdmittedOnce
    <3>1. CASE q = r
      <4>1. admitted[r] >= 1 /\ first'[r] = first[r]
        BY <1>1, <1>6, <3>1 DEF AdmissionTypeOK
      <4>2. \/ StampOf[r] > first[r]
            \/ <<FpOf[r], Key(r)>> \in forgotten
            \/ clock - StampOf[r] > 2 * Tolerance
        BY <1>1, <2>1, <4>1 DEF Remembered
      <4>3. clock - StampOf[r] > 2 * Tolerance => ~Fresh(r)
        BY <1>1, AdmissionAssumption DEF Fresh
      <4> QED
        BY <1>2, <1>6, <3>1, <4>1, <4>2, <4>3
    <3>2. CASE q # r
      BY <1>2, <1>6, <2>4, <3>2 DEF AdmittedOnce
    <3> QED
      BY <3>1, <3>2
  <2> QED
    BY <2>5, <2>6
<1> QED
  BY <1>5, <1>6 DEF Record

LEMMA OnceStep ==
    ASSUME AdmissionTypeOK, AdmissionTypeOK', Remembered, AdmittedOnce,
           [AdmissionNext]_admissionVars
    PROVE  Remembered' /\ AdmittedOnce'
<1> USE DEF ghosts
<1>0. clock \in Nat
  BY AdmissionAssumption DEF AdmissionTypeOK
<1>1. ASSUME NEW h \in Handlers, NEW q \in Reqs, DeliverCopy(h, q)
      PROVE  Remembered' /\ AdmittedOnce'
  BY <1>0, <1>1, OnceFrame DEF DeliverCopy
<1>2. ASSUME NEW h \in Handlers, Check(h) PROVE Remembered' /\ AdmittedOnce'
  BY <1>0, <1>2, OnceFrame DEF Check
<1>3. ASSUME NEW h \in Handlers, CheckBusy(h) PROVE Remembered' /\ AdmittedOnce'
  BY <1>0, <1>3, OnceFrame DEF CheckBusy
<1>4. ASSUME NEW h \in Handlers, Refuse(h) PROVE Remembered' /\ AdmittedOnce'
  BY <1>0, <1>4, OnceFrame DEF Refuse
<1>5. ASSUME NEW h \in Handlers, Record(h) PROVE Remembered' /\ AdmittedOnce'
  BY <1>5, OnceRecord
<1>6. CASE Tick
  BY <1>0, <1>6, OnceFrame DEF Tick
<1>7. CASE Restart
  <2>1. AdmittedOnce'
    BY <1>7 DEF Restart, AdmittedOnce
  <2>2. ASSUME NEW q \in Reqs, Kept(q) PROVE <<FpOf[q], Key(q)>> \in forgotten'
    <3>1. FpOf[q] \in Fps /\ Key(q) \in KeysOf(seen[FpOf[q]])
      BY <2>2, AdmissionAssumption DEF Kept, KeysOf
    <3> QED
      BY <1>7, <3>1 DEF Restart
  <2>3. Remembered'
    BY <1>7, <2>2, AdmissionAssumption DEF Restart, Remembered, AdmissionTypeOK
  <2> QED
    BY <2>1, <2>3
<1>8. CASE UNCHANGED admissionVars
  BY <1>0, <1>8, OnceFrame DEF admissionVars
<1> QED
  BY <1>1, <1>2, <1>3, <1>4, <1>5, <1>6, <1>7, <1>8 DEF AdmissionNext, Step

\* check_timestamp_freshness and check_and_record_nonce_str together admit a
\* request at most once, whatever the tolerance, the cap and the interleaving, but
\* for the exceptions AdmittedOnce names.
THEOREM AtMostOnce == AdmissionSpec => []AdmittedOnce
<1>1. AdmissionInit => Remembered /\ AdmittedOnce
  BY OnceInit
<1>2. AdmissionTypeOK /\ AdmissionTypeOK' /\ (Remembered /\ AdmittedOnce)
        /\ [AdmissionNext]_admissionVars => (Remembered /\ AdmittedOnce)'
  BY OnceStep
<1> QED
  BY <1>1, <1>2, AdmissionTypeCorrect, PTL DEF AdmissionSpec

-----------------------------------------------------------------------------
(* The cap on nonces                                                        *)

\* Every nonempty set of naturals has a least element.
LEMMA LeastOf ==
    ASSUME NEW T \in SUBSET Nat, T # {}
    PROVE  \E x \in T : \A y \in T : x <= y
<1> DEFINE R == {ss \in Nat \X Nat : ss[1] < ss[2]}
<1>1. IsWellFoundedOn(R, Nat)
  BY NatLessThanWellFounded DEF OpToRel
<1> HIDE DEF R
<1>2. \E x \in T : \A y \in T : ~ (<<y, x>> \in R)
  BY <1>1, WFMin
<1>3. ASSUME NEW x \in Nat, NEW y \in Nat, ~ (<<y, x>> \in R)
      PROVE  x <= y
  <2>1. <<y, x>> \in Nat \X Nat
    OBVIOUS
  <2>2. ~(<<y, x>>[1] < <<y, x>>[2])
    BY <1>3, <2>1 DEF R
  <2> QED
    BY <2>2
<1> QED
  BY <1>2, <1>3

\* A full list loses at least its oldest pair.
LEMMA DrainedNotEmpty ==
    ASSUME AdmissionTypeOK, NEW f \in Fps, IsFiniteSet(seen[f]),
           Cardinality(Retained(f)) >= MaxNonces
    PROVE  Drained(f) # {}
<1> DEFINE kept == Retained(f)
           half == Cardinality(kept) \div 2
           before(e) == {d \in kept : d.n < e.n}
           T == {e.n : e \in kept}
<1>1. kept \in SUBSET seen[f] /\ kept \in SUBSET Entries
  BY DEF Retained, AdmissionTypeOK
<1>2. IsFiniteSet(kept) /\ Cardinality(kept) \in Nat
  BY <1>1, FS_Subset, FS_CardinalityType
<1>3. half >= 1
  BY <1>2, AdmissionAssumption
<1>4. kept # {}
  <2>1. kept = {} => Cardinality(kept) = 0
    BY FS_EmptySet
  <2> QED
    BY <1>2, <2>1, AdmissionAssumption
<1>5. T \in SUBSET Nat /\ T # {}
  BY <1>1, <1>4 DEF Entries
<1>6. PICK x \in T : \A y \in T : x <= y
  BY <1>5, LeastOf
<1>7. PICK e \in kept : x = e.n
  BY <1>6
<1>8. before(e) = {}
  <2>1. ASSUME NEW d \in kept PROVE ~(d.n < e.n)
    <3>1. d.n \in Nat /\ e.n \in Nat /\ e.n <= d.n
      BY <1>1, <1>6, <1>7 DEF Entries
    <3> QED
      BY <3>1
  <2> QED
    BY <2>1
<1>9. Cardinality(before(e)) < half
  <2>1. Cardinality(before(e)) = 0
    BY <1>8, FS_EmptySet, Zenon
  <2> QED
    BY <1>2, <1>3, <2>1
<1>10. e \in Drained(f)
  BY <1>2, <1>7, <1>9, AdmissionAssumption DEF Drained
<1> QED
  BY <1>10

\* The cap, with the finiteness that counting needs.
GuardInv == GuardBounded /\ \A f \in Fps : IsFiniteSet(seen[f])

LEMMA GuardInit == AdmissionInit => GuardInv
BY FS_EmptySet, AdmissionAssumption DEF AdmissionInit, GuardInv, GuardBounded

LEMMA GuardRecord ==
    ASSUME AdmissionTypeOK, GuardInv, NEW h \in Handlers, Record(h)
    PROVE  GuardInv'
<1> DEFINE q == req[h]
           f == FpOf[q]
           new == [key |-> Key(q), at |-> Secs(clock), n |-> pushes]
           rest == Retained(f) \ Drained(f)
<1>1. q \in Reqs /\ f \in Fps
  BY AdmissionAssumption DEF Record, AdmissionTypeOK
<1>2. /\ seen \in [Fps -> SUBSET Entries]
      /\ seen' = [seen EXCEPT ![f] = rest \cup {new}]
      /\ Key(q) \notin KeysOf(seen[f])
  BY DEF Record, AdmissionTypeOK
<1>3. /\ IsFiniteSet(seen[f]) /\ Cardinality(seen[f]) \in Nat
      /\ Cardinality(seen[f]) <= MaxNonces
  BY <1>1, FS_CardinalityType DEF GuardInv, GuardBounded
<1>4. /\ Drained(f) \in SUBSET Retained(f)
      /\ Retained(f) \in SUBSET seen[f]
      /\ rest \in SUBSET seen[f]
  BY DrainedKept
<1>5. /\ IsFiniteSet(rest) /\ Cardinality(rest) \in Nat
      /\ IsFiniteSet(Retained(f)) /\ Cardinality(Retained(f)) \in Nat
      /\ Cardinality(Retained(f)) <= Cardinality(seen[f])
  BY <1>3, <1>4, FS_Subset, FS_CardinalityType
<1>6. Cardinality(rest) < MaxNonces
  <2>1. CASE Cardinality(Retained(f)) < MaxNonces
    <3>1. Cardinality(rest) <= Cardinality(Retained(f))
      BY <1>5, FS_Subset
    <3> QED
      BY <1>5, <2>1, <3>1, AdmissionAssumption
  <2>2. CASE Cardinality(Retained(f)) >= MaxNonces
    <3>1. Drained(f) # {}
      BY <1>1, <1>3, <2>2, DrainedNotEmpty
    <3>2. rest # Retained(f) /\ rest \in SUBSET Retained(f)
      BY <1>4, <3>1
    <3>3. /\ Cardinality(rest) <= Cardinality(Retained(f))
          /\ Cardinality(Retained(f)) # Cardinality(rest)
      BY <1>5, <3>2, FS_Subset
    <3> QED
      BY <1>3, <1>5, <3>3, AdmissionAssumption
  <2> QED
    BY <1>5, <2>1, <2>2, AdmissionAssumption
<1>7. IsFiniteSet(rest \cup {new}) /\ Cardinality(rest \cup {new}) <= MaxNonces
  <2> HIDE DEF rest, new
  <2>1. /\ IsFiniteSet(rest \cup {new})
        /\ Cardinality(rest \cup {new}) \in {Cardinality(rest), Cardinality(rest) + 1}
    BY <1>5, FS_AddElement
  <2> QED
    BY <1>5, <1>6, <2>1, AdmissionAssumption
<1>8. \A d, e \in rest \cup {new} : d.key = e.key => d = e
  <2>1. new.key = Key(q)
    OBVIOUS
  <2>2. \A d \in rest : d.key # Key(q)
    BY <1>2, <1>4 DEF KeysOf
  <2>3. \A d, e \in rest : d.key = e.key => d = e
    BY <1>1, <1>4 DEF GuardInv, GuardBounded
  <2> HIDE DEF rest, new
  <2> QED
    BY <2>1, <2>2, <2>3
<1>9. \A g \in Fps : seen'[g] = IF g = f THEN rest \cup {new} ELSE seen[g]
  BY <1>1, <1>2
<1> HIDE DEF f, rest, new
<1> QED
  BY <1>1, <1>7, <1>8, <1>9 DEF GuardInv, GuardBounded

LEMMA GuardStep ==
    ASSUME AdmissionTypeOK, GuardInv, [AdmissionNext]_admissionVars
    PROVE  GuardInv'
<1>1. ASSUME NEW h \in Handlers, Record(h) PROVE GuardInv'
  BY <1>1, GuardRecord
<1>2. CASE Restart
  BY <1>2, FS_EmptySet, AdmissionAssumption DEF Restart, GuardInv, GuardBounded
<1>3. CASE UNCHANGED seen
  BY <1>3 DEF GuardInv, GuardBounded
<1>4. (\E h \in Handlers : Record(h)) \/ Restart \/ UNCHANGED seen
  BY DEF AdmissionNext, Step, admissionVars, DeliverCopy, Check, CheckBusy, Refuse, Tick
<1> QED
  BY <1>1, <1>2, <1>3, <1>4

\* seen_nonce_strs keeps its cap and holds no nonce twice, for any cap of at least
\* two: check_and_record_nonce_str always makes room before it pushes.
THEOREM GuardIsBounded == AdmissionSpec => []GuardBounded
<1>1. AdmissionTypeOK /\ GuardInv /\ [AdmissionNext]_admissionVars => GuardInv'
  BY GuardStep
<1>2. GuardInv => GuardBounded
  BY DEF GuardInv
<1> QED
  BY <1>1, <1>2, GuardInit, AdmissionTypeCorrect, PTL DEF AdmissionSpec
=============================================================================
