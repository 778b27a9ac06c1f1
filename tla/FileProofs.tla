----------------------------- MODULE FileProofs -----------------------------
(***************************************************************************)
(* Proofs about the parts that keep their state in files and rewrite them  *)
(* in several steps: the id of the bootstrap server, the pin caches and    *)
(* the log of bad clients.                                                 *)
(***************************************************************************)
EXTENDS BootstrapIdentity, PinCache, BotLog, WellFoundedInduction, TLAPS

-----------------------------------------------------------------------------
(* The bootstrap server's id                                                *)

\* While nobody else changed the files, the next start finds the id of the last one;
\* a server that is saving a new key had none before it.
SameFiles ==
    /\ serverStep = "save" => ranAs = NoId /\ (swapped \/ gpgCert = NoId)
    /\ ranAs # NoId /\ ~swapped => ranAs = IF gpgCert # NoId THEN gpgCert ELSE keyPair
    /\ swapped \in BOOLEAN

LEMMA SameFilesInit == BootInit => SameFiles
BY DEF BootInit, SameFiles

LEMMA SameFilesNext == SameFiles /\ [BootNext]_bootVars => SameFiles'
<1> SUFFICES ASSUME SameFiles, [BootNext]_bootVars PROVE SameFiles'
  OBVIOUS
<1>1. CASE StartWithId
  BY <1>1 DEF SameFiles, StartWithId, Begin, Up
<1>2. CASE StartWithCert
  BY <1>2 DEF SameFiles, StartWithCert, Begin, Up, Settled
<1>3. CASE StartUnstable
  BY <1>3 DEF SameFiles, StartUnstable, Begin, Up
<1>4. CASE StartWithKey
  <2>1. gpgCert = NoId /\ gpgCert' = NoId /\ keyPair' = keyPair /\ serverStep = "down"
    BY <1>4 DEF StartWithKey, Begin
  <2>2. CASE keyPair # NoId /\ Up(keyPair) /\ Settled(keyPair)
    BY <2>1, <2>2 DEF SameFiles, Up, Settled
  <2>3. CASE UNCHANGED <<serverId, serverStep, ranAs, swapped>>
    BY <2>1, <2>3 DEF SameFiles
  <2>4. CASE Settled(NoId)
    BY <2>1, <2>4 DEF SameFiles, Settled
  <2> QED
    BY <1>4, <2>2, <2>3, <2>4 DEF StartWithKey, LoadOrGenerateUnencrypted
<1>5. CASE SaveKeyPair
  BY <1>5 DEF SameFiles, SaveKeyPair
<1>6. CASE StopServer
  BY <1>6 DEF SameFiles, StopServer
<1>7. CASE HomeChanges
  BY <1>7 DEF SameFiles, HomeChanges
<1>8. CASE UNCHANGED bootVars
  BY <1>8 DEF SameFiles, bootVars
<1> QED
  BY <1>1, <1>2, <1>3, <1>4, <1>5, <1>6, <1>7, <1>8 DEF BootNext

\* bootstrap/src/main.rs and load_or_generate_unencrypted: a server that is started
\* again, also after a kill during the save, has the id of the one before unless
\* somebody else changed the key files.
THEOREM ServerKeepsItsId == BootSpec => StableIdentity
<1>1. SameFiles /\ [BootNext]_bootVars => [ranAs # NoId /\ ranAs' # ranAs => swapped]_bootVars
  <2> SUFFICES ASSUME SameFiles, BootNext, ranAs # NoId, ranAs' # ranAs PROVE swapped
    BY DEF bootVars
  <2>1. CASE StartWithCert
    BY <2>1 DEF SameFiles, StartWithCert, Settled
  <2>2. CASE StartWithKey
    BY <2>2 DEF SameFiles, StartWithKey, LoadOrGenerateUnencrypted, Settled
  <2>3. CASE SaveKeyPair
    BY <2>3 DEF SameFiles, SaveKeyPair
  <2> QED
    BY <2>1, <2>2, <2>3 DEF BootNext, StartWithId, StartUnstable, StopServer, HomeChanges
<1> QED
  BY <1>1, SameFilesInit, SameFilesNext, PTL DEF BootSpec, StableIdentity

-----------------------------------------------------------------------------
(* The pin caches                                                           *)

PinTypeInv ==
    /\ pinFile \in [PinFiles -> Pins \cup {TornPins}]
    /\ pinning \in [Pinners -> PinWork \cup {NoPin}]
    /\ firstPin \in [PinFiles -> Pins]
    /\ pinUpset \in BOOLEAN

\* Pins that contradict none of the first ones.
Agrees(pins, first) == \A n \in PinNames : first[n] # NoPin => pins[n] = first[n]

\* Until a race or a kill, a file has at most one user, who is about to write what
\* agrees with the first pins, and the file is cut short only while he writes it.
PinsInv ==
    pinUpset \/
       /\ \A p, q \in Pinners :
             pinning[p] # NoPin /\ pinning[q] # NoPin /\ pinning[p].file = pinning[q].file => p = q
       /\ \A p \in Pinners : pinning[p] # NoPin => Agrees(pinning[p].pins, firstPin[pinning[p].file])
       /\ \A f \in PinFiles : pinFile[f] = TornPins =>
             \E p \in Pinners : pinning[p] # NoPin /\ pinning[p].file = f /\ pinning[p].open
       /\ \A f \in PinFiles : pinFile[f] # TornPins => Agrees(pinFile[f], firstPin[f])

\* Certificates that passed the checks: in the file, and in what is about to be
\* written to it.
Checked(pins) == \A n \in PinNames : pins[n] # NoPin => pins[n] \in SeedCerts /\ CertAccepted(pins[n])
ChecksInv ==
    /\ pinFile["seed"] # TornPins => Checked(pinFile["seed"])
    /\ \A p \in Pinners : pinning[p] # NoPin /\ pinning[p].file = "seed" => Checked(pinning[p].pins)

\* What pin_update and bootstrap_pin_check have in common.
PinsNext(p, f, n, v) ==
    /\ pinning[p] = NoPin
    /\ PinCacheLoad(f)[n] \in {NoPin, v}
    /\ Intends(p, f, [PinCacheLoad(f) EXCEPT ![n] = v])
    /\ pinUpset' = (pinUpset \/ InUse(f, p))
    /\ UNCHANGED <<pinFile, firstPin>>

LEMMA PinStepCases ==
    ASSUME [PinNext]_pinVars
    PROVE  \/ \E p \in Pinners, n \in PinNames, a \in Addresses : PinsNext(p, "peer", n, a)
           \/ \E p \in Pinners, n \in PinNames, c \in SeedCerts :
                 CertAccepted(c) /\ PinsNext(p, "seed", n, c)
           \/ \E p \in Pinners : PinOpen(p) \/ PinSave(p) \/ PinKill(p)
           \/ UNCHANGED pinVars
<1>1. ASSUME NEW p \in Pinners, NEW n \in PinNames, NEW a \in Addresses, PinUpdate(p, n, a)
      PROVE  PinsNext(p, "peer", n, a)
  BY <1>1 DEF PinUpdate, PinsNext
<1>2. ASSUME NEW p \in Pinners, NEW n \in PinNames, NEW c \in SeedCerts, BootstrapPinCheck(p, n, c)
      PROVE  CertAccepted(c) /\ PinsNext(p, "seed", n, c)
  BY <1>2 DEF BootstrapPinCheck, PinsNext
<1> QED
  BY <1>1, <1>2 DEF PinNext

LEMMA LoadType ==
    ASSUME PinTypeInv, NEW f \in PinFiles
    PROVE  PinCacheLoad(f) \in Pins
BY DEF PinTypeInv, PinCacheLoad, NoPins, Pins

\* A file about to be written.
LEMMA IntendsType ==
    ASSUME PinTypeInv, NEW p \in Pinners, NEW f \in PinFiles, NEW n \in PinNames,
           NEW v \in Addresses \cup SeedCerts, PinsNext(p, f, n, v)
    PROVE  /\ pinning' = [pinning EXCEPT ![p] =
                 [file |-> f, pins |-> [PinCacheLoad(f) EXCEPT ![n] = v], open |-> FALSE]]
           /\ [PinCacheLoad(f) EXCEPT ![n] = v] \in Pins
           /\ pinning' \in [Pinners -> PinWork \cup {NoPin}]
<1>1. [PinCacheLoad(f) EXCEPT ![n] = v] \in Pins
  BY LoadType DEF Pins
<1>2. pinning' = [pinning EXCEPT ![p] =
           [file |-> f, pins |-> [PinCacheLoad(f) EXCEPT ![n] = v], open |-> FALSE]]
  BY DEF PinsNext, Intends
<1>3. [file |-> f, pins |-> [PinCacheLoad(f) EXCEPT ![n] = v], open |-> FALSE] \in PinWork
  BY <1>1 DEF PinWork
<1> QED
  BY <1>1, <1>2, <1>3 DEF PinTypeInv

LEMMA PinTypeStep == PinTypeInv /\ [PinNext]_pinVars => PinTypeInv'
<1> SUFFICES ASSUME PinTypeInv, [PinNext]_pinVars PROVE PinTypeInv'
  OBVIOUS
<1>1. CASE \E p \in Pinners, n \in PinNames, a \in Addresses : PinsNext(p, "peer", n, a)
  <2>1. PICK p \in Pinners, n \in PinNames, a \in Addresses : PinsNext(p, "peer", n, a)
    BY <1>1
  <2>2. pinning' \in [Pinners -> PinWork \cup {NoPin}]
    BY <2>1, IntendsType DEF PinFiles
  <2> QED
    BY <2>1, <2>2 DEF PinTypeInv, PinsNext, InUse
<1>2. CASE \E p \in Pinners, n \in PinNames, c \in SeedCerts :
              CertAccepted(c) /\ PinsNext(p, "seed", n, c)
  <2>1. PICK p \in Pinners, n \in PinNames, c \in SeedCerts : PinsNext(p, "seed", n, c)
    BY <1>2
  <2>2. pinning' \in [Pinners -> PinWork \cup {NoPin}]
    BY <2>1, IntendsType DEF PinFiles
  <2> QED
    BY <2>1, <2>2 DEF PinTypeInv, PinsNext, InUse
<1>3. ASSUME NEW p \in Pinners, PinOpen(p)
      PROVE  PinTypeInv'
  <2>1. pinning[p] \in PinWork
    BY <1>3 DEF PinOpen, PinTypeInv
  <2>2. [pinning[p] EXCEPT !.open = TRUE] \in PinWork
    BY <2>1 DEF PinWork
  <2> QED
    BY <1>3, <2>1, <2>2 DEF PinOpen, PinTypeInv, PinWork
<1>4. ASSUME NEW p \in Pinners, PinSave(p)
      PROVE  PinTypeInv'
  <2>1. pinning[p] \in PinWork
    BY <1>4 DEF PinSave, PinTypeInv
  <2> DEFINE f == pinning[p].file
             pins == pinning[p].pins
             first == [n \in PinNames |-> IF firstPin[f][n] = NoPin THEN pins[n] ELSE firstPin[f][n]]
  <2>2. f \in PinFiles /\ pins \in Pins
    BY <2>1 DEF PinWork
  <2>3. first \in Pins
    BY <2>2 DEF PinTypeInv, Pins
  <2>4. firstPin' = [firstPin EXCEPT ![f] = first] /\ pinFile' = [pinFile EXCEPT ![f] = pins]
    BY <1>4, <2>2 DEF PinSave, PinTypeInv
  <2> QED
    BY <1>4, <2>2, <2>3, <2>4 DEF PinSave, PinTypeInv
<1>5. ASSUME NEW p \in Pinners, PinKill(p)
      PROVE  PinTypeInv'
  BY <1>5 DEF PinKill, PinTypeInv, PinWork
<1>6. CASE UNCHANGED pinVars
  BY <1>6 DEF pinVars, PinTypeInv
<1> QED
  BY <1>1, <1>2, <1>3, <1>4, <1>5, <1>6, PinStepCases

\* A load by the only user of a file, before a race or a kill, reads the pins whole.
LEMMA PinsNextKeeps ==
    ASSUME PinTypeInv, PinsInv, NEW p \in Pinners, NEW f \in PinFiles, NEW n \in PinNames,
           NEW v \in Addresses \cup SeedCerts, PinsNext(p, f, n, v)
    PROVE  PinsInv'
<1> SUFFICES ASSUME ~pinUpset' PROVE PinsInv'
  BY DEF PinsInv
<1> DEFINE pins == [PinCacheLoad(f) EXCEPT ![n] = v]
<1>1. pinning' = [pinning EXCEPT ![p] = [file |-> f, pins |-> pins, open |-> FALSE]] /\ pins \in Pins
  BY IntendsType
<1>2. ~pinUpset /\ (\A q \in Pinners \ {p} : pinning[q] # NoPin => pinning[q].file # f)
      /\ pinning[p] = NoPin /\ pinFile' = pinFile /\ firstPin' = firstPin
  BY DEF PinsNext, InUse, PinTypeInv
<1>3. pinFile[f] # TornPins
  BY <1>2 DEF PinsInv
<1>4. Agrees(pinFile[f], firstPin[f]) /\ PinCacheLoad(f) = pinFile[f]
  BY <1>2, <1>3 DEF PinsInv, PinCacheLoad
<1>5. Agrees(pins, firstPin[f])
  <2> SUFFICES ASSUME NEW m \in PinNames, firstPin[f][m] # NoPin PROVE pins[m] = firstPin[f][m]
    BY DEF Agrees
  <2>1. pinFile[f][m] = firstPin[f][m]
    BY <1>4 DEF Agrees
  <2>2. pinFile[f] \in Pins
    BY <1>4, LoadType
  <2>3. CASE m = n
    <3>1. pinFile[f][n] = v
      BY <1>4, <2>1, <2>3 DEF PinsNext
    <3> QED
      BY <3>1, <2>1, <2>2, <2>3, <1>4 DEF Pins
  <2>4. CASE m # n
    BY <1>4, <2>1, <2>2, <2>4 DEF Pins
  <2> QED
    BY <2>3, <2>4
<1> HIDE DEF pins
<1>6. \A q \in Pinners : q # p => pinning'[q] = pinning[q]
  BY <1>1 DEF PinTypeInv
<1>7. pinning'[p].file = f /\ pinning'[p].pins = pins
  BY <1>1 DEF PinTypeInv
<1>8. \A q, r \in Pinners :
         pinning'[q] # NoPin /\ pinning'[r] # NoPin /\ pinning'[q].file = pinning'[r].file => q = r
  BY <1>2, <1>6, <1>7 DEF PinsInv
<1>9. \A q \in Pinners : pinning'[q] # NoPin => Agrees(pinning'[q].pins, firstPin'[pinning'[q].file])
  BY <1>2, <1>5, <1>6, <1>7 DEF PinsInv
<1>10. \A g \in PinFiles : pinFile'[g] = TornPins =>
         \E q \in Pinners : pinning'[q] # NoPin /\ pinning'[q].file = g /\ pinning'[q].open
  <2> SUFFICES ASSUME NEW g \in PinFiles, pinFile[g] = TornPins
               PROVE  \E q \in Pinners : pinning'[q] # NoPin /\ pinning'[q].file = g /\ pinning'[q].open
    BY <1>2
  <2>1. PICK q \in Pinners : pinning[q] # NoPin /\ pinning[q].file = g /\ pinning[q].open
    BY <1>2 DEF PinsInv
  <2> QED
    BY <2>1, <1>2, <1>6
<1>11. \A g \in PinFiles : pinFile'[g] # TornPins => Agrees(pinFile'[g], firstPin'[g])
  BY <1>2 DEF PinsInv
<1> QED
  BY <1>8, <1>9, <1>10, <1>11 DEF PinsInv

LEMMA PinOpenKeeps ==
    ASSUME PinTypeInv, PinsInv, NEW p \in Pinners, PinOpen(p)
    PROVE  PinsInv'
<1> SUFFICES ASSUME ~pinUpset PROVE PinsInv'
  BY DEF PinsInv, PinOpen
<1> DEFINE f == pinning[p].file
<1>1. pinning[p] \in PinWork /\ pinning[p] # NoPin
  BY DEF PinOpen, PinTypeInv
<1>2. /\ pinning'[p].file = f /\ pinning'[p].pins = pinning[p].pins /\ pinning'[p].open
      /\ \A q \in Pinners : q # p => pinning'[q] = pinning[q]
      /\ pinning'[p] \in PinWork
  BY <1>1 DEF PinOpen, PinTypeInv, PinWork
<1>3. f \in PinFiles /\ pinFile'[f] = TornPins /\ \A g \in PinFiles : g # f => pinFile'[g] = pinFile[g]
  BY <1>1 DEF PinOpen, PinTypeInv, PinWork
<1>4. firstPin' = firstPin /\ pinning'[p] # NoPin
  BY <1>2, PinCacheAssumption DEF PinOpen
<1> HIDE DEF f
<1>5. \A q, r \in Pinners :
         pinning'[q] # NoPin /\ pinning'[r] # NoPin /\ pinning'[q].file = pinning'[r].file => q = r
  BY <1>1, <1>2 DEF PinsInv, f
<1>6. \A q \in Pinners : pinning'[q] # NoPin => Agrees(pinning'[q].pins, firstPin'[pinning'[q].file])
  BY <1>1, <1>2, <1>4 DEF PinsInv, f
<1>7. \A g \in PinFiles : pinFile'[g] = TornPins =>
         \E q \in Pinners : pinning'[q] # NoPin /\ pinning'[q].file = g /\ pinning'[q].open
  <2> SUFFICES ASSUME NEW g \in PinFiles, pinFile'[g] = TornPins, g # f
               PROVE  \E q \in Pinners : pinning'[q] # NoPin /\ pinning'[q].file = g /\ pinning'[q].open
    BY <1>2, <1>4
  <2>1. PICK q \in Pinners : pinning[q] # NoPin /\ pinning[q].file = g /\ pinning[q].open
    BY <1>3 DEF PinsInv
  <2> QED
    BY <2>1, <1>2 DEF f
<1>8. \A g \in PinFiles : pinFile'[g] # TornPins => Agrees(pinFile'[g], firstPin'[g])
  BY <1>3, <1>4 DEF PinsInv
<1> QED
  BY <1>5, <1>6, <1>7, <1>8 DEF PinsInv

LEMMA PinSaveKeeps ==
    ASSUME PinTypeInv, PinsInv, NEW p \in Pinners, PinSave(p)
    PROVE  PinsInv'
<1> SUFFICES ASSUME ~pinUpset PROVE PinsInv'
  BY DEF PinsInv, PinSave
<1> DEFINE f == pinning[p].file
           pins == pinning[p].pins
           first == [n \in PinNames |-> IF firstPin[f][n] = NoPin THEN pins[n] ELSE firstPin[f][n]]
<1>1. pinning[p] \in PinWork /\ pinning[p] # NoPin
  BY DEF PinSave, PinTypeInv
<1>2. f \in PinFiles /\ pins \in Pins
  BY <1>1 DEF PinWork
<1>3. /\ pinning'[p] = NoPin
      /\ \A q \in Pinners : q # p => pinning'[q] = pinning[q]
  BY DEF PinSave, PinTypeInv
<1>4. firstPin' = [firstPin EXCEPT ![f] = first] /\ pinFile' = [pinFile EXCEPT ![f] = pins]
  BY <1>2 DEF PinSave, PinTypeInv
<1>5. /\ firstPin'[f] = first /\ pinFile'[f] = pins
      /\ \A g \in PinFiles : g # f => firstPin'[g] = firstPin[g] /\ pinFile'[g] = pinFile[g]
  BY <1>2, <1>4 DEF PinTypeInv
<1>6. Agrees(pins, first)
  BY <1>1 DEF PinsInv, Agrees
<1>7. \A q \in Pinners : q # p /\ pinning[q] # NoPin => pinning[q].file # f /\ pinning[q].file \in PinFiles
  BY <1>1 DEF PinsInv, PinTypeInv, PinWork
<1> HIDE DEF first, f, pins
<1>8. \A q, r \in Pinners :
         pinning'[q] # NoPin /\ pinning'[r] # NoPin /\ pinning'[q].file = pinning'[r].file => q = r
  BY <1>3 DEF PinsInv
<1>9. \A q \in Pinners : pinning'[q] # NoPin => Agrees(pinning'[q].pins, firstPin'[pinning'[q].file])
  BY <1>3, <1>5, <1>7 DEF PinsInv
<1>10. \A g \in PinFiles : pinFile'[g] = TornPins =>
         \E q \in Pinners : pinning'[q] # NoPin /\ pinning'[q].file = g /\ pinning'[q].open
  <2> SUFFICES ASSUME NEW g \in PinFiles, pinFile'[g] = TornPins
               PROVE  \E q \in Pinners : pinning'[q] # NoPin /\ pinning'[q].file = g /\ pinning'[q].open
    OBVIOUS
  <2>1. g # f
    BY <1>2, <1>5, PinCacheAssumption
  <2>2. PICK q \in Pinners : pinning[q] # NoPin /\ pinning[q].file = g /\ pinning[q].open
    BY <1>5, <2>1 DEF PinsInv
  <2> QED
    BY <2>1, <2>2, <1>3 DEF f
<1>11. \A g \in PinFiles : pinFile'[g] # TornPins => Agrees(pinFile'[g], firstPin'[g])
  BY <1>5, <1>6 DEF PinsInv
<1> QED
  BY <1>8, <1>9, <1>10, <1>11 DEF PinsInv

LEMMA PinKillKeeps ==
    ASSUME PinTypeInv, PinsInv, NEW p \in Pinners, PinKill(p)
    PROVE  PinsInv'
<1> SUFFICES ASSUME ~pinUpset' PROVE PinsInv'
  BY DEF PinsInv
<1>1. ~pinUpset /\ ~pinning[p].open /\ pinFile' = pinFile /\ firstPin' = firstPin
  BY DEF PinKill, PinTypeInv
<1>2. /\ pinning'[p] = NoPin
      /\ \A q \in Pinners : q # p => pinning'[q] = pinning[q]
  BY DEF PinKill, PinTypeInv
<1>3. \A g \in PinFiles : pinFile'[g] = TornPins =>
         \E q \in Pinners : pinning'[q] # NoPin /\ pinning'[q].file = g /\ pinning'[q].open
  <2> SUFFICES ASSUME NEW g \in PinFiles, pinFile[g] = TornPins
               PROVE  \E q \in Pinners : pinning'[q] # NoPin /\ pinning'[q].file = g /\ pinning'[q].open
    BY <1>1
  <2>1. PICK q \in Pinners : pinning[q] # NoPin /\ pinning[q].file = g /\ pinning[q].open
    BY <1>1 DEF PinsInv
  <2> QED
    BY <2>1, <1>1, <1>2
<1> QED
  BY <1>1, <1>2, <1>3 DEF PinsInv

LEMMA PinsStep == PinTypeInv /\ PinsInv /\ [PinNext]_pinVars => PinsInv'
<1> SUFFICES ASSUME PinTypeInv, PinsInv, [PinNext]_pinVars PROVE PinsInv'
  OBVIOUS
<1>1. CASE UNCHANGED pinVars
  BY <1>1 DEF pinVars, PinsInv
<1>2. "peer" \in PinFiles /\ "seed" \in PinFiles
  BY DEF PinFiles
<1> QED
  BY <1>1, <1>2, PinStepCases, PinsNextKeeps, PinOpenKeeps, PinSaveKeeps, PinKillKeeps

LEMMA PinsStart == PinInit => PinTypeInv /\ PinsInv
<1> SUFFICES ASSUME PinInit PROVE PinTypeInv /\ PinsInv
  OBVIOUS
<1>1. NoPins \in Pins /\ \A f \in PinFiles : pinFile[f] = NoPins /\ firstPin[f] = NoPins
  BY DEF NoPins, Pins, PinInit
<1>2. PinTypeInv
  BY <1>1 DEF PinInit, PinTypeInv
<1>3. \A p \in Pinners : pinning[p] = NoPin
  BY DEF PinInit
<1>4. \A f \in PinFiles : pinFile[f] # TornPins /\ Agrees(pinFile[f], firstPin[f])
  BY <1>1, PinCacheAssumption DEF Agrees
<1> QED
  BY <1>2, <1>3, <1>4 DEF PinsInv

\* pin_update and bootstrap_pin_check: what was pinned first stays pinned unless two
\* processes used the file at once or a kill cut it short.
THEOREM FirstPinStays == PinSpec => []PinKept
<1>1. PinTypeInv /\ PinsInv => PinKept
  BY DEF PinsInv, PinKept, Agrees
<1> QED
  BY <1>1, PinsStart, PinTypeStep, PinsStep, PTL DEF PinSpec

LEMMA ChecksStart == PinInit => ChecksInv
BY DEF PinInit, ChecksInv, NoPins, Checked, PinFiles

LEMMA ChecksStep == PinTypeInv /\ ChecksInv /\ [PinNext]_pinVars => ChecksInv'
<1> SUFFICES ASSUME PinTypeInv, ChecksInv, [PinNext]_pinVars PROVE ChecksInv'
  OBVIOUS
<1> USE DEF PinFiles
<1>1. CASE \E p \in Pinners, n \in PinNames, a \in Addresses : PinsNext(p, "peer", n, a)
  <2>1. PICK p \in Pinners, n \in PinNames, a \in Addresses : PinsNext(p, "peer", n, a)
    BY <1>1
  <2>2. pinning'[p].file = "peer" /\ \A q \in Pinners : q # p => pinning'[q] = pinning[q]
    BY <2>1 DEF PinsNext, Intends, PinTypeInv
  <2> QED
    BY <2>1, <2>2 DEF ChecksInv, Checked, PinsNext
<1>2. CASE \E p \in Pinners, n \in PinNames, c \in SeedCerts :
              CertAccepted(c) /\ PinsNext(p, "seed", n, c)
  <2>1. PICK p \in Pinners, n \in PinNames, c \in SeedCerts :
                CertAccepted(c) /\ PinsNext(p, "seed", n, c)
    BY <1>2
  <2> DEFINE pins == [PinCacheLoad("seed") EXCEPT ![n] = c]
  <2>2. pinning' = [pinning EXCEPT ![p] = [file |-> "seed", pins |-> pins, open |-> FALSE]]
    BY <2>1 DEF PinsNext, Intends
  <2>3. pinning'[p].pins = pins /\ \A q \in Pinners : q # p => pinning'[q] = pinning[q]
    BY <2>2 DEF PinTypeInv
  <2>4. Checked(PinCacheLoad("seed"))
    BY DEF ChecksInv, Checked, PinCacheLoad, NoPins
  <2>5. Checked(pins)
    BY <2>1, <2>4, LoadType DEF Checked, Pins
  <2> HIDE DEF pins
  <2> QED
    BY <2>1, <2>3, <2>5 DEF ChecksInv, Checked, PinsNext
<1>3. ASSUME NEW p \in Pinners, PinOpen(p)
      PROVE  ChecksInv'
  <2>1. pinning[p] \in PinWork /\ pinning[p] # NoPin
    BY <1>3 DEF PinOpen, PinTypeInv
  <2>2. /\ pinning'[p].file = pinning[p].file /\ pinning'[p].pins = pinning[p].pins
        /\ \A q \in Pinners : q # p => pinning'[q] = pinning[q]
    BY <1>3, <2>1 DEF PinOpen, PinTypeInv, PinWork
  <2>3. pinFile'["seed"] = TornPins \/ pinFile'["seed"] = pinFile["seed"]
    BY <1>3, <2>1 DEF PinOpen, PinTypeInv, PinWork
  <2> QED
    BY <2>1, <2>2, <2>3 DEF ChecksInv, Checked
<1>4. ASSUME NEW p \in Pinners, PinSave(p)
      PROVE  ChecksInv'
  <2>1. pinning[p] \in PinWork /\ pinning[p] # NoPin
    BY <1>4 DEF PinSave, PinTypeInv
  <2>2. pinning'[p] = NoPin /\ \A q \in Pinners : q # p => pinning'[q] = pinning[q]
    BY <1>4 DEF PinSave, PinTypeInv
  <2>3. \/ pinFile'["seed"] = pinFile["seed"]
        \/ pinning[p].file = "seed" /\ pinFile'["seed"] = pinning[p].pins
    BY <1>4, <2>1 DEF PinSave, PinTypeInv, PinWork
  <2> QED
    BY <2>1, <2>2, <2>3 DEF ChecksInv, Checked
<1>5. ASSUME NEW p \in Pinners, PinKill(p)
      PROVE  ChecksInv'
  <2>1. /\ pinning'[p] = NoPin /\ pinFile' = pinFile
        /\ \A q \in Pinners : q # p => pinning'[q] = pinning[q]
    BY <1>5 DEF PinKill, PinTypeInv
  <2> QED
    BY <2>1 DEF ChecksInv, Checked
<1>6. CASE UNCHANGED pinVars
  BY <1>6 DEF pinVars, ChecksInv, Checked
<1> QED
  BY <1>1, <1>2, <1>3, <1>4, <1>5, <1>6, PinStepCases

\* What verify_bootstrap_cert compares of a name is the end of it, label by label.
LEMMA MatchIsSuffix ==
    ASSUME NEW name \in Seq(STRING), NEW d \in Seq(STRING), DomainMatches(name, d)
    PROVE  \E i \in 0..Len(name) : SubSeq(name, i + 1, Len(name)) = d
<1>1. Len(name) \in Nat /\ Len(d) \in Nat /\ Len(name) >= Len(d)
  BY DEF DomainMatches
<1>2. Len(name) - Len(d) \in 0..Len(name)
  BY <1>1
<1>3. SubSeq(name, Len(name) - Len(d) + 1, Len(name)) = d
  BY DEF DomainMatches
<1> QED
  BY <1>2, <1>3

\* bootstrap_verify.rs and bootstrap_pin_check: every certificate in the cache has a
\* name in or below a trusted domain and a trusted issuer, whatever races and kills
\* did to the file.
THEOREM PinnedCertsTrusted == PinSpec => []SeedPinsTrusted
<1>1. ChecksInv => SeedPinsTrusted
  <2> SUFFICES ASSUME ChecksInv, pinFile["seed"] # TornPins, NEW n \in PinNames,
                      pinFile["seed"][n] # NoPin
               PROVE  LET c == pinFile["seed"][n] IN
                         /\ c.issuer \in TrustedIssuers
                         /\ \E name \in c.names, d \in TrustedDomains :
                               \E i \in 0..Len(name) : SubSeq(name, i + 1, Len(name)) = d
    BY DEF SeedPinsTrusted
  <2> DEFINE c == pinFile["seed"][n]
  <2>1. c \in SeedCerts /\ CertAccepted(c)
    BY DEF ChecksInv, Checked
  <2> HIDE DEF c
  <2>2. c.issuer \in TrustedIssuers
    BY <2>1 DEF CertAccepted, CertIssuerIsTrusted
  <2>3. PICK name \in c.names, d \in TrustedDomains : DomainMatches(name, d)
    BY <2>1 DEF CertAccepted, CertHasTrustedDomain
  <2>4. name \in Seq(STRING) /\ d \in Seq(STRING)
    BY <2>1, <2>3, PinCacheAssumption
  <2>5. \E i \in 0..Len(name) : SubSeq(name, i + 1, Len(name)) = d
    BY <2>3, <2>4, MatchIsSuffix
  <2> QED
    BY <2>2, <2>3, <2>5 DEF c
<1> QED
  BY <1>1, PinsStart, PinTypeStep, ChecksStart, ChecksStep, PTL DEF PinSpec

-----------------------------------------------------------------------------
(* The log of bad clients                                                   *)

LogTypeInv ==
    /\ logStep \in [Clients -> Logging \cup {"read", "closed"}]
    /\ then \in [Clients -> {"read", "closed"}]
    /\ shift \in [Clients -> 0..MaxRotated]
    /\ \A c \in Clients : logStep[c] = "shift" => shift[c] \in 1..MaxRotated
    /\ logFile \in [0..MaxRotated -> Seq(Nat) \cup {NoLog}]
    /\ lines \in Nat /\ logUpset \in BOOLEAN

\* While a rotation has k files left to rename, file i is the one that will be
\* called i when it is over; -1 when there is no rotation.
Block(i, k) == IF i > k THEN logFile[i] ELSE IF i = 0 THEN << >> ELSE logFile[i - 1]

\* The lines after lo up to hi, in order.
HoldsLines(s, lo, hi) ==
    IF s = NoLog THEN lo = hi
    ELSE s \in Seq(Nat) /\ Len(s) = hi - lo /\ \A j \in 1..Len(s) : s[j] = lo + j

\* The blocks hold the lines without a gap: block i those after b[i + 1] up to b[i].
\* A rotated file has at least LogLines of them, so the last one that is there
\* begins far enough back.
Divides(b, k) ==
    /\ b[0] = lines
    /\ \A i \in 0..MaxRotated : HoldsLines(Block(i, k), b[i + 1], b[i])
    /\ \A i \in 1..MaxRotated : /\ Block(i, k) = NoLog => b[i] = 0
                                /\ Block(i, k) # NoLog => b[i + 1] + LogLines <= b[i]
    /\ \A i \in 1..MaxRotated + 1 : b[i] = 0 \/ b[i] + (i - 1) * LogLines <= b[1]
Divisions == [0..MaxRotated + 1 -> Nat]
Complete(k) == \E b \in Divisions : Divides(b, k)

\* A rotation has the files to itself.
RotationInv ==
    logUpset \/ \A c, d \in Clients : logStep[c] \in Rotating /\ logStep[d] \in Logging => c = d

FilesInv ==
    logUpset \/
       /\ (\A c \in Clients : logStep[c] \notin Rotating) => Complete(-1)
       /\ \A c \in Clients : logStep[c] = "shift" =>
             /\ Complete(shift[c])
             /\ logFile[shift[c] - 1] = NoLog => logFile[shift[c]] = NoLog
       /\ \A c \in Clients : logStep[c] = "truncate" => Complete(0)

LogInv == LogTypeInv /\ RotationInv /\ FilesInv

\* Every nonempty set of naturals has a least element.
LEMMA LeastOf ==
    ASSUME NEW T \in SUBSET Nat, T # {}
    PROVE  \E x \in T : \A y \in T : x <= y
<1> DEFINE R == {ss \in Nat \X Nat : ss[1] < ss[2]}
<1>1. IsWellFoundedOn(R, Nat)
  BY NatLessThanWellFounded DEF OpToRel
<1> HIDE DEF R
<1>2. \E x \in T : \A y \in T : ~ (<<y, x>> \in R)
  BY <1>1, WFMin
<1>3. ASSUME NEW x \in Nat, NEW y \in Nat, ~ (<<y, x>> \in R)
      PROVE  x <= y
  <2>1. <<y, x>> \in Nat \X Nat
    OBVIOUS
  <2>2. ~(<<y, x>>[1] < <<y, x>>[2])
    BY <1>3, <2>1 DEF R
  <2> QED
    BY <2>2
<1> QED
  BY <1>2, <1>3

\* The steps of handle_connection outside log: nothing about the files moves.
CallsLog(c) ==
    /\ logStep[c] = "read"
    /\ logUpset \in BOOLEAN => logUpset' \in BOOLEAN
    /\ logUpset => logUpset'
    /\ \E s \in {"check", "read", "closed"} :
          /\ logStep' = [logStep EXCEPT ![c] = s]
          /\ s = "check" => logUpset' \/ ~Others(c, Rotating)
    /\ \E s \in {"read", "closed"} : then' = [then EXCEPT ![c] = s]
    /\ UNCHANGED <<shift, logFile, lines>>

LEMMA CallLogCalls ==
    ASSUME NEW c \in Clients, logStep[c] = "read", NEW call \in BOOLEAN,
           NEW s \in {"read", "closed"}, CallLog(c, call, s)
    PROVE  CallsLog(c)
<1>1. \E r \in {"check", "read", "closed"} :
          /\ logStep' = [logStep EXCEPT ![c] = r]
          /\ r = "check" => logUpset' \/ ~Others(c, Rotating)
  <2>1. CASE call
    BY <2>1 DEF CallLog
  <2>2. CASE ~call
    BY <2>2 DEF CallLog
  <2> QED
    BY <2>1, <2>2
<1> QED
  BY <1>1 DEF CallLog, CallsLog, Others

LEMMA LogStepCases ==
    ASSUME LogTypeInv, [LogNext]_logVars
    PROVE  \/ \E c \in Clients : CallsLog(c) \/ CheckSize(c) \/ ShiftFile(c) \/ Truncate(c) \/ AppendLine(c)
           \/ UNCHANGED <<logStep, then, shift, logFile, lines, logUpset>>
<1>1. ASSUME NEW c \in Clients, BadEnvelope(c)
      PROVE  CallsLog(c)
  <2>1. (failures[c] + 1 = MaxFailures) \in BOOLEAN
    OBVIOUS
  <2> QED
    BY <1>1, <2>1, CallLogCalls DEF BadEnvelope
<1>2. ASSUME NEW c \in Clients, NEW bad \in BOOLEAN, GoodEnvelope(c, bad)
      PROVE  CallsLog(c)
  BY <1>2, CallLogCalls DEF GoodEnvelope
<1>3. ASSUME NEW c \in Clients, CloseConnection(c)
      PROVE  CallsLog(c)
  <2>1. (failures[c] >= Suspect) \in BOOLEAN
    OBVIOUS
  <2> QED
    BY <1>3, <2>1, CallLogCalls DEF CloseConnection
<1> QED
  BY <1>1, <1>2, <1>3 DEF LogNext, logVars

LEMMA LogTypeStart == LogInit => LogTypeInv
<1>1. 0 \in 0..MaxRotated
  BY BotLogAssumption
<1> SUFFICES ASSUME LogInit PROVE LogTypeInv
  OBVIOUS
<1>2. logFile \in [0..MaxRotated -> Seq(Nat) \cup {NoLog}] /\ lines \in Nat /\ logUpset \in BOOLEAN
  BY DEF LogInit
<1>3. /\ logStep \in [Clients -> Logging \cup {"read", "closed"}]
      /\ then \in [Clients -> {"read", "closed"}]
      /\ shift \in [Clients -> 0..MaxRotated]
      /\ \A c \in Clients : logStep[c] # "shift"
  BY <1>1 DEF LogInit
<1> QED
  BY <1>2, <1>3 DEF LogTypeInv

LEMMA LogTypeStep == LogTypeInv /\ [LogNext]_logVars => LogTypeInv'
<1> SUFFICES ASSUME LogTypeInv, [LogNext]_logVars PROVE LogTypeInv'
  OBVIOUS
<1> USE BotLogAssumption
<1>1. ASSUME NEW c \in Clients, CallsLog(c)
      PROVE  LogTypeInv'
  BY <1>1 DEF LogTypeInv, CallsLog, Logging
<1>2. ASSUME NEW c \in Clients, CheckSize(c)
      PROVE  LogTypeInv'
  <2>1. \/ logStep' = [logStep EXCEPT ![c] = "shift"] /\ shift' = [shift EXCEPT ![c] = MaxRotated]
        \/ logStep' = [logStep EXCEPT ![c] = "append"] /\ shift' = [shift EXCEPT ![c] = 0]
    BY <1>2 DEF CheckSize
  <2>2. logUpset' \in BOOLEAN /\ UNCHANGED <<then, logFile, lines>>
    BY <1>2 DEF CheckSize, LogTypeInv, Others
  <2>3. MaxRotated \in 1..MaxRotated /\ MaxRotated \in 0..MaxRotated /\ 0 \in 0..MaxRotated
    OBVIOUS
  <2> QED
    BY <2>1, <2>2, <2>3 DEF LogTypeInv, Logging
<1>3. ASSUME NEW c \in Clients, ShiftFile(c)
      PROVE  LogTypeInv'
  <2>1. shift[c] \in 1..MaxRotated
    BY <1>3 DEF ShiftFile, LogTypeInv
  <2>2. logFile' \in [0..MaxRotated -> Seq(Nat) \cup {NoLog}]
    <3>1. shift[c] \in 0..MaxRotated /\ shift[c] - 1 \in 0..MaxRotated
      BY <2>1
    <3> QED
      BY <1>3, <3>1 DEF ShiftFile, Renamed, LogTypeInv
  <2>3. shift' = [shift EXCEPT ![c] = shift[c] - 1] /\ shift[c] - 1 \in 0..MaxRotated
    BY <1>3, <2>1 DEF ShiftFile, LogTypeInv
  <2>4. \/ shift[c] = 1 /\ logStep' = [logStep EXCEPT ![c] = "truncate"]
        \/ shift[c] # 1 /\ logStep' = [logStep EXCEPT ![c] = "shift"]
    BY <1>3 DEF ShiftFile
  <2>5. UNCHANGED <<then, lines, logUpset>>
    BY <1>3 DEF ShiftFile
  <2> QED
    BY <2>1, <2>2, <2>3, <2>4, <2>5 DEF LogTypeInv, Logging
<1>4. ASSUME NEW c \in Clients, Truncate(c)
      PROVE  LogTypeInv'
  BY <1>4 DEF LogTypeInv, Truncate, Logging
<1>5. ASSUME NEW c \in Clients, AppendLine(c)
      PROVE  LogTypeInv'
  <2>1. logFile' \in [0..MaxRotated -> Seq(Nat) \cup {NoLog}]
    <3>1. CASE logFile[0] = NoLog
      BY <1>5, <3>1 DEF AppendLine, LogTypeInv
    <3>2. CASE logFile[0] # NoLog
      BY <1>5, <3>2 DEF AppendLine, LogTypeInv
    <3> QED
      BY <3>1, <3>2
  <2> QED
    BY <1>5, <2>1 DEF LogTypeInv, AppendLine, Logging
<1>6. CASE UNCHANGED <<logStep, then, shift, logFile, lines, logUpset>>
  BY <1>6 DEF LogTypeInv
<1> QED
  BY <1>1, <1>2, <1>3, <1>4, <1>5, <1>6, LogStepCases

LEMMA RotationStep == LogTypeInv /\ RotationInv /\ [LogNext]_logVars => RotationInv'
<1> SUFFICES ASSUME LogTypeInv, RotationInv, [LogNext]_logVars, ~logUpset' PROVE RotationInv'
  BY DEF RotationInv
<1> USE DEF Rotating, Logging
<1>1. ASSUME NEW c \in Clients, CallsLog(c)
      PROVE  RotationInv'
  BY <1>1 DEF RotationInv, LogTypeInv, CallsLog, Others
<1>2. ASSUME NEW c \in Clients, CheckSize(c)
      PROVE  RotationInv'
  <2>1. \/ logStep' = [logStep EXCEPT ![c] = "shift"] /\ ~Others(c, Logging)
        \/ logStep' = [logStep EXCEPT ![c] = "append"]
    BY <1>2 DEF CheckSize
  <2>2. ~logUpset /\ logStep[c] = "check"
    BY <1>2 DEF CheckSize, LogTypeInv
  <2> QED
    BY <2>1, <2>2 DEF RotationInv, LogTypeInv, Others
<1>3. ASSUME NEW c \in Clients, ShiftFile(c)
      PROVE  RotationInv'
  <2>1. \/ logStep' = [logStep EXCEPT ![c] = "truncate"]
        \/ logStep' = [logStep EXCEPT ![c] = "shift"]
    BY <1>3 DEF ShiftFile
  <2> QED
    BY <1>3, <2>1 DEF RotationInv, LogTypeInv, ShiftFile
<1>4. ASSUME NEW c \in Clients, Truncate(c)
      PROVE  RotationInv'
  BY <1>4 DEF RotationInv, LogTypeInv, Truncate
<1>5. ASSUME NEW c \in Clients, AppendLine(c)
      PROVE  RotationInv'
  BY <1>5 DEF RotationInv, LogTypeInv, AppendLine
<1>6. CASE UNCHANGED <<logStep, then, shift, logFile, lines, logUpset>>
  BY <1>6 DEF RotationInv
<1> QED
  BY <1>1, <1>2, <1>3, <1>4, <1>5, <1>6, LogStepCases

\* The division of the lines depends on the blocks only.
LEMMA SameBlocks ==
    ASSUME LogTypeInv, NEW k \in Int, NEW l \in Int, lines' = lines, Complete(k),
           \A i \in 0..MaxRotated : Block(i, l)' = Block(i, k)
    PROVE  Complete(l)'
<1> USE BotLogAssumption
<1>1. PICK b \in Divisions : Divides(b, k)
  BY DEF Complete
<1>2. \A i \in 1..MaxRotated : i \in 0..MaxRotated
  OBVIOUS
<1>3. Divides(b, l)'
  BY <1>1, <1>2 DEF Divides, HoldsLines
<1> QED
  BY <1>1, <1>3 DEF Complete, Divisions

\* A log that is full when its size is looked at: its lines become block 1.
LEMMA RotationBegins ==
    ASSUME LogTypeInv, Complete(-1), logFile[0] # NoLog, Len(logFile[0]) >= LogLines,
           UNCHANGED <<logFile, lines>>
    PROVE  /\ Complete(MaxRotated)'
           /\ logFile[MaxRotated - 1] = NoLog => logFile[MaxRotated] = NoLog
<1> USE BotLogAssumption
<1>1. PICK b \in Divisions : Divides(b, -1)
  BY DEF Complete
<1>2. \A i \in 0..MaxRotated : Block(i, -1) = logFile[i]
  BY DEF Block
<1>3. /\ b[0] = lines
      /\ \A i \in 0..MaxRotated : HoldsLines(logFile[i], b[i + 1], b[i])
      /\ \A i \in 1..MaxRotated : /\ logFile[i] = NoLog => b[i] = 0
                                  /\ logFile[i] # NoLog => b[i + 1] + LogLines <= b[i]
      /\ \A i \in 1..MaxRotated + 1 : b[i] = 0 \/ b[i] + (i - 1) * LogLines <= b[1]
  BY <1>1, <1>2 DEF Divides
<1>4. b[1] + LogLines <= b[0] /\ \A i \in 0..MaxRotated + 1 : b[i] \in Nat
  <2>1. HoldsLines(logFile[0], b[0 + 1], b[0])
    BY <1>3
  <2>2. \A i \in 0..MaxRotated + 1 : b[i] \in Nat
    BY DEF Divisions
  <2>3. b[0] \in Nat /\ b[1] \in Nat /\ 0 + 1 = 1
    BY <2>2
  <2>4. Len(logFile[0]) = b[0] - b[1]
    BY <2>1, <2>3 DEF HoldsLines
  <2> QED
    BY <2>2, <2>3, <2>4
<1>5. PICK a \in Divisions : a[0] = lines /\ a[1] = lines
                             /\ \A i \in 1..MaxRotated + 1 : a[i] = b[i - 1]
  <2> DEFINE c == [i \in 0..MaxRotated + 1 |-> IF i = 0 THEN lines ELSE b[i - 1]]
  <2>1. c \in Divisions
    BY <1>4 DEF Divisions, LogTypeInv
  <2>2. c[0] = lines /\ c[1] = lines /\ \A i \in 1..MaxRotated + 1 : c[i] = b[i - 1]
    BY <1>3
  <2> QED
    BY <2>1, <2>2
<1>6. Block(0, MaxRotated)' = << >> /\ \A i \in 1..MaxRotated : Block(i, MaxRotated)' = logFile[i - 1]
  BY DEF Block
<1>7. \A i \in 0..MaxRotated : HoldsLines(Block(i, MaxRotated)', a[i + 1], a[i])
  <2>1. HoldsLines(<< >>, a[1], a[0])
    BY <1>5 DEF HoldsLines, LogTypeInv
  <2>2. ASSUME NEW i \in 1..MaxRotated
        PROVE  HoldsLines(logFile[i - 1], a[i + 1], a[i])
    BY <1>3, <1>5
  <2> QED
    BY <1>6, <2>1, <2>2
<1>8. ASSUME NEW i \in 1..MaxRotated
      PROVE  /\ logFile[i - 1] = NoLog => a[i] = 0
             /\ logFile[i - 1] # NoLog => a[i + 1] + LogLines <= a[i]
  <2>1. a[i] = b[i - 1] /\ a[i + 1] = b[i]
    BY <1>5
  <2>2. CASE i = 1
    BY <1>4, <2>1, <2>2
  <2>3. CASE i # 1
    <3>1. i - 1 \in 1..MaxRotated
      BY <2>3
    <3> QED
      BY <1>3, <2>1, <3>1
  <2> QED
    BY <2>2, <2>3
<1>9. ASSUME NEW i \in 1..MaxRotated + 1
      PROVE  a[i] = 0 \/ a[i] + (i - 1) * LogLines <= a[1]
  <2>1. CASE i = 1
    BY <1>4, <1>5, <2>1
  <2>2. CASE i # 1
    <3>1. i - 1 \in 1..MaxRotated + 1
      BY <2>2
    <3>2. b[i - 1] = 0 \/ b[i - 1] + (i - 1 - 1) * LogLines <= b[1]
      BY <1>3, <3>1
    <3>3. (i - 1) * LogLines = (i - 1 - 1) * LogLines + LogLines
      BY <3>1
    <3>4. b[i - 1] \in Nat /\ b[1] \in Nat /\ (i - 1 - 1) * LogLines \in Nat
      BY <1>4, <3>1
    <3>5. a[i] = b[i - 1] /\ a[1] = b[0] /\ b[0] \in Nat
      BY <1>3, <1>4, <1>5
    <3> QED
      BY <1>4, <3>2, <3>3, <3>4, <3>5
  <2> QED
    BY <2>1, <2>2
<1>10. Divides(a, MaxRotated)'
  <2>1. \A i \in 1..MaxRotated : /\ Block(i, MaxRotated)' = NoLog => a[i] = 0
                                 /\ Block(i, MaxRotated)' # NoLog => a[i + 1] + LogLines <= a[i]
    BY <1>6, <1>8
  <2> QED
    BY <1>5, <1>7, <1>9, <2>1 DEF Divides, HoldsLines
<1>11. Complete(MaxRotated)'
  BY <1>5, <1>10 DEF Complete, Divisions
<1>12. logFile[MaxRotated - 1] = NoLog => logFile[MaxRotated] = NoLog
  <2>1. CASE MaxRotated = 1
    BY <2>1
  <2>2. CASE MaxRotated # 1
    <3>1. MaxRotated - 1 \in 1..MaxRotated /\ MaxRotated \in 1..MaxRotated
      BY <2>2
    <3>2. HoldsLines(logFile[MaxRotated - 1], b[MaxRotated - 1 + 1], b[MaxRotated - 1])
      BY <1>3, <3>1
    <3>3. b[MaxRotated] \in Nat /\ b[MaxRotated + 1] \in Nat /\ MaxRotated - 1 + 1 = MaxRotated
      BY <1>4
    <3>4. /\ logFile[MaxRotated - 1] = NoLog => b[MaxRotated - 1] = 0
          /\ logFile[MaxRotated] # NoLog => b[MaxRotated + 1] + LogLines <= b[MaxRotated]
      BY <1>3, <3>1
    <3>5. logFile[MaxRotated - 1] = NoLog => b[MaxRotated] = b[MaxRotated - 1]
      BY <3>2, <3>3 DEF HoldsLines
    <3> QED
      BY <3>3, <3>4, <3>5
  <2> QED
    BY <2>1, <2>2
<1> QED
  BY <1>11, <1>12

\* A line more in the log.
LEMMA LineAppended ==
    ASSUME LogTypeInv, Complete(-1), NEW c \in Clients, AppendLine(c)
    PROVE  Complete(-1)'
<1> USE BotLogAssumption
<1>1. PICK b \in Divisions : Divides(b, -1)
  BY DEF Complete
<1>2. \A i \in 0..MaxRotated : Block(i, -1) = logFile[i] /\ Block(i, -1)' = logFile'[i]
  BY DEF Block
<1>3. /\ b[0] = lines
      /\ \A i \in 0..MaxRotated : HoldsLines(logFile[i], b[i + 1], b[i])
      /\ \A i \in 1..MaxRotated : /\ logFile[i] = NoLog => b[i] = 0
                                  /\ logFile[i] # NoLog => b[i + 1] + LogLines <= b[i]
      /\ \A i \in 1..MaxRotated + 1 : b[i] = 0 \/ b[i] + (i - 1) * LogLines <= b[1]
  BY <1>1, <1>2 DEF Divides
<1>4. \A i \in 0..MaxRotated + 1 : b[i] \in Nat
  BY DEF Divisions
<1>5. PICK a \in Divisions : a[0] = lines + 1 /\ \A i \in 1..MaxRotated + 1 : a[i] = b[i]
  <2> DEFINE d == [i \in 0..MaxRotated + 1 |-> IF i = 0 THEN lines + 1 ELSE b[i]]
  <2>1. d \in Divisions /\ d[0] = lines + 1 /\ \A i \in 1..MaxRotated + 1 : d[i] = b[i]
    BY <1>4 DEF Divisions, LogTypeInv
  <2> QED
    BY <2>1
<1>6. lines' = lines + 1 /\ \A i \in 1..MaxRotated : logFile'[i] = logFile[i]
  BY DEF AppendLine, LogTypeInv
<1>7. HoldsLines(logFile'[0], a[1], a[0])
  <2>1. HoldsLines(logFile[0], b[1], lines) /\ a[1] = b[1] /\ b[1] \in Nat /\ lines \in Nat
    <3>1. HoldsLines(logFile[0], b[0 + 1], b[0]) /\ 0 + 1 = 1
      BY <1>3
    <3> QED
      BY <1>3, <1>4, <1>5, <3>1 DEF LogTypeInv
  <2>2. CASE logFile[0] = NoLog
    <3>1. logFile'[0] = <<lines + 1>>
      BY <2>2 DEF AppendLine, LogTypeInv
    <3>2. b[1] = lines
      BY <2>1, <2>2 DEF HoldsLines
    <3> DEFINE r == <<lines + 1>>
    <3>3. r \in Seq(Nat) /\ Len(r) = 1 /\ r[1] = lines + 1
      BY <2>1
    <3> HIDE DEF r
    <3>4. r # NoLog /\ logFile'[0] = r
      BY <3>1, <3>3 DEF r
    <3>5. Len(r) = (lines + 1) - b[1] /\ \A j \in 1..Len(r) : r[j] = b[1] + j
      BY <2>1, <3>2, <3>3
    <3>6. r \in Seq(Nat)
      BY <3>3
    <3>7. HoldsLines(r, b[1], lines + 1)
      BY <3>4, <3>5, <3>6 DEF HoldsLines
    <3> QED
      BY <1>5, <2>1, <3>4, <3>7
  <2>3. CASE logFile[0] # NoLog
    <3> DEFINE s == logFile[0]
    <3>1. logFile'[0] = Append(s, lines + 1) /\ s \in Seq(Nat)
      BY <2>3 DEF AppendLine, LogTypeInv
    <3>2. Len(s) = lines - b[1] /\ \A j \in 1..Len(s) : s[j] = b[1] + j
      BY <2>1, <2>3 DEF HoldsLines
    <3> HIDE DEF s
    <3> DEFINE r == Append(s, lines + 1)
    <3>3. r \in Seq(Nat) /\ Len(r) = Len(s) + 1 /\ Len(s) \in Nat
      BY <2>1, <3>1
    <3>4. r[Len(s) + 1] = lines + 1 /\ \A j \in 1..Len(s) : r[j] = s[j]
      BY <2>1, <3>1
    <3> HIDE DEF r
    <3>5. \A j \in 1..Len(r) : r[j] = b[1] + j
      <4> SUFFICES ASSUME NEW j \in 1..Len(r) PROVE r[j] = b[1] + j
        OBVIOUS
      <4>1. CASE j = Len(s) + 1
        BY <2>1, <3>2, <3>4, <4>1
      <4>2. CASE j # Len(s) + 1
        <5>1. j \in 1..Len(s)
          BY <3>3, <4>2
        <5> QED
          BY <3>2, <3>4, <5>1
      <4> QED
        BY <4>1, <4>2
    <3>6. Len(r) = (lines + 1) - b[1]
      BY <2>1, <3>2, <3>3
    <3>7. r # NoLog
      BY <3>3
    <3>8. logFile'[0] = r
      BY <3>1 DEF r
    <3> QED
      BY <1>5, <2>1, <3>3, <3>5, <3>6, <3>7, <3>8 DEF HoldsLines
  <2> QED
    BY <2>2, <2>3
<1>8. \A i \in 0..MaxRotated : HoldsLines(logFile'[i], a[i + 1], a[i])
  <2>1. ASSUME NEW i \in 1..MaxRotated
        PROVE  HoldsLines(logFile'[i], a[i + 1], a[i])
    <3>1. a[i + 1] = b[i + 1] /\ a[i] = b[i]
      BY <1>5
    <3> QED
      BY <1>3, <1>6, <3>1
  <2> QED
    BY <1>7, <2>1
<1>9. \A i \in 1..MaxRotated : /\ logFile'[i] = NoLog => a[i] = 0
                               /\ logFile'[i] # NoLog => a[i + 1] + LogLines <= a[i]
  BY <1>3, <1>5, <1>6
<1>10. \A i \in 1..MaxRotated + 1 : a[i] = 0 \/ a[i] + (i - 1) * LogLines <= a[1]
  BY <1>3, <1>5
<1>11. PICK k \in Int : k = -1
  OBVIOUS
<1>12. \A i \in 0..MaxRotated : Block(i, k)' = logFile'[i]
  BY <1>11 DEF Block
<1>13. \A i \in 0..MaxRotated : HoldsLines(Block(i, k)', a[i + 1], a[i])
  BY <1>8, <1>12
<1>14. \A i \in 1..MaxRotated : /\ Block(i, k)' = NoLog => a[i] = 0
                                /\ Block(i, k)' # NoLog => a[i + 1] + LogLines <= a[i]
  BY <1>9, <1>12
<1>15. a[0] = lines'
  BY <1>5, <1>6
<1>16. Divides(a, k)'
  BY <1>10, <1>13, <1>14, <1>15 DEF Divides, HoldsLines
<1>17. Complete(k)'
  BY <1>16 DEF Complete, Divisions
<1> QED
  BY <1>11, <1>17

\* One rename leaves every block as it was, and the next one finds its target free.
LEMMA RenameKeepsBlocks ==
    ASSUME LogTypeInv, NEW c \in Clients, ShiftFile(c), NEW k \in Int, k = shift[c],
           logFile[k - 1] = NoLog => logFile[k] = NoLog
    PROVE  /\ \A i \in 0..MaxRotated : Block(i, k - 1)' = Block(i, k)
           /\ logFile'[k - 1] = NoLog
<1> USE BotLogAssumption
<1>1. k \in 1..MaxRotated
  BY DEF ShiftFile, LogTypeInv
<1>2. /\ logFile'[k] = logFile[k - 1] /\ logFile'[k - 1] = NoLog
      /\ \A i \in 0..MaxRotated : i # k /\ i # k - 1 => logFile'[i] = logFile[i]
  <2>1. k \in 0..MaxRotated /\ k - 1 \in 0..MaxRotated /\ k # k - 1
    BY <1>1
  <2>2. CASE logFile[k - 1] = NoLog
    BY <2>1, <2>2 DEF ShiftFile, Renamed, LogTypeInv
  <2>3. CASE logFile[k - 1] # NoLog
    BY <2>1, <2>3 DEF ShiftFile, Renamed, LogTypeInv
  <2> QED
    BY <2>2, <2>3
<1>3. ASSUME NEW i \in 0..MaxRotated
      PROVE  (IF i > k - 1 THEN logFile'[i] ELSE IF i = 0 THEN << >> ELSE logFile'[i - 1])
             = (IF i > k THEN logFile[i] ELSE IF i = 0 THEN << >> ELSE logFile[i - 1])
  BY <1>1, <1>2
<1> QED
  BY <1>2, <1>3 DEF Block

LEMMA FilesStart == LogInit => RotationInv /\ FilesInv
<1> SUFFICES ASSUME LogInit PROVE RotationInv /\ FilesInv
  OBVIOUS
<1> USE BotLogAssumption
<1>1. \A c \in Clients : logStep[c] = "read"
  BY DEF LogInit
<1>2. PICK b \in Divisions : b = [i \in 0..MaxRotated + 1 |-> 0]
  BY DEF Divisions
<1>3. \A i \in 0..MaxRotated : Block(i, -1) = NoLog
  BY DEF Block, LogInit
<1>4. \A i \in 0..MaxRotated + 1 : b[i] = 0
  BY <1>2
<1>5. Divides(b, -1)
  <2>1. \A i \in 0..MaxRotated : i + 1 \in 0..MaxRotated + 1 /\ i \in 0..MaxRotated + 1
    OBVIOUS
  <2>2. \A i \in 1..MaxRotated : Block(i, -1) = NoLog /\ b[i] = 0
    BY <1>3, <1>4
  <2>3. \A i \in 0..MaxRotated : HoldsLines(Block(i, -1), b[i + 1], b[i])
    BY <1>3, <1>4, <2>1 DEF HoldsLines
  <2> QED
    BY <1>4, <2>2, <2>3 DEF Divides, LogInit
<1>6. Complete(-1)
  BY <1>5 DEF Complete
<1> QED
  BY <1>1, <1>6 DEF RotationInv, FilesInv, Rotating

LEMMA FilesStep == LogInv /\ [LogNext]_logVars => FilesInv'
<1> SUFFICES ASSUME LogTypeInv, RotationInv, FilesInv, [LogNext]_logVars, ~logUpset' PROVE FilesInv'
  BY DEF LogInv, FilesInv
<1> USE BotLogAssumption
<1>0. ASSUME NEW k \in Int, Complete(k), UNCHANGED <<logFile, lines>>
      PROVE  Complete(k)'
  <2>1. \A i \in 0..MaxRotated : Block(i, k)' = Block(i, k)
    BY <1>0 DEF Block
  <2> QED
    BY <1>0, <2>1, SameBlocks
<1>1. ASSUME NEW c \in Clients, CallsLog(c)
      PROVE  FilesInv'
  <2>1. ~logUpset /\ UNCHANGED <<shift, logFile, lines>>
    BY <1>1 DEF CallsLog, LogTypeInv
  <2>2. \A d \in Clients : \A s \in Rotating : logStep'[d] = s <=> logStep[d] = s
    BY <1>1 DEF CallsLog, LogTypeInv, Rotating
  <2>3. (\A d \in Clients : logStep'[d] \notin Rotating) => Complete(-1)'
    BY <1>0, <2>1, <2>2 DEF FilesInv
  <2>4. ASSUME NEW d \in Clients, logStep'[d] = "shift"
        PROVE  Complete(shift[d])' /\ (logFile'[shift'[d] - 1] = NoLog => logFile'[shift'[d]] = NoLog)
    <3>1. PICK k \in Int : k = shift[d]
      BY DEF LogTypeInv
    <3>2. Complete(k) /\ (logFile[k - 1] = NoLog => logFile[k] = NoLog)
      BY <2>1, <2>2, <2>4, <3>1 DEF FilesInv, Rotating
    <3>3. Complete(k)' /\ k = shift'[d]
      BY <1>0, <2>1, <3>1, <3>2
    <3> QED
      BY <2>1, <3>2, <3>3
  <2>5. ASSUME NEW d \in Clients, logStep'[d] = "truncate"
        PROVE  Complete(0)'
    <3>1. Complete(0)
      BY <2>1, <2>2, <2>5 DEF FilesInv, Rotating
    <3> QED
      BY <1>0, <2>1, <3>1
  <2> QED
    BY <2>3, <2>4, <2>5 DEF FilesInv
<1>2. ASSUME NEW c \in Clients, CheckSize(c)
      PROVE  FilesInv'
  <2>1. ~logUpset /\ logStep[c] = "check" /\ UNCHANGED <<logFile, lines>>
    BY <1>2 DEF CheckSize, LogTypeInv
  <2>2. \A d \in Clients : logStep[d] \notin Rotating
    BY <2>1 DEF RotationInv, Logging, Rotating
  <2>3. Complete(-1)
    BY <2>1, <2>2 DEF FilesInv
  <2>4. \A d \in Clients \ {c} : logStep'[d] = logStep[d]
    BY <1>2 DEF CheckSize, LogTypeInv
  <2>5. CASE logFile[0] # NoLog /\ Len(logFile[0]) >= LogLines
    <3>1. logStep'[c] = "shift" /\ shift'[c] = MaxRotated
      BY <1>2, <2>5 DEF CheckSize, LogTypeInv
    <3>2. Complete(MaxRotated)' /\ (logFile[MaxRotated - 1] = NoLog => logFile[MaxRotated] = NoLog)
      BY <2>1, <2>3, <2>5, RotationBegins
    <3> QED
      BY <2>1, <2>2, <2>4, <3>1, <3>2 DEF FilesInv, Rotating
  <2>6. CASE ~(logFile[0] # NoLog /\ Len(logFile[0]) >= LogLines)
    <3>1. logStep'[c] = "append"
      BY <1>2, <2>6 DEF CheckSize, LogTypeInv
    <3>2. Complete(-1)'
      BY <1>0, <2>1, <2>3
    <3> QED
      BY <2>2, <2>4, <3>1, <3>2 DEF FilesInv, Rotating
  <2> QED
    BY <2>5, <2>6
<1>3. ASSUME NEW c \in Clients, ShiftFile(c)
      PROVE  FilesInv'
  <2>1. ~logUpset /\ logStep[c] = "shift" /\ lines' = lines /\ shift[c] \in 1..MaxRotated
    BY <1>3 DEF ShiftFile, LogTypeInv
  <2>2. \A d \in Clients \ {c} : logStep'[d] = logStep[d] /\ logStep[d] \notin Logging
    BY <1>3, <2>1 DEF ShiftFile, LogTypeInv, RotationInv, Rotating
  <2>3. PICK k \in Int : k = shift[c] /\ k \in 1..MaxRotated
    BY <2>1
  <2>4. Complete(k) /\ (logFile[k - 1] = NoLog => logFile[k] = NoLog)
    BY <2>1, <2>3 DEF FilesInv
  <2>5. (\A i \in 0..MaxRotated : Block(i, k - 1)' = Block(i, k)) /\ logFile'[k - 1] = NoLog
    BY <1>3, <2>3, <2>4, RenameKeepsBlocks
  <2>6. Complete(k - 1)'
    BY <2>1, <2>3, <2>4, <2>5, SameBlocks
  <2>7. shift'[c] = k - 1
    BY <1>3, <2>3 DEF ShiftFile, LogTypeInv
  <2>8. \A d \in Clients \ {c} : logStep'[d] # "shift" /\ logStep'[d] # "truncate"
    BY <2>2 DEF Logging
  <2>9. CASE k = 1
    <3>1. logStep'[c] = "truncate" /\ Complete(0)'
      BY <1>3, <2>3, <2>6, <2>9 DEF ShiftFile, LogTypeInv
    <3> QED
      BY <2>8, <3>1 DEF FilesInv, Rotating
  <2>10. CASE k # 1
    <3>1. logStep'[c] = "shift"
      BY <1>3, <2>3, <2>10 DEF ShiftFile, LogTypeInv
    <3>2. Complete(shift[c])' /\ logFile'[shift'[c]] = NoLog
      BY <2>5, <2>6, <2>7
    <3> QED
      BY <2>8, <3>1, <3>2 DEF FilesInv, Rotating
  <2> QED
    BY <2>9, <2>10
<1>4. ASSUME NEW c \in Clients, Truncate(c)
      PROVE  FilesInv'
  <2>1. ~logUpset /\ logStep[c] = "truncate" /\ lines' = lines /\ logStep'[c] = "append"
    BY <1>4 DEF Truncate, LogTypeInv
  <2>2. \A d \in Clients \ {c} : logStep'[d] = logStep[d] /\ logStep[d] \notin Logging
    BY <1>4, <2>1 DEF Truncate, LogTypeInv, RotationInv, Rotating
  <2>3. Complete(0)
    BY <2>1 DEF FilesInv
  <2>4. \A i \in 0..MaxRotated : Block(i, -1)' = Block(i, 0)
    BY <1>4 DEF Block, Truncate, LogTypeInv
  <2>5. Complete(-1)'
    BY <2>1, <2>3, <2>4, SameBlocks
  <2> QED
    BY <2>1, <2>2, <2>5 DEF FilesInv, Logging
<1>5. ASSUME NEW c \in Clients, AppendLine(c)
      PROVE  FilesInv'
  <2>1. ~logUpset /\ logStep[c] = "append" /\ logStep'[c] \in {"read", "closed"}
    BY <1>5 DEF AppendLine, LogTypeInv
  <2>2. \A d \in Clients : logStep[d] \notin Rotating
    BY <2>1 DEF RotationInv, Logging, Rotating
  <2>3. \A d \in Clients \ {c} : logStep'[d] = logStep[d]
    BY <1>5 DEF AppendLine, LogTypeInv
  <2>4. Complete(-1)'
    BY <1>5, <2>1, <2>2, LineAppended DEF FilesInv
  <2> QED
    BY <2>1, <2>2, <2>3, <2>4 DEF FilesInv, Rotating
<1>6. CASE UNCHANGED <<logStep, then, shift, logFile, lines, logUpset>>
  <2>1. \A k \in Int : Complete(k) => Complete(k)'
    BY <1>0, <1>6
  <2>2. ASSUME NEW d \in Clients, Complete(shift[d])
        PROVE  Complete(shift[d])'
    <3>1. PICK k \in Int : k = shift[d]
      BY DEF LogTypeInv
    <3>2. Complete(k)' /\ k = shift'[d]
      BY <1>6, <2>1, <2>2, <3>1
    <3> QED
      BY <3>2
  <2> QED
    BY <1>6, <2>1, <2>2 DEF FilesInv
<1> QED
  BY <1>1, <1>2, <1>3, <1>4, <1>5, <1>6, LogStepCases

\* A line in a file is kept.
LEMMA InFile ==
    ASSUME NEW i \in 0..MaxRotated, logFile[i] # NoLog, NEW j \in 1..Len(logFile[i])
    PROVE  logFile[i][j] \in Kept
BY DEF Kept

\* A line that a block should have is in one of the files.
LEMMA InBlock ==
    ASSUME LogTypeInv, NEW k \in -1..MaxRotated, NEW i \in 0..MaxRotated,
           NEW lo \in Nat, NEW hi \in Nat, HoldsLines(Block(i, k), lo, hi),
           NEW n \in Nat, lo < n, n <= hi
    PROVE  n \in Kept
<1> USE BotLogAssumption
<1> DEFINE s == Block(i, k)
<1>1. s # NoLog /\ s \in Seq(Nat) /\ Len(s) = hi - lo /\ \A j \in 1..Len(s) : s[j] = lo + j
  BY DEF HoldsLines
<1>2. n - lo \in 1..Len(s) /\ s[n - lo] = n
  BY <1>1
<1>3. PICK f \in 0..MaxRotated : s = logFile[f]
  <2>1. CASE i > k
    BY <2>1 DEF Block
  <2>2. CASE ~(i > k) /\ i # 0
    <3>1. i - 1 \in 0..MaxRotated
      BY <2>2
    <3> QED
      BY <2>2, <3>1 DEF Block
  <2>3. CASE ~(i > k) /\ i = 0
    <3>1. s = << >>
      BY <2>3 DEF Block
    <3>2. Len(s) = 0
      BY <3>1
    <3> QED
      BY <1>2, <3>2
  <2> QED
    BY <2>1, <2>2, <2>3
<1> HIDE DEF s
<1> QED
  BY <1>1, <1>2, <1>3, InFile

LEMMA CompleteKeeps ==
    ASSUME LogTypeInv, NEW k \in -1..MaxRotated, Complete(k), NEW n \in 1..lines,
           n > lines - MaxRotated * LogLines
    PROVE  n \in Kept
<1> USE BotLogAssumption
<1>1. PICK b \in Divisions : Divides(b, k)
  BY DEF Complete
<1> DEFINE M == MaxRotated + 1
           T == {i \in 0..M : b[i] < n}
<1>2. \A i \in 0..M : b[i] \in Nat
  BY DEF Divisions
<1>3. b[0] = lines /\ lines \in Nat /\ M \in 1..M
  BY <1>1 DEF Divides, LogTypeInv
<1>4. b[1] <= b[0]
  <2>1. HoldsLines(Block(0, k), b[0 + 1], b[0]) /\ 0 + 1 = 1
    BY <1>1 DEF Divides
  <2>2. b[0] \in Nat /\ b[1] \in Nat
    BY <1>2
  <2>3. CASE Block(0, k) = NoLog
    BY <2>1, <2>2, <2>3 DEF HoldsLines
  <2>4. CASE Block(0, k) # NoLog
    <3>1. Block(0, k) \in Seq(Nat) /\ Len(Block(0, k)) = b[0] - b[1]
      BY <2>1, <2>4 DEF HoldsLines
    <3>2. Len(Block(0, k)) \in Nat
      BY <3>1
    <3> QED
      BY <2>2, <3>1, <3>2
  <2> QED
    BY <2>3, <2>4
<1>5. b[M] < n
  <2>1. b[M] = 0 \/ b[M] + (M - 1) * LogLines <= b[1]
    BY <1>1, <1>3 DEF Divides
  <2>2. b[M] \in Nat /\ b[1] \in Nat /\ M - 1 = MaxRotated
    BY <1>2
  <2>3. MaxRotated * LogLines \in Nat
    OBVIOUS
  <2> QED
    BY <1>3, <1>4, <2>1, <2>2, <2>3
<1>6. T \in SUBSET Nat /\ T # {}
  BY <1>3, <1>5
<1>7. PICK i \in T : \A j \in T : i <= j
  BY <1>6, LeastOf
<1>8. i \in 1..M /\ b[i] < n
  BY <1>3, <1>7
<1>9. i - 1 \in 0..MaxRotated /\ i - 1 \in 0..M /\ i - 1 \notin T /\ i - 1 + 1 = i
  BY <1>7, <1>8
<1>10. b[i - 1] \in Nat /\ n <= b[i - 1] /\ b[i] \in Nat /\ b[i] < n
  BY <1>2, <1>8, <1>9
<1>11. HoldsLines(Block(i - 1, k), b[i], b[i - 1])
  BY <1>1, <1>9 DEF Divides
<1> HIDE DEF M, T
<1>12. n \in Nat
  OBVIOUS
<1> QED
  BY <1>9, <1>10, <1>11, <1>12, InBlock

LEMMA LatestAreKept == LogInv => LatestLinesKept
<1> SUFFICES ASSUME LogInv, ~logUpset, NEW n \in 1..lines, n > lines - MaxRotated * LogLines
             PROVE  n \in Kept
  BY DEF LatestLinesKept
<1> USE BotLogAssumption
<1>1. CASE \A c \in Clients : logStep[c] \notin Rotating
  <2>1. Complete(-1) /\ -1 \in -1..MaxRotated
    BY <1>1 DEF LogInv, FilesInv
  <2> QED
    BY <2>1, CompleteKeeps DEF LogInv
<1>2. ASSUME NEW c \in Clients, logStep[c] = "shift"
      PROVE  n \in Kept
  <2>1. Complete(shift[c]) /\ shift[c] \in -1..MaxRotated
    BY <1>2 DEF LogInv, FilesInv, LogTypeInv
  <2> QED
    BY <2>1, CompleteKeeps DEF LogInv
<1>3. ASSUME NEW c \in Clients, logStep[c] = "truncate"
      PROVE  n \in Kept
  <2>1. Complete(0) /\ 0 \in -1..MaxRotated
    BY <1>3 DEF LogInv, FilesInv
  <2> QED
    BY <2>1, CompleteKeeps DEF LogInv
<1> QED
  BY <1>1, <1>2, <1>3 DEF Rotating

\* bot_log.rs: rotate_if_needed never loses one of the latest MaxRotated * LogLines
\* lines, at no step of a rotation, unless another connection logs meanwhile.
THEOREM RotationKeepsLines == LogSpec => []LatestLinesKept
<1>1. LogInit => LogInv
  BY LogTypeStart, FilesStart DEF LogInv
<1>2. LogInv /\ [LogNext]_logVars => LogInv'
  BY LogTypeStep, RotationStep, FilesStep DEF LogInv
<1> QED
  BY <1>1, <1>2, LatestAreKept, PTL DEF LogSpec
=============================================================================
