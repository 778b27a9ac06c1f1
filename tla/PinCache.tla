------------------------------ MODULE PinCache ------------------------------
(***************************************************************************)
(* Trust on first use, kept in files (dht-core/src/pin_cache.rs): the      *)
(* address of each null id and the certificate of each bootstrap server.   *)
(* Every call loads the whole file, decides, and writes the whole file; a  *)
(* write empties the file before it fills it, and a file that cannot be    *)
(* parsed counts as empty.  Processes that share the home directory do     *)
(* this at the same time, and may be killed.                               *)
(*                                                                         *)
(* A bootstrap certificate is only looked up after the checks of           *)
(* bootstrap_verify.rs.  A domain name is the sequence of its labels.      *)
(* Neither half is called from the programs, only exported and tested.     *)
(***************************************************************************)
EXTENDS Integers, Sequences, FiniteSets

CONSTANTS
    Pinners,        \* processes
    PinNames,       \* null ids; seed URLs
    Addresses,      \* addresses of null ids
    SeedCerts,      \* certificates that servers show
    TrustedDomains, \* TRUSTED_DOMAINS without "*."
    TrustedIssuers, \* issuers that count as Let's Encrypt
    NoPin, TornPins, \* no entry; the contents of a file cut short
    MaxPinKills     \* bound: processes killed

PinFiles == {"peer", "seed"}
Pins == [PinNames -> Addresses \cup SeedCerts \cup {NoPin}]
PinWork == [file : PinFiles, pins : Pins, open : BOOLEAN]

ASSUME PinCacheAssumption ==
    /\ MaxPinKills \in Nat
    /\ \A c \in SeedCerts : /\ DOMAIN c = {"fp", "names", "issuer"}
                            /\ \A name \in c.names : name \in Seq(STRING)
    /\ \A d \in TrustedDomains : d \in Seq(STRING)
    /\ TornPins \notin Pins /\ NoPin \notin PinWork

VARIABLES
    pinFile,    \* pin_cache.json ("peer") and bootstrap_pin_cache.json ("seed")
    pinning,    \* pinning[p]: the file p writes next and with what, or NoPin
    pinKills,
    \* Observations the properties are stated with; no action reads them.
    firstPin,   \* firstPin[f][n]: the first value saved for n
    pinUpset    \* two processes used a file at once, or a kill left one empty

pinVars == <<pinFile, pinning, pinKills, firstPin, pinUpset>>

NoPins == [n \in PinNames |-> NoPin]

\* Mutant of DomainMatches: any name that has the domain's labels somewhere.
DomainMatchesAnywhere(name, base) ==
    \E i \in 1..Len(name) - Len(base) + 1 : SubSeq(name, i, i + Len(base) - 1) = base

\* domain_matches for "*.base": the base itself, or any name below it.
DomainMatches(name, base) ==
    /\ Len(name) >= Len(base)
    /\ SubSeq(name, Len(name) - Len(base) + 1, Len(name)) = base

CertHasTrustedDomain(c) == \E n \in c.names, d \in TrustedDomains : DomainMatches(n, d)

CertIssuerIsTrusted(c) == c.issuer \in TrustedIssuers

\* verify_bootstrap_cert, before the pin is looked at.
CertAccepted(c) == CertHasTrustedDomain(c) /\ CertIssuerIsTrusted(c)

PinInit ==
    /\ pinFile = [f \in PinFiles |-> NoPins]
    /\ pinning = [p \in Pinners |-> NoPin]
    /\ pinKills = 0
    /\ firstPin = pinFile
    /\ pinUpset = FALSE

\* pin_cache_load
PinCacheLoad(f) == IF pinFile[f] = TornPins THEN NoPins ELSE pinFile[f]
InUse(f, p) == \E q \in Pinners \ {p} : pinning[q] # NoPin /\ pinning[q].file = f

Intends(p, f, pins) ==
    pinning' = [pinning EXCEPT ![p] = [file |-> f, pins |-> pins, open |-> FALSE]]

\* Mutant of PinUpdate: a new address replaces the old one.
PinUpdateReplaces(p, n, a) ==
    /\ pinning[p] = NoPin
    /\ Intends(p, "peer", [PinCacheLoad("peer") EXCEPT ![n] = a])
    /\ pinUpset' = (pinUpset \/ InUse("peer", p))
    /\ UNCHANGED <<pinFile, pinKills, firstPin>>

\* pin_update: a mismatch is logged and nothing is saved; a match is saved again,
\* for its last_verified.
PinUpdate(p, n, a) ==
    /\ pinning[p] = NoPin
    /\ PinCacheLoad("peer")[n] \in {NoPin, a}
    /\ Intends(p, "peer", [PinCacheLoad("peer") EXCEPT ![n] = a])
    /\ pinUpset' = (pinUpset \/ InUse("peer", p))
    /\ UNCHANGED <<pinFile, pinKills, firstPin>>

\* bootstrap_pin_check: only the first certificate of a server is saved.
BootstrapPinCheck(p, n, c) ==
    /\ pinning[p] = NoPin
    /\ CertAccepted(c)
    /\ PinCacheLoad("seed")[n] = NoPin
    /\ Intends(p, "seed", [PinCacheLoad("seed") EXCEPT ![n] = c])
    /\ pinUpset' = (pinUpset \/ InUse("seed", p))
    /\ UNCHANGED <<pinFile, pinKills, firstPin>>

\* pin_cache_save: opened for writing, the file is empty; then it is filled.
PinOpen(p) ==
    /\ pinning[p] # NoPin /\ ~pinning[p].open
    /\ pinning' = [pinning EXCEPT ![p].open = TRUE]
    /\ pinFile' = [pinFile EXCEPT ![pinning[p].file] = TornPins]
    /\ UNCHANGED <<pinKills, firstPin, pinUpset>>

PinSave(p) ==
    /\ pinning[p] # NoPin /\ pinning[p].open
    /\ pinning' = [pinning EXCEPT ![p] = NoPin]
    /\ LET f == pinning[p].file  pins == pinning[p].pins
       IN /\ pinFile' = [pinFile EXCEPT ![f] = pins]
          /\ firstPin' = [firstPin EXCEPT ![f] =
                 [n \in PinNames |-> IF @[n] = NoPin THEN pins[n] ELSE @[n]]]
    /\ UNCHANGED <<pinKills, pinUpset>>

PinKill(p) ==
    /\ pinning[p] # NoPin /\ pinKills < MaxPinKills
    /\ pinKills' = pinKills + 1
    /\ pinning' = [pinning EXCEPT ![p] = NoPin]
    /\ pinUpset' = (pinUpset \/ pinning[p].open)
    /\ UNCHANGED <<pinFile, firstPin>>

PinNext ==
    \E p \in Pinners :
       \/ PinOpen(p) \/ PinSave(p) \/ PinKill(p)
       \/ \E n \in PinNames : \E a \in Addresses : PinUpdate(p, n, a)
       \/ \E n \in PinNames : \E c \in SeedCerts : BootstrapPinCheck(p, n, c)

PinSpec == PinInit /\ [][PinNext]_pinVars

-----------------------------------------------------------------------------
(* Properties                                                               *)

\* What was pinned first stays pinned: another address or certificate never takes
\* its place, unless two processes used the file at once or a kill cut it short
\* (the next load then finds no pins, and trusts anything again).
PinKept ==
    \/ pinUpset
    \/ \A f \in PinFiles : pinFile[f] # TornPins =>
          \A n \in PinNames : firstPin[f][n] # NoPin => pinFile[f][n] = firstPin[f][n]

\* Every bootstrap certificate that was ever pinned has a name in, or below, a
\* trusted domain and a trusted issuer, also after races and kills.
SeedPinsTrusted ==
    pinFile["seed"] # TornPins =>
       \A n \in PinNames : LET c == pinFile["seed"][n] IN
          c # NoPin => /\ c.issuer \in TrustedIssuers
                       /\ \E name \in c.names, d \in TrustedDomains :
                             \E i \in 0..Len(name) : SubSeq(name, i + 1, Len(name)) = d
=============================================================================
