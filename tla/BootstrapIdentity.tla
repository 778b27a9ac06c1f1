------------------------- MODULE BootstrapIdentity -------------------------
(***************************************************************************)
(* Under which null id the bootstrap server runs (bootstrap/src/main.rs,   *)
(* main, get_gpg_fingerprint, load_or_generate_kyber_id): the one given,   *)
(* or that of own_cert.asc, or a random one with --allow-no-key, or that   *)
(* of a Kyber key it makes on the first start (crypto/src/kyber.rs,        *)
(* load_or_generate_unencrypted).  The client may make or remove           *)
(* own_cert.asc in the same home directory, and the server may be killed.  *)
(***************************************************************************)
EXTENDS Integers

CONSTANTS
    GivenId,    \* the argument of --id
    NoId,       \* no null id; no file
    TornKey,    \* a key file cut short
    MaxStarts   \* bound: starts

ASSUME BootstrapAssumption == MaxStarts \in Nat

VARIABLES
    serverId,   \* the null id of the running server
    serverStep, \* "down", "save" or "up"
    keyPair,    \* kyber_keypair.json
    gpgCert,    \* gnupg/own_cert.asc
    starts,
    \* Observations the properties are stated with; no action reads them.
    ranAs,      \* the id of the last server that was up without --id
    swapped     \* since it chose its id, own_cert.asc changed or the key file was deleted

bootVars == <<serverId, serverStep, keyPair, gpgCert, starts, ranAs, swapped>>

BootInit ==
    /\ serverId = NoId /\ serverStep = "down"
    /\ keyPair = NoId /\ gpgCert = NoId
    /\ starts = 0 /\ ranAs = NoId /\ swapped = FALSE

Up(id) == serverStep' = "up" /\ serverId' = id
Settled(id) == ranAs' = id /\ swapped' = FALSE
Begin == serverStep = "down" /\ starts < MaxStarts /\ starts' = starts + 1

StartWithId ==
    /\ Begin /\ Up(GivenId)
    /\ UNCHANGED <<keyPair, gpgCert, ranAs, swapped>>

\* get_gpg_fingerprint: a certificate that cannot be parsed counts as none.
StartWithCert ==
    /\ Begin /\ gpgCert # NoId
    /\ Up(gpgCert) /\ Settled(gpgCert)
    /\ UNCHANGED <<keyPair, gpgCert>>

\* --allow-no-key: any id, another one each time.
StartUnstable ==
    /\ Begin /\ gpgCert = NoId
    /\ Up(<<"random", starts>>)
    /\ UNCHANGED <<keyPair, gpgCert, ranAs, swapped>>

\* load_or_generate_unencrypted: a file that cannot be parsed ends the server.
LoadOrGenerateUnencrypted ==
    \/ keyPair \notin {NoId, TornKey} /\ Up(keyPair) /\ Settled(keyPair)
    \/ keyPair = TornKey /\ UNCHANGED <<serverId, serverStep, ranAs, swapped>>
    \/ /\ keyPair = NoId
       /\ serverStep' = "save" /\ serverId' = <<"key", starts>> /\ Settled(NoId)

\* Mutant of StartWithKey: a new key is made for every start.
StartWithKeyAnew ==
    /\ Begin /\ gpgCert = NoId
    /\ serverStep' = "save" /\ serverId' = <<"key", starts>> /\ Settled(NoId)
    /\ UNCHANGED <<keyPair, gpgCert>>

\* load_or_generate_kyber_id
StartWithKey ==
    /\ Begin /\ gpgCert = NoId
    /\ LoadOrGenerateUnencrypted
    /\ UNCHANGED <<keyPair, gpgCert>>

\* save_unencrypted
SaveKeyPair ==
    /\ serverStep = "save"
    /\ keyPair' = serverId
    /\ serverStep' = "up"
    /\ ranAs' = serverId
    /\ UNCHANGED <<serverId, gpgCert, starts, swapped>>

\* The server stops or is killed, in the last case perhaps while it saves.
StopServer ==
    /\ serverStep # "down"
    /\ serverStep' = "down" /\ serverId' = NoId
    /\ keyPair' \in IF serverStep = "save" THEN {keyPair, TornKey} ELSE {keyPair}
    /\ UNCHANGED <<gpgCert, starts, ranAs, swapped>>

\* init of the client writes own_cert.asc, or removes it; the administrator may
\* delete the key file.
HomeChanges ==
    /\ starts < MaxStarts
    /\ \/ gpgCert' \in {NoId, <<"cert", starts>>} \ {gpgCert} /\ UNCHANGED keyPair
       \/ keyPair # NoId /\ keyPair' = NoId /\ UNCHANGED gpgCert
    /\ swapped' = TRUE
    /\ UNCHANGED <<serverId, serverStep, starts, ranAs>>

BootNext ==
    \/ StartWithId \/ StartWithCert \/ StartUnstable \/ StartWithKey
    \/ SaveKeyPair \/ StopServer \/ HomeChanges

BootSpec == BootInit /\ [][BootNext]_bootVars

-----------------------------------------------------------------------------
(* Properties                                                               *)

\* A server that is started again, also after a kill, and neither told its id nor
\* --allow-no-key, has the id of the one before, as long as nobody else changed
\* the key files.
StableIdentity ==
    [][ranAs # NoId /\ ranAs' # ranAs => swapped]_bootVars
=============================================================================
