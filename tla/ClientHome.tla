----------------------------- MODULE ClientHome -----------------------------
(***************************************************************************)
(* The files under ~/.nullnode that the commands of the client share       *)
(* (client/src/main.rs: main, generate_identity, load_cert, DbEncryptionKey,*)
(* the contact and alias files; crypto/src/kyber.rs: save and load).       *)
(*                                                                         *)
(* Every command is a process of its own.  It looks at the PID file, writes *)
(* its own PID, does its work on the files and removes the PID file when it *)
(* returns.  A process can be killed anywhere; a kill inside a write leaves *)
(* the file cut short (Torn).  PIDs are not reused.                        *)
(*                                                                         *)
(* An identity, a database key and a process are known by the PID of the   *)
(* process that made them.  File permissions are left out.                 *)
(***************************************************************************)
EXTENDS Integers, FiniteSets

CONSTANTS
    Procs,       \* processes that can be alive at once
    People,      \* null ids to add as contacts and to give aliases
    Absent,      \* the file does not exist
    Torn,        \* the file was cut short by a kill
    MaxPid,      \* bound: processes ever started
    MaxHomeKills \* bound: processes killed

\* What stands for no contents, and for part of them, is no contents of a file.
ASSUME HomeAssumption ==
    /\ MaxPid \in Nat /\ MaxHomeKills \in Nat
    /\ Absent # Torn
    /\ \A n \in 0..MaxPid : n \notin {Absent, Torn}
    /\ \A m, n \in 0..MaxPid \cup {Absent, Torn} : [of |-> m, key |-> n] \notin {Absent, Torn}
    /\ \A s \in SUBSET People : s \notin {Absent, Torn}

VARIABLES
    hpc,        \* what each process is about to do, "off" if there is none
    pid,        \* pid[p]: its PID
    lastPid, homeKills,
    pidFile,    \* nullnode.pid
    keyFile,    \* db_key
    ascFile,    \* gnupg/own_cert.asc: whose certificate it holds
    ageFile,    \* gnupg/own_cert.age
    kyberFile,  \* kyber_key.json: whose key it holds, and the key it is sealed with
    idFile,     \* identity.json
    book,       \* contacts.json
    names,      \* aliases.json
    loaded,     \* loaded[p]: what p read of the file it is going to write
    myKey,      \* myKey[p]: the database key p loaded or made
    \* Observations the properties are stated with; no action reads them.
    raced,      \* a process looked at the PID file before another had written it
    cut,        \* an init was killed, and none has finished since
    added,      \* contacts the client said it had added
    tornBook    \* a kill cut contacts.json or aliases.json short

files == <<pidFile, keyFile, ascFile, ageFile, kyberFile, idFile, book, names>>
homeVars == <<hpc, pid, lastPid, homeKills, files, loaded, myKey, raced, cut, added, tornBook>>

Pids == 0..MaxPid
Alive(n) == \E p \in Procs : hpc[p] # "off" /\ pid[p] = n
InitSteps == {"confirm", "cert", "plain", "key", "kyber", "identity"}
\* Processes that have looked at the PID file and not yet written it, and those past it.
Starting == {p \in Procs : hpc[p] \in {"openpid", "writepid"}}
Running == {p \in Procs : hpc[p] # "off"} \ Starting

HomeInit ==
    /\ hpc = [p \in Procs |-> "off"] /\ pid = [p \in Procs |-> 0]
    /\ lastPid = 0 /\ homeKills = 0
    /\ pidFile = Absent /\ keyFile = Absent /\ ascFile = Absent /\ ageFile = Absent
    /\ kyberFile = Absent /\ idFile = Absent /\ book = Absent /\ names = Absent
    /\ loaded = [p \in Procs |-> {}] /\ myKey = [p \in Procs |-> 0]
    /\ raced = FALSE /\ cut = FALSE /\ added = {} /\ tornBook = FALSE

\* p goes on at step s; p's command returns.
Goto(p, s) == hpc' = [hpc EXCEPT ![p] = s] /\ UNCHANGED <<pid, lastPid, homeKills>>
Leave(p) ==
    /\ hpc' = [hpc EXCEPT ![p] = "off"]
    /\ pid' = [pid EXCEPT ![p] = 0]
    /\ loaded' = [loaded EXCEPT ![p] = {}]
    /\ myKey' = [myKey EXCEPT ![p] = 0]

-----------------------------------------------------------------------------
(* The PID file                                                             *)

\* The check: the file names no process that is still alive.  One that cannot be
\* parsed names none.
Start(p) ==
    /\ hpc[p] = "off" /\ lastPid < MaxPid
    /\ pidFile \in {Absent, Torn} \/ ~Alive(pidFile)
    /\ raced' = (raced \/ Starting # {})
    /\ hpc' = [hpc EXCEPT ![p] = "openpid"]
    /\ lastPid' = lastPid + 1
    /\ pid' = [pid EXCEPT ![p] = lastPid + 1]
    /\ UNCHANGED <<homeKills, files, loaded, myKey, cut, added, tornBook>>

\* Mutant of Refused: the guard that removes the file exists before the check.
RefusedRemoves(p) ==
    /\ hpc[p] = "off" /\ lastPid < MaxPid
    /\ pidFile \notin {Absent, Torn} /\ Alive(pidFile)
    /\ lastPid' = lastPid + 1
    /\ pidFile' = Absent
    /\ UNCHANGED <<hpc, pid, homeKills, keyFile, ascFile, ageFile, kyberFile, idFile, book,
                   names, loaded, myKey, raced, cut, added, tornBook>>

\* Another instance is running: the command ends and leaves the file alone.
Refused(p) ==
    /\ hpc[p] = "off" /\ lastPid < MaxPid
    /\ pidFile \notin {Absent, Torn} /\ Alive(pidFile)
    /\ lastPid' = lastPid + 1
    /\ UNCHANGED <<hpc, pid, homeKills, files, loaded, myKey, raced, cut, added, tornBook>>

\* fs::write empties the file and then writes it; another command may look, or a
\* kill come, in between.
OpenPid(p) ==
    /\ hpc[p] = "openpid"
    /\ pidFile' = Torn
    /\ Goto(p, "writepid")
    /\ UNCHANGED <<keyFile, ascFile, ageFile, kyberFile, idFile, book, names, loaded, myKey,
                   raced, cut, added, tornBook>>

WritePid(p) ==
    /\ hpc[p] = "writepid"
    /\ pidFile' = pid[p]
    /\ \E s \in {"confirm", "open", "contact", "alias"} : Goto(p, s)
    /\ UNCHANGED <<keyFile, ascFile, ageFile, kyberFile, idFile, book, names, loaded, myKey,
                   raced, cut, added, tornBook>>

\* PidDrop removes the file, whoever wrote it last; also on an error or a panic.
Exit(p) ==
    /\ hpc[p] = "done"
    /\ Leave(p)
    /\ pidFile' = Absent
    /\ UNCHANGED <<lastPid, homeKills, keyFile, ascFile, ageFile, kyberFile, idFile, book,
                   names, raced, cut, added, tornBook>>

-----------------------------------------------------------------------------
(* The database key and the Kyber key                                       *)

\* Mutant of LoadOrCreateKey: the file is not looked for.
LoadOrCreateKeyAnew(p, next) ==
    /\ keyFile' = pid[p]
    /\ myKey' = [myKey EXCEPT ![p] = pid[p]]
    /\ Goto(p, next)

\* load_or_create, load_or_create_sync: a file that cannot be decoded ends the
\* command, with an error or a panic.
LoadOrCreateKey(p, next) ==
    \/ /\ keyFile = Absent
       /\ keyFile' = pid[p]
       /\ myKey' = [myKey EXCEPT ![p] = pid[p]]
       /\ Goto(p, next)
    \/ /\ keyFile \notin {Absent, Torn}
       /\ myKey' = [myKey EXCEPT ![p] = keyFile]
       /\ Goto(p, next) /\ UNCHANGED keyFile
    \/ /\ keyFile = Torn
       /\ Goto(p, "done") /\ UNCHANGED <<keyFile, myKey>>

\* send, read, listen: MessageStore::open, then load_or_generate_kyber for the
\* identity, which only writes the file when there is none.
OpenStore(p) ==
    /\ hpc[p] = "open"
    /\ LoadOrCreateKey(p, "load")
    /\ UNCHANGED <<pidFile, ascFile, ageFile, kyberFile, idFile, book, names, loaded, raced, cut,
                   added, tornBook>>

\* Mutant of LoadKyber: a key is made also when there is no identity to make it for.
LoadKyberUnnamed(p) ==
    /\ hpc[p] = "load"
    /\ kyberFile' = IF kyberFile = Absent THEN [of |-> idFile, key |-> myKey[p]] ELSE kyberFile
    /\ Goto(p, "done")
    /\ UNCHANGED <<pidFile, keyFile, ascFile, ageFile, idFile, book, names, loaded, myKey,
                   raced, cut, added, tornBook>>

LoadKyber(p) ==
    /\ hpc[p] = "load"
    /\ kyberFile' = IF kyberFile = Absent /\ idFile \notin {Absent, Torn}
                    THEN [of |-> idFile, key |-> myKey[p]] ELSE kyberFile
    /\ Goto(p, "done")
    /\ UNCHANGED <<pidFile, keyFile, ascFile, ageFile, idFile, book, names, loaded, myKey,
                   raced, cut, added, tornBook>>

-----------------------------------------------------------------------------
(* init: generate_identity                                                  *)

\* An identity that can be read is only replaced when the user says yes.
Confirm(p) ==
    /\ hpc[p] = "confirm"
    /\ \/ Goto(p, "cert")
       \/ idFile \notin {Absent, Torn} /\ Goto(p, "done")
    /\ UNCHANGED <<files, loaded, myKey, raced, cut, added, tornBook>>

\* Without a passphrase the certificate goes to own_cert.asc and own_cert.age
\* stays; with one it goes to own_cert.age, and own_cert.asc is removed next.
WriteAsc(p) ==
    /\ hpc[p] = "cert"
    /\ ascFile' = pid[p]
    /\ Goto(p, "key")
    /\ UNCHANGED <<pidFile, keyFile, ageFile, kyberFile, idFile, book, names, loaded, myKey,
                   raced, cut, added, tornBook>>

WriteAge(p) ==
    /\ hpc[p] = "cert"
    /\ ageFile' = pid[p]
    /\ Goto(p, "plain")
    /\ UNCHANGED <<pidFile, keyFile, ascFile, kyberFile, idFile, book, names, loaded, myKey,
                   raced, cut, added, tornBook>>

RemoveAsc(p) ==
    /\ hpc[p] = "plain"
    /\ ascFile' = Absent
    /\ Goto(p, "key")
    /\ UNCHANGED <<pidFile, keyFile, ageFile, kyberFile, idFile, book, names, loaded, myKey,
                   raced, cut, added, tornBook>>

InitKey(p) ==
    /\ hpc[p] = "key"
    /\ LoadOrCreateKey(p, "kyber")
    /\ cut' = (cut \/ keyFile = Torn)
    /\ UNCHANGED <<pidFile, ascFile, ageFile, kyberFile, idFile, book, names, loaded, raced,
                   added, tornBook>>

SaveKyber(p) ==
    /\ hpc[p] = "kyber"
    /\ kyberFile' = [of |-> pid[p], key |-> myKey[p]]
    /\ Goto(p, "identity")
    /\ UNCHANGED <<pidFile, keyFile, ascFile, ageFile, idFile, book, names, loaded, myKey,
                   raced, cut, added, tornBook>>

SaveIdentity(p) ==
    /\ hpc[p] = "identity"
    /\ idFile' = pid[p]
    /\ cut' = FALSE
    /\ Goto(p, "done")
    /\ UNCHANGED <<pidFile, keyFile, ascFile, ageFile, kyberFile, book, names, loaded, myKey,
                   raced, added, tornBook>>

\* load_cert looks for own_cert.age first.
LoadCert == IF ageFile # Absent THEN ageFile ELSE ascFile

-----------------------------------------------------------------------------
(* Contacts and aliases: load, insert, save                                 *)

\* A file that is missing or cannot be parsed counts as empty.
LoadBook(f) == IF f \in {Absent, Torn} THEN {} ELSE f

LoadContacts(p) ==
    /\ hpc[p] = "contact"
    /\ loaded' = [loaded EXCEPT ![p] = LoadBook(book)]
    /\ Goto(p, "savecontact")
    /\ UNCHANGED <<files, myKey, raced, cut, added, tornBook>>

\* Mutant of SaveContacts: the file is written with the new contact only.
SaveContactsFresh(p) ==
    /\ hpc[p] = "savecontact"
    /\ \E c \in People : book' = {c} /\ added' = added \cup {c}
    /\ Goto(p, "done")
    /\ UNCHANGED <<pidFile, keyFile, ascFile, ageFile, kyberFile, idFile, names, loaded, myKey,
                   raced, cut, tornBook>>

SaveContacts(p) ==
    /\ hpc[p] = "savecontact"
    /\ \E c \in People : book' = loaded[p] \cup {c} /\ added' = added \cup {c}
    /\ Goto(p, "done")
    /\ UNCHANGED <<pidFile, keyFile, ascFile, ageFile, kyberFile, idFile, names, loaded, myKey,
                   raced, cut, tornBook>>

\* An alias is only given to a contact.
LoadAliases(p) ==
    /\ hpc[p] = "alias"
    /\ \E c \in People :
          IF c \in LoadBook(book)
          THEN loaded' = [loaded EXCEPT ![p] = LoadBook(names) \cup {c}] /\ Goto(p, "savealias")
          ELSE Goto(p, "done") /\ UNCHANGED loaded
    /\ UNCHANGED <<files, myKey, raced, cut, added, tornBook>>

SaveAliases(p) ==
    /\ hpc[p] = "savealias"
    /\ names' = loaded[p]
    /\ Goto(p, "done")
    /\ UNCHANGED <<pidFile, keyFile, ascFile, ageFile, kyberFile, idFile, book, loaded, myKey,
                   raced, cut, added, tornBook>>

-----------------------------------------------------------------------------
(* Kills                                                                    *)

Kill(p) ==
    /\ hpc[p] # "off" /\ homeKills < MaxHomeKills
    /\ homeKills' = homeKills + 1
    /\ cut' = (cut \/ hpc[p] \in InitSteps \ {"confirm", "cert"})
    /\ Leave(p)
    /\ UNCHANGED <<lastPid, files, raced, added, tornBook>>

\* The kill comes after the file was emptied and before it was written.  Only an
\* absent database key is written, and out of init only an absent Kyber key.
KillInWrite(p) ==
    /\ hpc[p] \in {"cert", "open", "load", "key", "kyber", "identity", "savecontact", "savealias"}
    /\ hpc[p] \in {"open", "key"} => keyFile = Absent
    /\ hpc[p] = "load" => kyberFile = Absent /\ idFile \notin {Absent, Torn}
    /\ homeKills < MaxHomeKills /\ homeKills' = homeKills + 1
    /\ Leave(p)
    /\ \/ hpc[p] = "cert" /\ ascFile' = Torn /\ UNCHANGED ageFile
       \/ hpc[p] = "cert" /\ ageFile' = Torn /\ UNCHANGED ascFile
       \/ hpc[p] # "cert" /\ UNCHANGED <<ascFile, ageFile>>
    /\ keyFile' = IF hpc[p] \in {"open", "key"} THEN Torn ELSE keyFile
    /\ kyberFile' = IF hpc[p] \in {"load", "kyber"} THEN Torn ELSE kyberFile
    /\ idFile' = IF hpc[p] = "identity" THEN Torn ELSE idFile
    /\ book' = IF hpc[p] = "savecontact" THEN Torn ELSE book
    /\ names' = IF hpc[p] = "savealias" THEN Torn ELSE names
    /\ cut' = (cut \/ hpc[p] \in InitSteps)
    /\ tornBook' = (tornBook \/ hpc[p] \in {"savecontact", "savealias"})
    /\ UNCHANGED <<lastPid, pidFile, raced, added>>

HomeNext ==
    \E p \in Procs :
       \/ Start(p) \/ Refused(p) \/ OpenPid(p) \/ WritePid(p) \/ Exit(p)
       \/ OpenStore(p) \/ LoadKyber(p)
       \/ Confirm(p) \/ WriteAsc(p) \/ WriteAge(p) \/ RemoveAsc(p)
       \/ InitKey(p) \/ SaveKyber(p) \/ SaveIdentity(p)
       \/ LoadContacts(p) \/ SaveContacts(p) \/ LoadAliases(p) \/ SaveAliases(p)
       \/ Kill(p) \/ KillInWrite(p)

HomeSpec == HomeInit /\ [][HomeNext]_homeVars

-----------------------------------------------------------------------------
(* Properties                                                               *)

\* The files hold what the client writes there, or what a write that has not
\* finished leaves; no Kyber key is kept for an identity or under a database key
\* that was not there.
HomeTypeOK ==
    /\ lastPid \in Pids /\ homeKills \in 0..MaxHomeKills
    /\ {pidFile, keyFile, ascFile, ageFile, idFile} \subseteq Pids \cup {Absent, Torn}
    /\ kyberFile \in [of : Pids, key : Pids] \cup {Absent, Torn}
    /\ {book, names} \subseteq (SUBSET People) \cup {Absent, Torn}
    /\ added \subseteq People

\* The PID file keeps two commands from running at once, also across kills, stale
\* files and files cut short, unless two were started so close together that the
\* second looked before the first had written.
OverlapOnlyAfterRace == raced \/ Cardinality(Running) <= 1

\* When no command runs, the identity on disk can be used: load_cert returns its
\* certificate and its Kyber key opens with the database key, whatever was
\* initialised, killed or restarted before.  The exceptions are an init that was
\* killed, a race on the PID file, and an init without a passphrase after one with a
\* passphrase: its own_cert.asc stays behind the old own_cert.age.
IdentityUsable ==
    \/ Running # {} \/ raced \/ cut \/ idFile = Absent
    \/ ageFile # Absent /\ ascFile # Absent
    \/ LoadCert = idFile /\ kyberFile = [of |-> idFile, key |-> keyFile]

\* A contact the client said it had added stays, and every alias names a contact,
\* unless a kill cut one of the files short (a file that cannot be read counts as
\* empty, and the next save makes that final) or two commands raced.
BooksKept ==
    raced \/ tornBook \/ (added \subseteq LoadBook(book) /\ LoadBook(names) \subseteq LoadBook(book))
=============================================================================
