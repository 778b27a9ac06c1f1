-------------------------- MODULE ClientHomeProofs --------------------------
(***************************************************************************)
(* Proofs about the files under ~/.nullnode.  All rest on one fact: unless *)
(* two commands raced for the PID file, at most one process is past the    *)
(* check of it, so nothing moves under a command while it runs (AloneInv). *)
(***************************************************************************)
EXTENDS ClientHome, FiniteSetTheorems, TLAPS

HomeSteps == {"off", "openpid", "writepid", "confirm", "open", "contact", "alias", "done", "load",
              "cert", "plain", "key", "kyber", "identity", "savecontact", "savealias"}

\* HomeTypeOK with the domains and ranges of the functions.
HomeTypeInv ==
    /\ HomeTypeOK
    /\ hpc \in [Procs -> HomeSteps] /\ pid \in [Procs -> Pids]
    /\ loaded \in [Procs -> SUBSET People] /\ myKey \in [Procs -> Pids]
    /\ raced \in BOOLEAN /\ cut \in BOOLEAN /\ tornBook \in BOOLEAN

\* Without a race only one process is alive, and once it runs the PID file is its own.
AloneInv ==
    raced \/ /\ \A p, q \in Procs : hpc[p] # "off" /\ hpc[q] # "off" => p = q
             /\ \A p \in Running : pidFile = pid[p]

\* What a command that is about to save has loaded is what the files still hold.
BookInv ==
    raced \/ tornBook \/
       \A p \in Procs : /\ hpc[p] = "savecontact" => loaded[p] = LoadBook(book)
                        /\ hpc[p] = "savealias" => loaded[p] \subseteq LoadBook(book)

\* init between writing the certificate and writing identity.json.
MidInit == {"plain", "key", "kyber", "identity"}
BothCerts == ageFile # Absent /\ ascFile # Absent

\* What an init that has come so far has left in the files.
InitInv ==
    raced \/ \A p \in Procs :
       /\ hpc[p] = "plain" => ageFile = pid[p]
       /\ hpc[p] \in {"key", "kyber", "identity"} => BothCerts \/ LoadCert = pid[p]
       /\ hpc[p] = "kyber" => myKey[p] = keyFile
       /\ hpc[p] = "identity" => kyberFile = [of |-> pid[p], key |-> keyFile]

\* IdentityUsable, with the only steps at which it may fail to hold.
UsableInv ==
    \/ raced \/ cut \/ \E p \in Procs : hpc[p] \in MidInit
    \/ idFile = Absent \/ BothCerts
    \/ LoadCert = idFile /\ kyberFile = [of |-> idFile, key |-> keyFile]

-----------------------------------------------------------------------------
(* Type correctness                                                         *)

LEMMA HomeTypeInit == HomeInit => HomeTypeInv
<1> SUFFICES ASSUME HomeInit PROVE HomeTypeInv
  OBVIOUS
<1> USE DEF HomeInit, Pids
<1>1. /\ lastPid \in Pids /\ homeKills \in 0..MaxHomeKills
      /\ hpc \in [Procs -> HomeSteps] /\ pid \in [Procs -> Pids]
      /\ loaded \in [Procs -> SUBSET People] /\ myKey \in [Procs -> Pids]
  BY HomeAssumption DEF HomeSteps
<1> QED
  BY <1>1 DEF HomeTypeInv, HomeTypeOK

LEMMA BookType ==
    ASSUME HomeTypeInv
    PROVE  LoadBook(book) \in SUBSET People /\ LoadBook(names) \in SUBSET People
BY DEF LoadBook, HomeTypeInv, HomeTypeOK

LEMMA HomeTypeStep ==
    ASSUME HomeTypeInv, [HomeNext]_homeVars
    PROVE  HomeTypeInv'
<1> USE DEF Pids, HomeTypeInv, HomeTypeOK, HomeSteps
<1>1. ASSUME NEW p \in Procs, Start(p) PROVE HomeTypeInv'
  BY <1>1, HomeAssumption DEF Start, files
<1>2. ASSUME NEW p \in Procs, Refused(p) PROVE HomeTypeInv'
  BY <1>2, HomeAssumption DEF Refused, files
<1>3. ASSUME NEW p \in Procs, OpenPid(p) \/ WritePid(p) PROVE HomeTypeInv'
  BY <1>3, HomeAssumption DEF OpenPid, WritePid, Goto
<1>4. ASSUME NEW p \in Procs, Exit(p) PROVE HomeTypeInv'
  BY <1>4, HomeAssumption DEF Exit, Leave
<1>5. ASSUME NEW p \in Procs, OpenStore(p) PROVE HomeTypeInv'
  BY <1>5, HomeAssumption DEF OpenStore, Goto, LoadOrCreateKey
<1>6. ASSUME NEW p \in Procs, LoadKyber(p) PROVE HomeTypeInv'
  BY <1>6, HomeAssumption DEF LoadKyber, Goto
<1>7. ASSUME NEW p \in Procs, Confirm(p) PROVE HomeTypeInv'
  BY <1>7, HomeAssumption DEF Confirm, Goto, files
<1>8. ASSUME NEW p \in Procs, WriteAsc(p) PROVE HomeTypeInv'
  BY <1>8, HomeAssumption DEF WriteAsc, Goto
<1>9. ASSUME NEW p \in Procs, WriteAge(p) PROVE HomeTypeInv'
  BY <1>9, HomeAssumption DEF WriteAge, Goto
<1>10. ASSUME NEW p \in Procs, RemoveAsc(p) PROVE HomeTypeInv'
  BY <1>10, HomeAssumption DEF RemoveAsc, Goto
<1>11. ASSUME NEW p \in Procs, InitKey(p) PROVE HomeTypeInv'
  BY <1>11, HomeAssumption DEF InitKey, Goto, LoadOrCreateKey
<1>12. ASSUME NEW p \in Procs, SaveKyber(p) PROVE HomeTypeInv'
  BY <1>12, HomeAssumption DEF SaveKyber, Goto
<1>13. ASSUME NEW p \in Procs, SaveIdentity(p) PROVE HomeTypeInv'
  <2>1. /\ hpc' \in [Procs -> HomeSteps] /\ idFile' \in Pids
        /\ UNCHANGED <<pid, lastPid, homeKills, loaded, myKey, pidFile, keyFile, ascFile, ageFile,
                       kyberFile, book, names, raced, added, tornBook>>
        /\ cut' = FALSE
    BY <1>13 DEF SaveIdentity, Goto
  <2> QED
    BY <2>1
<1>14. ASSUME NEW p \in Procs, LoadContacts(p) PROVE HomeTypeInv'
  BY <1>14, BookType DEF LoadContacts, Goto, files
<1>15. ASSUME NEW p \in Procs, SaveContacts(p) PROVE HomeTypeInv'
  BY <1>15, HomeAssumption DEF SaveContacts, Goto
<1>16. ASSUME NEW p \in Procs, LoadAliases(p) PROVE HomeTypeInv'
  <2>1. UNCHANGED <<pid, lastPid, homeKills, files, myKey, raced, cut, added, tornBook>>
    BY <1>16 DEF LoadAliases, Goto
  <2>2. hpc' \in [Procs -> HomeSteps]
    BY <1>16 DEF LoadAliases, Goto
  <2>3. loaded' \in [Procs -> SUBSET People]
    BY <1>16, BookType DEF LoadAliases
  <2> QED
    BY <2>1, <2>2, <2>3 DEF files
<1>17. ASSUME NEW p \in Procs, SaveAliases(p) PROVE HomeTypeInv'
  BY <1>17, HomeAssumption DEF SaveAliases, Goto
<1>18. ASSUME NEW p \in Procs, Kill(p) PROVE HomeTypeInv'
  BY <1>18, HomeAssumption DEF Kill, Leave, files
<1>19. ASSUME NEW p \in Procs, KillInWrite(p) PROVE HomeTypeInv'
  <2>1. /\ hpc' \in [Procs -> HomeSteps] /\ pid' \in [Procs -> Pids]
        /\ loaded' \in [Procs -> SUBSET People] /\ myKey' \in [Procs -> Pids]
    BY <1>19, HomeAssumption DEF KillInWrite, Leave
  <2>2. /\ UNCHANGED <<lastPid, pidFile, raced, added>> /\ homeKills' \in 0..MaxHomeKills
        /\ cut' \in BOOLEAN /\ tornBook' \in BOOLEAN
    BY <1>19, HomeAssumption DEF KillInWrite
  <2>3. /\ keyFile' \in {keyFile, Torn} /\ kyberFile' \in {kyberFile, Torn}
        /\ idFile' \in {idFile, Torn} /\ book' \in {book, Torn} /\ names' \in {names, Torn}
    BY <1>19 DEF KillInWrite
  <2>4. ascFile' \in {ascFile, Torn} /\ ageFile' \in {ageFile, Torn}
    BY <1>19 DEF KillInWrite
  <2> QED
    BY <2>1, <2>2, <2>3, <2>4
<1>20. CASE UNCHANGED homeVars
  BY <1>20 DEF homeVars, files
<1> QED
  BY <1>1, <1>2, <1>3, <1>4, <1>5, <1>6, <1>7, <1>8, <1>9, <1>10, <1>11, <1>12, <1>13, <1>14, <1>15, <1>16, <1>17, <1>18, <1>19, <1>20 DEF HomeNext

LEMMA HomeTypeInvHolds == HomeSpec => []HomeTypeInv
BY HomeTypeInit, HomeTypeStep, PTL DEF HomeSpec

\* Type correctness of the files, the PID file included: what a command reads back is
\* what some command wrote there or a write that did not finish left there, and a
\* Kyber key names an identity and a database key that were there.
THEOREM HomeTypeCorrect == HomeSpec => []HomeTypeOK
<1>1. HomeTypeInv => HomeTypeOK
  BY DEF HomeTypeInv
<1> QED
  BY <1>1, HomeTypeInvHolds, PTL

-----------------------------------------------------------------------------
(* One command at a time                                                    *)

\* Only p's own entries change.
Moves(p) ==
    \A q \in Procs \ {p} : /\ hpc'[q] = hpc[q] /\ pid'[q] = pid[q]
                           /\ loaded'[q] = loaded[q] /\ myKey'[q] = myKey[q]

\* A step of a command between the PID file's writing and its removal.
GoesOn(p) ==
    /\ p \in Running /\ hpc'[p] \notin {"off", "openpid", "writepid"} /\ Moves(p)
    /\ UNCHANGED <<pid, pidFile, raced>>

\* p's command is over.
Ends(p) ==
    /\ hpc[p] # "off" /\ hpc'[p] = "off" /\ Moves(p)
    /\ UNCHANGED raced

LEMMA EndsSteps ==
    ASSUME HomeTypeInv, NEW p \in Procs, Exit(p) \/ Kill(p) \/ KillInWrite(p)
    PROVE  Ends(p)
BY DEF Exit, Kill, KillInWrite, Leave, Ends, Moves, HomeTypeInv

LEMMA GoesOnSteps ==
    ASSUME HomeTypeInv, NEW p \in Procs,
           \/ OpenStore(p) \/ LoadKyber(p)
           \/ Confirm(p) \/ WriteAsc(p) \/ WriteAge(p) \/ RemoveAsc(p)
           \/ InitKey(p) \/ SaveKyber(p) \/ SaveIdentity(p)
           \/ LoadContacts(p) \/ SaveContacts(p) \/ LoadAliases(p) \/ SaveAliases(p)
    PROVE  GoesOn(p)
<1> USE DEF GoesOn, Running, Starting, Moves, Goto, HomeTypeInv
<1>1. CASE OpenStore(p) \/ InitKey(p)
  BY <1>1 DEF OpenStore, InitKey, LoadOrCreateKey
<1>2. CASE LoadKyber(p) \/ Confirm(p) \/ WriteAsc(p) \/ WriteAge(p) \/ RemoveAsc(p)
  BY <1>2 DEF LoadKyber, Confirm, WriteAsc, WriteAge, RemoveAsc, files
<1>3. CASE SaveKyber(p) \/ SaveIdentity(p) \/ SaveContacts(p) \/ SaveAliases(p)
  BY <1>3 DEF SaveKyber, SaveIdentity, SaveContacts, SaveAliases
<1>4. CASE LoadContacts(p) \/ LoadAliases(p)
  BY <1>4 DEF LoadContacts, LoadAliases, files
<1> QED
  BY <1>1, <1>2, <1>3, <1>4

LEMMA AloneInit == HomeInit => AloneInv
BY DEF HomeInit, AloneInv, Running, Starting

LEMMA AloneStep ==
    ASSUME HomeTypeInv, AloneInv, [HomeNext]_homeVars
    PROVE  AloneInv'
<1>1. ASSUME NEW p \in Procs, Start(p) PROVE AloneInv'
  <2>1. SUFFICES ASSUME ~raced' PROVE AloneInv'
    BY DEF AloneInv
  <2>2. ~raced /\ Starting = {}
    BY <1>1, <2>1 DEF Start
  <2>3. \A q \in Procs : hpc[q] = "off"
    <3> SUFFICES ASSUME NEW q \in Procs, hpc[q] # "off" PROVE FALSE
      OBVIOUS
    <3>1. q \in Running
      BY <2>2 DEF Running
    <3>2. pidFile = pid[q]
      BY <2>2, <3>1 DEF AloneInv
    <3>3. pidFile \notin {Absent, Torn}
      BY <3>2, HomeAssumption DEF HomeTypeInv, Pids
    <3> QED
      BY <1>1, <3>2, <3>3 DEF Start, Alive
  <2> QED
    BY <1>1, <2>3 DEF Start, AloneInv, Running, Starting, HomeTypeInv
<1>2. ASSUME NEW p \in Procs, Refused(p) PROVE AloneInv'
  BY <1>2 DEF Refused, files, AloneInv, Running, Starting
<1>3. ASSUME NEW p \in Procs, OpenPid(p) \/ WritePid(p) PROVE AloneInv'
  BY <1>3 DEF OpenPid, WritePid, Goto, AloneInv, Running, Starting, HomeTypeInv
<1>4. ASSUME NEW p \in Procs, Ends(p) PROVE AloneInv'
  BY <1>4 DEF Ends, Moves, AloneInv, Running, Starting
<1>5. ASSUME NEW p \in Procs, GoesOn(p) PROVE AloneInv'
  BY <1>5 DEF GoesOn, Moves, AloneInv, Running, Starting
<1>6. CASE UNCHANGED homeVars
  BY <1>6 DEF homeVars, files, AloneInv, Running, Starting
<1> QED
  BY <1>1, <1>2, <1>3, <1>4, <1>5, <1>6, EndsSteps, GoesOnSteps DEF HomeNext

LEMMA AloneInvHolds == HomeSpec => []AloneInv
<1>1. HomeTypeInv /\ AloneInv /\ [HomeNext]_homeVars => AloneInv'
  BY AloneStep
<1> QED
  BY <1>1, AloneInit, HomeTypeInvHolds, PTL DEF HomeSpec

\* The PID file does its work for any number of processes, kills and stale files: two
\* commands are past the check together only if one looked before the other wrote.
THEOREM OneCommandAtATime == HomeSpec => []OverlapOnlyAfterRace
<1>1. AloneInv => OverlapOnlyAfterRace
  <2> SUFFICES ASSUME AloneInv, ~raced PROVE Cardinality(Running) <= 1
    BY DEF OverlapOnlyAfterRace
  <2>1. CASE Running = {}
    BY <2>1, FS_EmptySet
  <2>2. ASSUME NEW p \in Running PROVE Cardinality(Running) <= 1
    <3>1. Running = {p}
      BY <2>2 DEF AloneInv, Running, Starting
    <3>2. Cardinality(Running) = 1
      BY <3>1, FS_Singleton, Zenon
    <3> QED
      BY <3>2
  <2> QED
    BY <2>1, <2>2
<1> QED
  BY <1>1, AloneInvHolds, PTL

-----------------------------------------------------------------------------
(* Contacts and aliases                                                     *)

LEMMA BooksInit == HomeInit => BookInv /\ BooksKept
BY DEF HomeInit, BookInv, BooksKept, LoadBook

\* A step that leaves the two files alone and does not get ready to save.
LEMMA BooksSame ==
    ASSUME BookInv, BooksKept, NEW p \in Procs, Moves(p), raced => raced',
           UNCHANGED <<book, names, added, tornBook>>,
           hpc'[p] \notin {"savecontact", "savealias"}
    PROVE  BookInv' /\ BooksKept'
BY DEF BookInv, BooksKept, Moves, LoadBook

LEMMA BooksStep ==
    ASSUME HomeTypeInv, AloneInv, BookInv, BooksKept, [HomeNext]_homeVars
    PROVE  BookInv' /\ BooksKept'
<1>1. ASSUME NEW p \in Procs, Start(p) \/ Refused(p) \/ OpenPid(p) \/ WritePid(p)
      PROVE  BookInv' /\ BooksKept'
  <2>1. /\ Moves(p) /\ (raced => raced') /\ UNCHANGED <<book, names, added, tornBook>>
        /\ hpc'[p] \notin {"savecontact", "savealias"}
    BY <1>1 DEF Start, Refused, OpenPid, WritePid, Goto, Moves, files, HomeTypeInv
  <2> QED
    BY <2>1, BooksSame
<1>2. ASSUME NEW p \in Procs, Exit(p) \/ Kill(p)
      PROVE  BookInv' /\ BooksKept'
  <2>1. /\ Moves(p) /\ (raced => raced') /\ UNCHANGED <<book, names, added, tornBook>>
        /\ hpc'[p] \notin {"savecontact", "savealias"}
    BY <1>2 DEF Exit, Kill, Leave, Moves, files, HomeTypeInv
  <2> QED
    BY <2>1, BooksSame
<1>3. ASSUME NEW p \in Procs, OpenStore(p) \/ InitKey(p)
      PROVE  BookInv' /\ BooksKept'
  <2>1. /\ Moves(p) /\ (raced => raced') /\ UNCHANGED <<book, names, added, tornBook>>
        /\ hpc'[p] \notin {"savecontact", "savealias"}
    BY <1>3 DEF OpenStore, InitKey, LoadOrCreateKey, Goto, Moves, HomeTypeInv
  <2> QED
    BY <2>1, BooksSame
<1>4. ASSUME NEW p \in Procs,
             \/ LoadKyber(p) \/ Confirm(p) \/ WriteAsc(p) \/ WriteAge(p) \/ RemoveAsc(p)
             \/ SaveKyber(p) \/ SaveIdentity(p)
      PROVE  BookInv' /\ BooksKept'
  <2>1. /\ Moves(p) /\ (raced => raced') /\ UNCHANGED <<book, names, added, tornBook>>
        /\ hpc'[p] \notin {"savecontact", "savealias"}
    BY <1>4 DEF LoadKyber, Confirm, WriteAsc, WriteAge, RemoveAsc, SaveKyber, SaveIdentity,
                Goto, Moves, files, HomeTypeInv
  <2> QED
    BY <2>1, BooksSame
<1>5. ASSUME NEW p \in Procs, LoadContacts(p) PROVE BookInv' /\ BooksKept'
  BY <1>5 DEF LoadContacts, Goto, files, BookInv, BooksKept, LoadBook, HomeTypeInv
<1>6. ASSUME NEW p \in Procs, LoadAliases(p) PROVE BookInv' /\ BooksKept'
  <2>1. UNCHANGED <<book, names, added, raced, tornBook>> /\ Moves(p)
    BY <1>6 DEF LoadAliases, Goto, files, Moves, HomeTypeInv
  <2>2. \/ hpc'[p] = "done"
        \/ /\ hpc'[p] = "savealias"
           /\ \E c \in LoadBook(book) : loaded'[p] = LoadBook(names) \cup {c}
    BY <1>6 DEF LoadAliases, Goto, HomeTypeInv
  <2>3. BooksKept'
    BY <2>1 DEF BooksKept, LoadBook
  <2>4. BookInv'
    BY <2>1, <2>2 DEF BookInv, BooksKept, Moves, LoadBook
  <2> QED
    BY <2>3, <2>4
<1>7. ASSUME NEW p \in Procs, SaveContacts(p) PROVE BookInv' /\ BooksKept'
  <2>1. SUFFICES ASSUME ~raced', ~tornBook' PROVE BookInv' /\ BooksKept'
    BY DEF BookInv, BooksKept
  <2>2. ~raced /\ ~tornBook /\ loaded[p] = LoadBook(book)
    BY <1>7, <2>1 DEF SaveContacts, BookInv
  <2>3. \A q \in Procs \ {p} : hpc'[q] = "off"
    BY <1>7, <2>2 DEF SaveContacts, Goto, AloneInv, HomeTypeInv
  <2>4. \E c \in People : book' = LoadBook(book) \cup {c} /\ added' = added \cup {c}
    BY <1>7, <2>2 DEF SaveContacts
  <2>5. LoadBook(book)' = book'
    BY <2>4, BookType, HomeAssumption DEF LoadBook
  <2>6. hpc'[p] = "done" /\ LoadBook(names)' = LoadBook(names)
    BY <1>7 DEF SaveContacts, Goto, LoadBook, HomeTypeInv
  <2> QED
    BY <2>2, <2>3, <2>4, <2>5, <2>6 DEF BookInv, BooksKept
<1>8. ASSUME NEW p \in Procs, SaveAliases(p) PROVE BookInv' /\ BooksKept'
  <2>1. SUFFICES ASSUME ~raced', ~tornBook' PROVE BookInv' /\ BooksKept'
    BY DEF BookInv, BooksKept
  <2>2. ~raced /\ ~tornBook /\ loaded[p] \subseteq LoadBook(book)
    BY <1>8, <2>1 DEF SaveAliases, BookInv
  <2>3. \A q \in Procs \ {p} : hpc'[q] = "off"
    BY <1>8, <2>2 DEF SaveAliases, Goto, AloneInv, HomeTypeInv
  <2>4. hpc'[p] = "done" /\ names' = loaded[p] /\ UNCHANGED <<book, added>>
    BY <1>8 DEF SaveAliases, Goto, HomeTypeInv
  <2>5. LoadBook(names)' = loaded[p] /\ LoadBook(book)' = LoadBook(book)
    BY <2>4, HomeAssumption DEF LoadBook, HomeTypeInv
  <2> QED
    BY <2>2, <2>3, <2>4, <2>5 DEF BookInv, BooksKept
<1>9. ASSUME NEW p \in Procs, KillInWrite(p) PROVE BookInv' /\ BooksKept'
  <2>1. CASE hpc[p] \in {"savecontact", "savealias"}
    BY <1>9, <2>1 DEF KillInWrite, BookInv, BooksKept
  <2>2. CASE hpc[p] \notin {"savecontact", "savealias"}
    <3>1. /\ Moves(p) /\ (raced => raced') /\ UNCHANGED <<book, names, added, tornBook>>
          /\ hpc'[p] \notin {"savecontact", "savealias"}
      BY <1>9, <2>2 DEF KillInWrite, Leave, Moves, HomeTypeInv
    <3> QED
      BY <3>1, BooksSame
  <2> QED
    BY <2>1, <2>2
<1>10. CASE UNCHANGED homeVars
  BY <1>10 DEF homeVars, files, BookInv, BooksKept, LoadBook
<1> QED
  BY <1>1, <1>2, <1>3, <1>4, <1>5, <1>6, <1>7, <1>8, <1>9, <1>10 DEF HomeNext

\* contacts.json and aliases.json are read, changed and written in three steps, and
\* still lose no contact and never name a stranger, for any number of commands and
\* kills, unless a kill falls into the write or two commands raced.
THEOREM ContactsKept == HomeSpec => []BooksKept
<1>1. HomeTypeInv /\ AloneInv /\ (BookInv /\ BooksKept) /\ [HomeNext]_homeVars
         => (BookInv /\ BooksKept)'
  BY BooksStep
<1> QED
  BY <1>1, BooksInit, HomeTypeInvHolds, AloneInvHolds, PTL DEF HomeSpec

-----------------------------------------------------------------------------
(* The identity                                                             *)

LEMMA IdentityInit == HomeInit => InitInv /\ UsableInv
BY DEF HomeInit, InitInv, UsableInv, MidInit

\* A step of a command that is not an init under way, and touches none of its files.
LEMMA IdentitySame ==
    ASSUME InitInv, UsableInv, NEW p \in Procs, Moves(p), raced => raced', cut => cut',
           UNCHANGED <<keyFile, ascFile, ageFile, kyberFile, idFile>>,
           hpc[p] \in MidInit => cut', hpc'[p] \notin MidInit
    PROVE  InitInv' /\ UsableInv'
BY DEF InitInv, UsableInv, BothCerts, LoadCert, MidInit, Moves

\* With no race p is the only one that runs, and what the others say of the files is
\* nothing.
LEMMA OthersOff ==
    ASSUME HomeTypeInv, AloneInv, ~raced, NEW p \in Procs, hpc[p] # "off", Moves(p)
    PROVE  \A q \in Procs \ {p} : hpc[q] = "off" /\ hpc'[q] = "off"
BY DEF AloneInv, Moves

\* A Kyber key is sealed with a key that was in db_key, not with one that is missing.
LEMMA SealedWithKey ==
    ASSUME HomeTypeInv, kyberFile = [of |-> idFile, key |-> keyFile]
    PROVE  kyberFile # Absent /\ keyFile # Absent
<1>1. idFile \in Pids \cup {Absent, Torn} /\ keyFile \in Pids \cup {Absent, Torn}
  BY DEF HomeTypeInv, HomeTypeOK
<1>2. kyberFile \notin {Absent, Torn}
  BY <1>1, HomeAssumption DEF Pids
<1>3. kyberFile \in [of : Pids, key : Pids]
  BY <1>2 DEF HomeTypeInv, HomeTypeOK
<1>4. keyFile \in Pids
  BY <1>3
<1> QED
  BY <1>2, <1>4, HomeAssumption DEF Pids

LEMMA IdentityStep ==
    ASSUME HomeTypeInv, AloneInv, InitInv, UsableInv, [HomeNext]_homeVars
    PROVE  InitInv' /\ UsableInv'
<1>1. ASSUME NEW p \in Procs, Start(p) \/ Refused(p) \/ OpenPid(p) \/ WritePid(p)
      PROVE  InitInv' /\ UsableInv'
  <2>1. /\ Moves(p) /\ (raced => raced') /\ cut' = cut
        /\ UNCHANGED <<keyFile, ascFile, ageFile, kyberFile, idFile>>
        /\ hpc[p] \notin MidInit /\ hpc'[p] \notin MidInit
    BY <1>1 DEF Start, Refused, OpenPid, WritePid, Goto, Moves, files, MidInit, HomeTypeInv
  <2> QED
    BY <2>1, IdentitySame
<1>2. ASSUME NEW p \in Procs, Exit(p) \/ Kill(p)
      PROVE  InitInv' /\ UsableInv'
  <2>1. /\ Moves(p) /\ raced' = raced /\ (cut => cut')
        /\ UNCHANGED <<keyFile, ascFile, ageFile, kyberFile, idFile>>
        /\ (hpc[p] \in MidInit => cut') /\ hpc'[p] \notin MidInit
    BY <1>2 DEF Exit, Kill, Leave, Moves, files, MidInit, InitSteps, HomeTypeInv
  <2> QED
    BY <2>1, IdentitySame
<1>3. ASSUME NEW p \in Procs,
             LoadContacts(p) \/ SaveContacts(p) \/ LoadAliases(p) \/ SaveAliases(p)
      PROVE  InitInv' /\ UsableInv'
  <2>1. /\ Moves(p) /\ raced' = raced /\ cut' = cut
        /\ UNCHANGED <<keyFile, ascFile, ageFile, kyberFile, idFile>>
        /\ hpc[p] \notin MidInit /\ hpc'[p] \notin MidInit
    BY <1>3 DEF LoadContacts, SaveContacts, LoadAliases, SaveAliases, Goto, Moves, files,
                MidInit, HomeTypeInv
  <2> QED
    BY <2>1, IdentitySame
<1>4. ASSUME NEW p \in Procs, Confirm(p) PROVE InitInv' /\ UsableInv'
  <2>1. /\ Moves(p) /\ raced' = raced /\ cut' = cut
        /\ UNCHANGED <<keyFile, ascFile, ageFile, kyberFile, idFile>>
        /\ hpc[p] \notin MidInit /\ hpc'[p] \notin MidInit
    BY <1>4 DEF Confirm, Goto, Moves, files, MidInit, HomeTypeInv
  <2> QED
    BY <2>1, IdentitySame
<1>5. ASSUME NEW p \in Procs, hpc[p] # "off", Moves(p), ~raced,
             \/ OpenStore(p) \/ LoadKyber(p) \/ WriteAsc(p) \/ WriteAge(p) \/ RemoveAsc(p)
             \/ InitKey(p) \/ SaveKyber(p) \/ SaveIdentity(p) \/ KillInWrite(p)
      PROVE  InitInv' /\ UsableInv'
  <2>0. \A q \in Procs \ {p} : hpc[q] = "off" /\ hpc'[q] = "off"
    BY <1>5, OthersOff
  <2>1. /\ hpc \in [Procs -> HomeSteps] /\ pid \in [Procs -> Pids] /\ myKey \in [Procs -> Pids]
        /\ \A n \in Pids : n \notin {Absent, Torn}
    BY HomeAssumption DEF HomeTypeInv, Pids
  <2>2. CASE OpenStore(p)
    <3>1. /\ hpc[p] = "open" /\ hpc'[p] \in {"load", "done"}
          /\ UNCHANGED <<ascFile, ageFile, kyberFile, idFile, cut, raced>>
          /\ keyFile # Absent => keyFile' = keyFile
      BY <2>1, <2>2 DEF OpenStore, LoadOrCreateKey, Goto
    <3>2. InitInv'
      BY <2>0, <3>1 DEF InitInv
    <3>3. UsableInv'
      BY <1>5, <2>0, <3>1, SealedWithKey DEF UsableInv, MidInit, BothCerts, LoadCert
    <3> QED
      BY <3>2, <3>3
  <2>3. CASE LoadKyber(p)
    <3>1. /\ hpc[p] = "load" /\ hpc'[p] = "done"
          /\ UNCHANGED <<ascFile, ageFile, keyFile, idFile, cut, raced>>
          /\ kyberFile # Absent => kyberFile' = kyberFile
      BY <2>1, <2>3 DEF LoadKyber, Goto
    <3>2. InitInv'
      BY <2>0, <3>1 DEF InitInv
    <3>3. UsableInv'
      BY <1>5, <2>0, <3>1, SealedWithKey DEF UsableInv, MidInit, BothCerts, LoadCert
    <3> QED
      BY <3>2, <3>3
  <2>4. CASE WriteAsc(p)
    <3>1. /\ hpc'[p] = "key" /\ ascFile' = pid[p] /\ UNCHANGED <<ageFile, pid, raced>>
      BY <2>1, <2>4 DEF WriteAsc, Goto
    <3>2. BothCerts' \/ LoadCert' = pid'[p]
      BY <2>1, <3>1 DEF BothCerts, LoadCert
    <3>3. InitInv'
      BY <2>0, <3>1, <3>2 DEF InitInv
    <3>4. UsableInv'
      BY <3>1 DEF UsableInv, MidInit
    <3> QED
      BY <3>3, <3>4
  <2>5. CASE WriteAge(p)
    <3>1. /\ hpc'[p] = "plain" /\ ageFile' = pid[p] /\ UNCHANGED <<pid, raced>>
      BY <2>1, <2>5 DEF WriteAge, Goto
    <3>2. InitInv'
      BY <2>0, <3>1 DEF InitInv
    <3>3. UsableInv'
      BY <3>1 DEF UsableInv, MidInit
    <3> QED
      BY <3>2, <3>3
  <2>6. CASE RemoveAsc(p)
    <3>1. /\ hpc[p] = "plain" /\ hpc'[p] = "key" /\ UNCHANGED <<ageFile, pid, raced>>
      BY <2>1, <2>6 DEF RemoveAsc, Goto
    <3>2. ageFile = pid[p]
      BY <1>5, <3>1 DEF InitInv
    <3>3. LoadCert' = pid'[p]
      BY <2>1, <3>1, <3>2 DEF LoadCert
    <3>4. InitInv'
      BY <2>0, <3>1, <3>3 DEF InitInv
    <3>5. UsableInv'
      BY <3>1 DEF UsableInv, MidInit
    <3> QED
      BY <3>4, <3>5
  <2>7. CASE InitKey(p)
    <3>1. /\ hpc[p] = "key" /\ UNCHANGED <<ageFile, ascFile, pid, raced>>
          /\ \/ hpc'[p] = "kyber" /\ myKey'[p] = keyFile'
             \/ hpc'[p] = "done" /\ cut'
      BY <2>1, <2>7 DEF InitKey, LoadOrCreateKey, Goto
    <3>2. BothCerts \/ LoadCert = pid[p]
      BY <1>5, <3>1 DEF InitInv
    <3>3. InitInv'
      BY <2>0, <3>1, <3>2 DEF InitInv, BothCerts, LoadCert
    <3>4. UsableInv'
      BY <3>1 DEF UsableInv, MidInit
    <3> QED
      BY <3>3, <3>4
  <2>8. CASE SaveKyber(p)
    <3>1. /\ hpc[p] = "kyber" /\ hpc'[p] = "identity"
          /\ kyberFile' = [of |-> pid[p], key |-> myKey[p]]
          /\ UNCHANGED <<keyFile, ageFile, ascFile, pid, raced>>
      BY <2>1, <2>8 DEF SaveKyber, Goto
    <3>2. (BothCerts \/ LoadCert = pid[p]) /\ myKey[p] = keyFile
      BY <1>5, <3>1 DEF InitInv
    <3>3. InitInv'
      BY <2>0, <3>1, <3>2 DEF InitInv, BothCerts, LoadCert
    <3>4. UsableInv'
      BY <3>1 DEF UsableInv, MidInit
    <3> QED
      BY <3>3, <3>4
  <2>9. CASE SaveIdentity(p)
    <3>1. /\ hpc[p] = "identity" /\ hpc'[p] = "done" /\ idFile' = pid[p]
          /\ UNCHANGED <<keyFile, kyberFile, ageFile, ascFile, pid, raced>>
      BY <2>1, <2>9 DEF SaveIdentity, Goto
    <3>2. (BothCerts \/ LoadCert = pid[p]) /\ kyberFile = [of |-> pid[p], key |-> keyFile]
      BY <1>5, <3>1 DEF InitInv
    <3>3. InitInv'
      BY <2>0, <3>1 DEF InitInv
    <3>4. UsableInv'
      BY <3>1, <3>2 DEF UsableInv, BothCerts, LoadCert
    <3> QED
      BY <3>3, <3>4
  <2>10. CASE KillInWrite(p)
    <3>1. hpc'[p] = "off" /\ raced' = raced
      BY <2>1, <2>10 DEF KillInWrite, Leave
    <3>2. InitInv'
      BY <2>0, <3>1 DEF InitInv
    <3>3. CASE hpc[p] \in InitSteps
      BY <2>10, <3>2, <3>3 DEF KillInWrite, UsableInv
    <3>4. CASE hpc[p] \notin InitSteps
      <4>1. UNCHANGED <<ascFile, ageFile, idFile>> /\ (kyberFile # Absent => kyberFile' = kyberFile)
        BY <2>10, <3>4 DEF KillInWrite, InitSteps
      <4>2. keyFile # Absent => keyFile' = keyFile
        BY <2>10, <3>4 DEF KillInWrite
      <4>3. cut => cut'
        BY <2>10 DEF KillInWrite
      <4>4. UsableInv'
        BY <1>5, <2>0, <3>1, <3>4, <4>1, <4>2, <4>3, SealedWithKey
           DEF UsableInv, MidInit, InitSteps, BothCerts, LoadCert
      <4> QED
        BY <3>2, <4>4
    <3> QED
      BY <3>3, <3>4
  <2> QED
    BY <1>5, <2>2, <2>3, <2>4, <2>5, <2>6, <2>7, <2>8, <2>9, <2>10
<1>6. ASSUME NEW p \in Procs, KillInWrite(p) PROVE InitInv' /\ UsableInv'
  <2>1. Ends(p)
    BY <1>6, EndsSteps
  <2> QED
    BY <1>5, <1>6, <2>1 DEF Ends, InitInv, UsableInv
<1>7. ASSUME NEW p \in Procs,
             \/ OpenStore(p) \/ LoadKyber(p) \/ WriteAsc(p) \/ WriteAge(p) \/ RemoveAsc(p)
             \/ InitKey(p) \/ SaveKyber(p) \/ SaveIdentity(p)
      PROVE  InitInv' /\ UsableInv'
  <2>1. GoesOn(p)
    BY <1>7, GoesOnSteps
  <2>2. hpc[p] # "off" /\ Moves(p) /\ raced' = raced
    BY <2>1 DEF GoesOn, Running, Starting
  <2> QED
    BY <1>5, <1>7, <2>2 DEF InitInv, UsableInv
<1>8. CASE UNCHANGED homeVars
  BY <1>8 DEF homeVars, files, InitInv, UsableInv, BothCerts, LoadCert
<1> QED
  BY <1>1, <1>2, <1>3, <1>4, <1>6, <1>7, <1>8 DEF HomeNext

\* After any sequence of inits, other commands and kills, the certificate, the Kyber key
\* and the database key on disk belong to the identity on disk, with the exceptions
\* IdentityUsable names.
THEOREM IdentityStaysUsable == HomeSpec => []IdentityUsable
<1>1. HomeTypeInv /\ AloneInv /\ (InitInv /\ UsableInv) /\ [HomeNext]_homeVars
         => (InitInv /\ UsableInv)'
  BY IdentityStep
<1>2. UsableInv => IdentityUsable
  BY DEF UsableInv, IdentityUsable, Running, Starting, MidInit, BothCerts
<1> QED
  BY <1>1, <1>2, IdentityInit, HomeTypeInvHolds, AloneInvHolds, PTL DEF HomeSpec
=============================================================================
