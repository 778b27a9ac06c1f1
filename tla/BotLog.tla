------------------------------- MODULE BotLog -------------------------------
(***************************************************************************)
(* The DHT node's connection loop (dht-core/src/dht_node.rs,               *)
(* handle_connection) and the log it writes about bad clients              *)
(* (dht-core/src/bot_log.rs).  A log file that has grown too large is      *)
(* renamed to .1, .1 to .2 and so on, and the last one is lost.  The       *)
(* connections log without a lock, and every file operation is a step of   *)
(* its own.                                                                *)
(*                                                                         *)
(* A line is its number.  What handle_put, handle_get and                  *)
(* handle_addr_record do is DhtNode's.                                     *)
(***************************************************************************)
EXTENDS Integers, Sequences, FiniteSets

CONSTANTS
    Clients,     \* connections
    NoLog,       \* no such file
    MaxFailures, \* MAX_FAILURES
    Suspect,     \* failures that make a closing connection suspect (5)
    LogLines,    \* lines that make the file too large
    MaxRotated,  \* MAX_ROTATED_FILES
    MaxLines     \* bound: lines ever logged

ASSUME BotLogAssumption ==
    /\ MaxFailures \in Nat /\ Suspect \in Nat /\ LogLines \in Nat \ {0}
    /\ MaxRotated \in Nat \ {0} /\ MaxLines \in Nat
    /\ NoLog \notin Seq(Nat)

VARIABLES
    failures,   \* consecutive_failures of each connection
    logStep,    \* "read", a step of log, or "closed"
    shift,      \* shift[c]: the next file c renames onto
    then,       \* then[c]: the step after the log call
    logFile,    \* logFile[0] the log, logFile[i] the rotated .i
    lines,      \* lines written so far
    logUpset    \* observation: a rotation ran while another connection was logging

logVars == <<failures, logStep, shift, then, logFile, lines, logUpset>>

Logging == {"check", "shift", "truncate", "append"}
Rotating == {"shift", "truncate"}
Others(c, steps) == \E d \in Clients \ {c} : logStep[d] \in steps

LogInit ==
    /\ failures = [c \in Clients |-> 0]
    /\ logStep = [c \in Clients |-> "read"]
    /\ shift = [c \in Clients |-> 0]
    /\ then = [c \in Clients |-> "read"]
    /\ logFile = [i \in 0..MaxRotated |-> NoLog]
    /\ lines = 0
    /\ logUpset = FALSE

\* The connection goes on to log, and then to step s; or goes on at once.
CallLog(c, call, s) ==
    /\ lines < MaxLines
    /\ logStep' = [logStep EXCEPT ![c] = IF call THEN "check" ELSE s]
    /\ then' = [then EXCEPT ![c] = s]
    /\ logUpset' = (logUpset \/ (call /\ Others(c, Rotating)))
    /\ UNCHANGED <<shift, logFile, lines>>

\* An envelope that cannot be parsed or is stale: the tenth in a row is logged.
\* Bound: past the tenth the count is only compared with Suspect, and stays.
BadEnvelope(c) ==
    /\ logStep[c] = "read" /\ failures[c] <= MaxFailures
    /\ failures' = [failures EXCEPT ![c] = @ + 1]
    /\ CallLog(c, failures[c] + 1 = MaxFailures, "read")

\* A good envelope is handled; an unknown type, or a get over the limit, is logged.
GoodEnvelope(c, bad) ==
    /\ logStep[c] = "read"
    /\ failures' = [failures EXCEPT ![c] = 0]
    /\ CallLog(c, bad, "read")

\* The connection ends; some failures are logged once more.
CloseConnection(c) ==
    /\ logStep[c] = "read"
    /\ UNCHANGED failures
    /\ CallLog(c, failures[c] >= Suspect, "closed")

\* rotate_if_needed: the size is looked at once.
CheckSize(c) ==
    /\ logStep[c] = "check"
    /\ LET full == logFile[0] # NoLog /\ Len(logFile[0]) >= LogLines
       IN /\ logStep' = [logStep EXCEPT ![c] = IF full THEN "shift" ELSE "append"]
          /\ shift' = [shift EXCEPT ![c] = IF full THEN MaxRotated ELSE 0]
          /\ logUpset' = (logUpset \/ (full /\ Others(c, Logging)))
    /\ UNCHANGED <<failures, then, logFile, lines>>

Renamed(from, to) ==
    IF logFile[from] = NoLog THEN logFile
    ELSE [logFile EXCEPT ![to] = logFile[from], ![from] = NoLog]

\* Mutant of ShiftFile: the files are renamed in the order 1, 2, ...
ShiftFileUpwards(c) ==
    /\ logStep[c] = "shift"
    /\ LET to == MaxRotated + 1 - shift[c] IN logFile' = Renamed(to - 1, to)
    /\ shift' = [shift EXCEPT ![c] = @ - 1]
    /\ logStep' = [logStep EXCEPT ![c] = IF shift[c] = 1 THEN "truncate" ELSE "shift"]
    /\ UNCHANGED <<failures, then, lines, logUpset>>

\* One rename of the loop; a missing file is ignored.
ShiftFile(c) ==
    /\ logStep[c] = "shift"
    /\ logFile' = Renamed(shift[c] - 1, shift[c])
    /\ shift' = [shift EXCEPT ![c] = @ - 1]
    /\ logStep' = [logStep EXCEPT ![c] = IF shift[c] = 1 THEN "truncate" ELSE "shift"]
    /\ UNCHANGED <<failures, then, lines, logUpset>>

\* The log is emptied, whatever is in it by now.
Truncate(c) ==
    /\ logStep[c] = "truncate"
    /\ logFile' = [logFile EXCEPT ![0] = << >>]
    /\ logStep' = [logStep EXCEPT ![c] = "append"]
    /\ UNCHANGED <<failures, shift, then, lines, logUpset>>

AppendLine(c) ==
    /\ logStep[c] = "append"
    /\ lines' = lines + 1
    /\ logFile' = [logFile EXCEPT ![0] = IF @ = NoLog THEN <<lines + 1>> ELSE Append(@, lines + 1)]
    /\ logStep' = [logStep EXCEPT ![c] = then[c]]
    /\ UNCHANGED <<failures, shift, then, logUpset>>

LogNext ==
    \E c \in Clients :
       \/ BadEnvelope(c) \/ CloseConnection(c) \/ \E bad \in BOOLEAN : GoodEnvelope(c, bad)
       \/ CheckSize(c) \/ ShiftFile(c) \/ Truncate(c) \/ AppendLine(c)

LogSpec == LogInit /\ [][LogNext]_logVars

-----------------------------------------------------------------------------
(* Properties                                                               *)

Kept == UNION {LET s == logFile[i] IN IF s = NoLog THEN {} ELSE {s[k] : k \in 1..Len(s)} :
                  i \in 0..MaxRotated}

\* The files always hold the latest MaxRotated * LogLines lines, with no gap,
\* also while a rotation is half done, and however appends interleave with each
\* other.  Only when a rotation runs while another connection logs may a line be
\* truncated away, or a file be renamed twice.
LatestLinesKept ==
    \/ logUpset
    \/ \A n \in 1..lines : n > lines - MaxRotated * LogLines => n \in Kept
=============================================================================
