------------------------------- MODULE Identity -------------------------------
(***************************************************************************)
(* VrchatIdentityResolver: which of the VRChat clients that run on the     *)
(* machine is the one of the account asked for.  A client does not say who *)
(* is logged in: its log does, and nothing but the time in the log's name  *)
(* links the log to the process.  Clients come and go, a process identifier*)
(* is used again, a log is written to while it is read, and the user may   *)
(* log in as somebody else.                                                *)
(*                                                                         *)
(* A log is named after a moment at most Lag after the start of its        *)
(* process; clients are started at least Spacing apart.  Only the first    *)
(* part of a log is read: what comes after it, another login included, is  *)
(* like any other line.  Of time nothing matters but when each client      *)
(* started.  Which window of a client is taken is left open: one that is   *)
(* not minimized, if it has one.                                           *)
(***************************************************************************)
EXTENDS Integers, FiniteSets

CONSTANTS
    Pid, Account, Nobody,
    Selected,           \* the account that is asked for
    Tolerance,          \* maximum_start_delta_seconds
    MaxFiles,           \* maximum_log_files
    Lag, Spacing,
    MaxClock, MaxWrites \* bounds: the last start, and what is written to one log

ASSUME IdentityAssumption ==
    /\ IsFiniteSet(Pid) /\ Selected \in Account /\ Nobody \notin Account
    /\ {Tolerance, Lag, Spacing, MaxClock} \subseteq Nat
    /\ Spacing >= 2 * Lag /\ Tolerance >= Lag

VARIABLES
    logs,       \* the log files: who started it when, the time in its name, the
                \* account its first part names last, and how much is in it
    running,    \* the start of the client that runs under an identifier, if any
    looked,     \* what a resolution has found out so far
    cache,      \* the accounts read from logs, and how much was in them
    found       \* the client it has settled for, if any

identityVars == <<logs, running, looked, cache, found>>

NoClient == [pid |-> Nobody, start |-> 0]
Distance(a, b) == IF a < b THEN b - a ELSE a - b

----------------------------------------------------------------------------
(***************************************************************************)
(* The machine.                                                            *)
(***************************************************************************)
\* A client starts, under an identifier that is free, and opens its log.
Launch(pid) ==
    /\ running[pid] = 0
    /\ \E start \in 1..MaxClock : \E stamp \in start..(start + Lag) :
           /\ \A log \in logs : start >= log.start + Spacing /\ stamp # log.stamp
           /\ running' = [running EXCEPT ![pid] = start]
           /\ logs' = logs \cup {[pid |-> pid, start |-> start, stamp |-> stamp, account |-> Nobody, size |-> 0]}
    /\ UNCHANGED <<looked, cache, found>>

Quit(pid) ==
    /\ running[pid] # 0
    /\ running' = [running EXCEPT ![pid] = 0]
    /\ UNCHANGED <<logs, looked, cache, found>>

\* The user logs in, for the first time or as somebody else, or some other line is
\* written.
WriteLog(log) ==
    /\ running[log.pid] = log.start /\ log.size < MaxWrites
    /\ \E account \in Account \cup {log.account} :
           logs' = (logs \ {log}) \cup {[log EXCEPT !.size = @ + 1, !.account = account]}
    /\ UNCHANGED <<running, looked, cache, found>>

----------------------------------------------------------------------------
(***************************************************************************)
(* A resolution looks at the windows, then at the processes, then at the   *)
(* logs.                                                                   *)
(***************************************************************************)
Idle == [at |-> "idle", pids |-> {}, starts |-> <<>>]

Enumerate ==
    /\ looked = Idle /\ found = NoClient
    /\ \E pids \in SUBSET {p \in Pid : running[p] # 0} :     \* those that show a window by now
           looked' = [at |-> "windows", pids |-> pids, starts |-> <<>>]
    /\ UNCHANGED <<logs, running, cache, found>>

\* A process that has ended since is left out.
ReadStarts ==
    /\ looked.at = "windows"
    /\ looked' = [at |-> "starts", pids |-> {},
                starts |-> [p \in {q \in looked.pids : running[q] # 0} |-> running[p]]]
    /\ UNCHANGED <<logs, running, cache, found>>

\* The newest logs by their names.
Newest == {log \in logs : Cardinality({other \in logs : other.stamp > log.stamp}) < MaxFiles}

\* Faulty: an account that was read once is not read again.
SessionsOnce ==
    {[start |-> log.start, stamp |-> log.stamp, size |-> log.size,
      account |-> LET old == {c \in cache : c.start = log.start}
                  IN IF old # {} THEN (CHOOSE c \in old : TRUE).account ELSE log.account] : log \in Newest}

\* What is remembered of a log holds as long as nothing was written to it; logs
\* that are no longer among the newest are forgotten.
Sessions ==
    {[start |-> log.start, stamp |-> log.stamp, size |-> log.size,
      account |-> LET old == {c \in cache : c.start = log.start /\ c.size = log.size}
                  IN IF old # {} THEN (CHOOSE c \in old : TRUE).account ELSE log.account] : log \in Newest}

\* The logs with an account that are closest to a start, within the tolerance:
\* more than one of them is an error.
Nearest(start, sessions) ==
    LET near == {s \in sessions : s.account # Nobody /\ Distance(s.stamp, start) <= Tolerance}
    IN {s \in near : \A t \in near : Distance(s.stamp, start) <= Distance(t.stamp, start)}

Matches ==
    {p \in DOMAIN looked.starts :
        \E s \in Nearest(looked.starts[p], Sessions) : s.account = Selected}

\* Logs that are equally near, and more than one match, are errors; nothing found
\* and an error alike are tried again.
MatchLogs ==
    /\ looked.at = "starts"
    /\ looked' = Idle /\ cache' = Sessions
    /\ LET tied == \E p \in DOMAIN looked.starts : Cardinality(Nearest(looked.starts[p], Sessions)) > 1
       IN found' = IF tied \/ Cardinality(Matches) # 1 THEN NoClient
                   ELSE LET p == CHOOSE q \in Matches : TRUE
                        IN [pid |-> p, start |-> looked.starts[p]]
    /\ UNCHANGED <<logs, running>>

\* is_current: the identifier still belongs to the process that was found.
IsCurrent(client) == running[client.pid] = client.start

LoseClient ==
    /\ found # NoClient /\ ~IsCurrent(found)
    /\ found' = NoClient
    /\ UNCHANGED <<logs, running, looked, cache>>

----------------------------------------------------------------------------
IdentityInit ==
    /\ logs = {} /\ cache = {}
    /\ running = [p \in Pid |-> 0]
    /\ looked = Idle /\ found = NoClient

IdentityNext ==
    \/ \E p \in Pid : Launch(p) \/ Quit(p)
    \/ \E log \in logs : WriteLog(log)
    \/ Enumerate \/ ReadStarts \/ MatchLogs \/ LoseClient

----------------------------------------------------------------------------
OwnLogs(p) == {log \in Newest : log.pid = p /\ log.start = looked.starts[p]}

\* Property: what it settles for is the account that was asked for: the log of that
\* very process, if it is among those read and names an account at all, names
\* this one, and no other client's log does; whatever started, ended, was logged
\* into or was written meanwhile.
FindsTheSelected ==
    [][found' # found /\ found' # NoClient =>
           \A p \in DOMAIN looked.starts : \A log \in OwnLogs(p) :
               log.account # Nobody => (log.account = Selected <=> p = found'.pid)]_identityVars
================================================================================
