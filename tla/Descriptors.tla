---------------------------- MODULE Descriptors ----------------------------
(***************************************************************************)
(* The descriptor table of the gateway process, as the connectors under    *)
(* src/MC/App use it: every connector keeps one number, m_fd, and nothing  *)
(* but close() ever gives an entry of the table back.  The table itself is *)
(* the operating system's: it hands out the lowest free number, and closing*)
(* a number that is not open (or is -1) changes nothing.                   *)
(***************************************************************************)
EXTENDS Integers

CONSTANT Fd         \* the numbers the process may open (RLIMIT_NOFILE)

ASSUME FdAssumption == Fd \subseteq Nat \ {0}

VARIABLE fdTable    \* what each number refers to

\* What a descriptor can be open on.
FdKind == {"server", "accepted", "tty", "peer"}

FdTable == [Fd -> FdKind \cup {"free"}]

\* What an open call that failed leaves in m_fd, and m_fd before any open.
NoFd    == -1
FirstFd == 0
FdValue == Fd \cup {NoFd, FirstFd}

OpenOn(fd, kind) == fd \in Fd /\ fdTable[fd] = kind

\* An open call that succeeds and returns fd.
Opens(fd, kind) ==
    /\ fdTable[fd] = "free"
    /\ \A g \in Fd : fdTable[g] = "free" => fd <= g
    /\ fdTable' = [fdTable EXCEPT ![fd] = kind]

\* ::close(fd).
Closes(fd) ==
    fdTable' = [g \in Fd |-> IF g = fd THEN "free" ELSE fdTable[g]]

=============================================================================
