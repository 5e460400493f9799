----------------------------- MODULE UartServer -----------------------------
(***************************************************************************)
(* UartServer (src/MC/App/Connectors): startServer() and stopServer(),     *)
(* called by the control thread, and uartServerThread(), the thread that   *)
(* reads the serial port through a UartClient of its own.  Each read is    *)
(* handed to a callback; "upc" is in the callback until the module that    *)
(* defines it sets upc back to "check".  The 100 ms, 2 s and 2 s sleeps    *)
(* are part of the steps they follow or precede.                           *)
(***************************************************************************)
EXTENDS Descriptors, Protocol

CONSTANTS UartData,     \* what the controller board can send, a package or not
          MaxReads      \* bound: how often a read of the port returns data

ASSUME UartAssumption ==
    /\ UartData \subseteq Buffer
    /\ MaxReads \in Nat

VARIABLES usRunning,    \* m_running
          upc,          \* where uartServerThread is
          usFd,         \* m_uartClient.m_fd
          usBuffer,     \* m_buffer
          usSize,       \* bytesRead
          reads         \* how often a read returned data

usVars == <<usRunning, upc, usFd, usBuffer, usSize, reads>>

\* The callback: a reply to one client, or a walk over all of them.
InReply == {"find", "replyOpen", "replyConnect", "replyWrite"}
InWalk  == {"walk", "walkOpen", "walkConnect", "walkWrite", "walkClose"}
InUartCallback == {"callback"} \cup InReply \cup InWalk
\* Where the port is open and configured.
Serving == {"check", "read"} \cup InUartCallback
UartPC  == {"absent", "open", "retry", "close", "exited"} \cup Serving

UsInit ==
    /\ usRunning = FALSE
    /\ upc = "absent"
    /\ usFd = FirstFd
    /\ usBuffer = NoData
    /\ usSize = 0
    /\ reads = 0

UsTypeOK ==
    /\ usRunning \in BOOLEAN
    /\ upc \in UartPC
    /\ usFd \in FdValue
    /\ usBuffer \in Buffer
    /\ usSize \in Size
    /\ reads \in 0 .. MaxReads

------------------------------------------------------------------------------
(* The control thread                                                      *)

UsStartServer ==
    /\ usRunning' = TRUE
    /\ upc' = "open"
    /\ UNCHANGED <<fdTable, usFd, usBuffer, usSize, reads>>

UsStopServer ==
    /\ usRunning' = FALSE
    /\ UNCHANGED <<fdTable, upc, usFd, usBuffer, usSize, reads>>

------------------------------------------------------------------------------
(* uartServerThread()                                                      *)

\* A server that would go on without the port.
UsOpenUnchecked ==
    /\ upc = "open"
    /\ usFd' = NoFd
    /\ upc' = "check"
    /\ UNCHANGED <<fdTable, usRunning, usBuffer, usSize, reads>>

\* The port cannot be opened.
UsOpenFails ==
    /\ upc = "open"
    /\ usFd' = NoFd
    /\ upc' = "retry"
    /\ UNCHANGED <<fdTable, usRunning, usBuffer, usSize, reads>>

\* The port is open and its attributes cannot be set: the next attempt
\* overwrites m_fd.
UsAttributesFail ==
    /\ upc = "open"
    /\ \E fd \in Fd : Opens(fd, "tty") /\ usFd' = fd
    /\ upc' = "retry"
    /\ UNCHANGED <<usRunning, usBuffer, usSize, reads>>

UsOpened ==
    /\ upc = "open"
    /\ \E fd \in Fd : Opens(fd, "tty") /\ usFd' = fd
    /\ upc' = "check"
    /\ UNCHANGED <<usRunning, usBuffer, usSize, reads>>

\* A retry loop that would not look at m_running.
UsRetryForever ==
    /\ upc = "retry"
    /\ upc' = "open"
    /\ UNCHANGED <<fdTable, usRunning, usFd, usBuffer, usSize, reads>>

\* while((err != BJBP_SUCCESS) && m_running)
UsRetry ==
    /\ upc = "retry"
    /\ upc' = IF usRunning THEN "open" ELSE "close"
    /\ UNCHANGED <<fdTable, usRunning, usFd, usBuffer, usSize, reads>>

\* while(m_running)
UsCheck ==
    /\ upc = "check"
    /\ upc' = IF usRunning THEN "read" ELSE "close"
    /\ UNCHANGED <<fdTable, usRunning, usFd, usBuffer, usSize, reads>>

\* The port is opened with O_NDELAY: a read returns at once, here with 0
\* bytes or with -1 (noted as 0: uartCallback ignores both sizes).
UsReadNothing ==
    /\ upc = "read"
    /\ usSize' = 0
    /\ upc' = "check"
    /\ UNCHANGED <<fdTable, usRunning, usFd, usBuffer, reads>>

\* The read fills all 1024 bytes, and uartCallback ignores that size too.
UsReadFull(data) ==
    /\ upc = "read"
    /\ reads < MaxReads
    /\ reads' = reads + 1
    /\ usBuffer' = data
    /\ usSize' = Whole
    /\ upc' = "check"
    /\ UNCHANGED <<fdTable, usRunning, usFd>>

\* The read returns the first n parts of what the board sent.
UsRead(data, n) ==
    /\ upc = "read"
    /\ reads < MaxReads
    /\ reads' = reads + 1
    /\ usBuffer' = Overwrite(usBuffer, data, n)
    /\ usSize' = n
    /\ upc' = "callback"
    /\ UNCHANGED <<fdTable, usRunning, usFd>>

\* The thread ends by closing m_fd, whether or not it was ever opened.
UsClose ==
    /\ upc = "close"
    /\ Closes(usFd)
    /\ upc' = "exited"
    /\ UNCHANGED <<usRunning, usFd, usBuffer, usSize, reads>>

\* The callback goes on at pc, which is "check" when it returns.
UsInCallback(pc) ==
    /\ upc' = pc
    /\ UNCHANGED <<usRunning, usFd, usBuffer, usSize, reads>>

=============================================================================
