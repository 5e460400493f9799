---------------------------- MODULE NetworkServer ----------------------------
(***************************************************************************)
(* NetworkServer (src/MC/App/Network): open() and close(), called by the   *)
(* control thread, and serverListenerThread(), the thread open() starts.   *)
(* The listener hands each message to a callback; "lpc" stays in the       *)
(* callback's own values until the module that defines the callback sets   *)
(* it back to "check".                                                     *)
(***************************************************************************)
EXTENDS Descriptors, Protocol

CONSTANTS Client,       \* addresses clients connect from
          NetworkData,  \* what a client can send, a package or not
          MaxAccepts    \* bound: how often accept() returns

ASSUME NetworkAssumption ==
    /\ Client \subseteq Address
    /\ NetworkData \subseteq Buffer
    /\ MaxAccepts \in Nat

VARIABLES nsRunning,    \* m_running
          nsFd,         \* m_fd, the listening socket
          lpc,          \* where serverListenerThread is
          lErr,         \* its local err, TRUE when it is not BJBP_SUCCESS
          lSocket,      \* its local clientSocket
          lPeer,        \* its local sockaddr_in client
          nsBuffer,     \* m_buffer
          nsSize,       \* its local msgSize
          accepts       \* how often accept() returned

nsVars == <<nsRunning, nsFd, lpc, lErr, lSocket, lPeer, nsBuffer, nsSize, accepts>>

\* The values of lpc inside the callback, and those where the accepted
\* socket is still in use.
InNetworkCallback == {"callback", "insert", "openUart", "writeUart", "closeUart"}
ListenerPC == {"absent", "check", "accept", "blocked", "recv", "exited"} \cup InNetworkCallback

\* The socket address before any accept() returned is uninitialised.
NoPeer == Garbage

NsInit ==
    /\ nsRunning = FALSE
    /\ nsFd = FirstFd
    /\ lpc = "absent"
    /\ lErr = FALSE
    /\ lSocket = FirstFd
    /\ lPeer = NoPeer
    /\ nsBuffer = NoData
    /\ nsSize = 0
    /\ accepts = 0

NsTypeOK ==
    /\ nsRunning \in BOOLEAN
    /\ nsFd \in FdValue
    /\ lpc \in ListenerPC
    /\ lErr \in BOOLEAN
    /\ lSocket \in FdValue
    /\ lPeer \in Client \cup {NoPeer}
    /\ nsBuffer \in Buffer
    /\ nsSize \in Size
    /\ accepts \in 0 .. MaxAccepts

------------------------------------------------------------------------------
(* The control thread: open() and close().                                 *)

\* socket() fails.
NsSocketFails ==
    /\ nsFd' = NoFd
    /\ UNCHANGED <<fdTable, nsRunning, lpc, lErr, lSocket, lPeer, nsBuffer, nsSize, accepts>>

\* bind() fails and open() returns with the socket open.
NsBindFails ==
    /\ \E fd \in Fd : Opens(fd, "server") /\ nsFd' = fd
    /\ UNCHANGED <<nsRunning, lpc, lErr, lSocket, lPeer, nsBuffer, nsSize, accepts>>

\* The socket listens and the listener thread is started and detached ...
NsListen ==
    /\ \E fd \in Fd : Opens(fd, "server") /\ nsFd' = fd
    /\ lpc' = "check"
    /\ UNCHANGED <<nsRunning, lErr, lSocket, lPeer, nsBuffer, nsSize, accepts>>

\* ... and only then open() sets m_running and returns.
NsSetRunning ==
    /\ nsRunning' = TRUE
    /\ UNCHANGED <<fdTable, nsFd, lpc, lErr, lSocket, lPeer, nsBuffer, nsSize, accepts>>

\* close(): first the flag, then the descriptor, whose number stays in m_fd.
NsClearRunning ==
    /\ nsRunning' = FALSE
    /\ UNCHANGED <<fdTable, nsFd, lpc, lErr, lSocket, lPeer, nsBuffer, nsSize, accepts>>

NsCloseSocket ==
    /\ Closes(nsFd)
    /\ UNCHANGED nsVars

------------------------------------------------------------------------------
(* serverListenerThread()                                                  *)

\* while(m_running)
LCheck ==
    /\ lpc = "check"
    /\ lpc' = IF nsRunning THEN "accept" ELSE "exited"
    /\ UNCHANGED <<fdTable, nsRunning, nsFd, lErr, lSocket, lPeer, nsBuffer, nsSize, accepts>>

\* accept(m_fd) is called while m_fd is the listening socket, and blocks.
LAcceptBlocks ==
    /\ lpc = "accept"
    /\ OpenOn(nsFd, "server")
    /\ lpc' = "blocked"
    /\ UNCHANGED <<fdTable, nsRunning, nsFd, lErr, lSocket, lPeer, nsBuffer, nsSize, accepts>>

\* close() has come between the look at m_running and the call: m_fd is a
\* number that is free, or that another thread has been handed meanwhile and
\* that does not listen.  accept() fails at once.
LAcceptStale ==
    /\ lpc = "accept"
    /\ ~OpenOn(nsFd, "server")
    /\ lErr' = TRUE
    /\ lpc' = "check"
    /\ UNCHANGED <<fdTable, nsRunning, nsFd, lSocket, lPeer, nsBuffer, nsSize, accepts>>

\* A listener that would look at the socket and not at err.
LAcceptedAnyway(c) ==
    /\ lpc = "blocked"
    /\ accepts < MaxAccepts
    /\ accepts' = accepts + 1
    /\ \E fd \in Fd : Opens(fd, "accepted") /\ lSocket' = fd
    /\ lPeer' = c
    /\ lpc' = "recv"
    /\ UNCHANGED <<nsRunning, nsFd, lErr, nsBuffer, nsSize>>

\* accept() returns a socket.  A call that blocks keeps the listening socket
\* alive, so this is possible after close() too.  The
\* socket is used only if no accept() has failed so far; whether used or
\* not, nothing ever closes it.  clientSocket and msgSize live for one turn
\* of the loop.
LAccepted(c) ==
    /\ lpc = "blocked"
    /\ accepts < MaxAccepts
    /\ accepts' = accepts + 1
    /\ \E fd \in Fd :
         /\ Opens(fd, "accepted")
         /\ lSocket' = IF lErr THEN FirstFd ELSE fd
    /\ lPeer' = c
    /\ lpc' = IF lErr THEN "check" ELSE "recv"
    /\ UNCHANGED <<nsRunning, nsFd, lErr, nsBuffer, nsSize>>

\* A listener that would use the socket without looking at it.
LAcceptUnchecked ==
    /\ lpc = "blocked"
    /\ accepts < MaxAccepts
    /\ accepts' = accepts + 1
    /\ lpc' = "recv"
    /\ UNCHANGED <<fdTable, nsRunning, nsFd, lErr, lSocket, lPeer, nsBuffer, nsSize>>

\* A listener that would end when an accept() fails.
LAcceptFailsEnds ==
    /\ lpc = "blocked"
    /\ accepts < MaxAccepts
    /\ accepts' = accepts + 1
    /\ lErr' = TRUE
    /\ lpc' = "exited"
    /\ UNCHANGED <<fdTable, nsRunning, nsFd, lSocket, lPeer, nsBuffer, nsSize>>

\* accept() fails: the table is full, the connection was aborted.  err is
\* never set back to BJBP_SUCCESS.
LAcceptFails ==
    /\ lpc = "blocked"
    /\ accepts < MaxAccepts
    /\ accepts' = accepts + 1
    /\ lErr' = TRUE
    /\ lpc' = "check"
    /\ UNCHANGED <<fdTable, nsRunning, nsFd, lSocket, lPeer, nsBuffer, nsSize>>

\* recv() returns the first n parts of what the client sent, none of it when
\* the client closed the connection first.
LReceived(data, n) ==
    /\ lpc = "recv"
    /\ nsBuffer' = Overwrite(nsBuffer, data, n)
    /\ nsSize' = n
    /\ lpc' = "callback"
    /\ UNCHANGED <<fdTable, nsRunning, nsFd, lErr, lSocket, lPeer, accepts>>

\* recv() fails.  An unsigned size is never below 0, so the callback is
\* called with the buffer as it was.
LReceiveFails ==
    /\ lpc = "recv"
    /\ nsSize' = MinusOne
    /\ lpc' = "callback"
    /\ UNCHANGED <<fdTable, nsRunning, nsFd, lErr, lSocket, lPeer, nsBuffer, accepts>>

\* The callback goes on ...
LInCallback(pc) ==
    /\ lpc' = pc
    /\ UNCHANGED <<nsRunning, nsFd, lErr, lSocket, lPeer, nsBuffer, nsSize, accepts>>

\* ... or returns, and the next turn of the loop begins.  The socket the
\* client was accepted on stays open.
LCallbackReturns ==
    /\ lpc' = "check"
    /\ lSocket' = FirstFd
    /\ nsSize' = 0
    /\ UNCHANGED <<nsRunning, nsFd, lErr, lPeer, nsBuffer, accepts>>

==============================================================================
