--------------------------- MODULE MainController ---------------------------
(***************************************************************************)
(* The gateway (src/MC/App): MainController with its UartServer, its       *)
(* NetworkServer, the UartClient it writes the serial port with, and the   *)
(* NetworkClients it answers through.  Three threads run: the control      *)
(* thread in start() and stop(), the network listener in networkCallback() *)
(* and the UART thread in uartCallback().  Nothing is locked: a step below *)
(* is one access to the client map, the descriptor table or a flag.        *)
(***************************************************************************)
EXTENDS NetworkServer, UartServer

VARIABLES ctl,          \* where the control thread is
          clientMap,    \* the keys of m_clientMap
          ucFd          \* m_uartClient.m_fd

\* Local to uartCallback(), and dead when it returns.
VARIABLES peer,         \* the address of the NetworkClient copy in use
          peerFd,       \* and its m_fd
          walkTodo      \* clients the iterator of notifyAllClients has not reached

\* History, read by no action: of the current broadcast ...
VARIABLES raced,        \* the map changed, or was changing, under the iterator
          notified      \* clients served so far

\* ... and of the whole run.
VARIABLES received,     \* what recv() returned from clients, with its size
          heard,        \* what read() returned from the port, with its size
          wire,         \* what write() put on the port, with the size it was given
          delivered     \* what send() gave to clients

mainVars  == <<ctl, clientMap, ucFd>>
localVars == <<peer, peerFd, walkTodo, raced, notified>>
histVars  == <<received, heard, wire, delivered>>
vars      == <<fdTable, nsVars, usVars, mainVars, localVars, histVars>>

ControlPC == {"new", "opening", "spawned", "started", "failed",
              "stopping", "closing", "stopped"}

Receipt  == [msg : Buffer, size : Size]
Delivery == [to : Client, by : {"reply", "notify"}, msg : Buffer]

\* uartCallback() has not been entered, or has returned.
NoLocals ==
    /\ peer = NoPeer
    /\ peerFd = FirstFd
    /\ walkTodo = {}
    /\ raced = FALSE
    /\ notified = {}

Init ==
    /\ fdTable = [fd \in Fd |-> "free"]
    /\ NsInit
    /\ UsInit
    /\ ctl = "new"
    /\ clientMap = {}
    /\ ucFd = FirstFd
    /\ NoLocals
    /\ received = {}
    /\ heard = {}
    /\ wire = {}
    /\ delivered = {}

TypeOK ==
    /\ fdTable \in FdTable
    /\ NsTypeOK
    /\ UsTypeOK
    /\ ctl \in ControlPC
    /\ clientMap \subseteq Client
    /\ ucFd \in FdValue
    /\ peer \in Client \cup {NoPeer}
    /\ peerFd \in FdValue
    /\ walkTodo \subseteq Client
    /\ raced \in BOOLEAN
    /\ notified \subseteq Client
    /\ received \subseteq Receipt
    /\ heard \subseteq Receipt
    /\ wire \subseteq Receipt
    /\ delivered \subseteq Delivery

------------------------------------------------------------------------------
(* start() and stop(), each called once                                    *)

\* start(): the UART server first; startServer() always succeeds.
StartUart ==
    /\ ctl = "new"
    /\ ctl' = "opening"
    /\ UsStartServer
    /\ UNCHANGED <<nsVars, clientMap, ucFd, localVars, histVars>>

\* Then the network server.  If it fails the UART server is left running.
StartNetworkFails ==
    /\ ctl = "opening"
    /\ ctl' = "failed"
    /\ NsSocketFails \/ NsBindFails
    /\ UNCHANGED <<usVars, clientMap, ucFd, localVars, histVars>>

StartNetwork ==
    /\ ctl = "opening"
    /\ ctl' = "spawned"
    /\ NsListen
    /\ UNCHANGED <<usVars, clientMap, ucFd, localVars, histVars>>

StartReturns ==
    /\ ctl = "spawned"
    /\ ctl' = "started"
    /\ NsSetRunning
    /\ UNCHANGED <<usVars, clientMap, ucFd, localVars, histVars>>

\* stop(), after start() has returned, whatever it returned.
StopUart ==
    /\ ctl \in {"started", "failed"}
    /\ ctl' = "stopping"
    /\ UsStopServer
    /\ UNCHANGED <<nsVars, clientMap, ucFd, localVars, histVars>>

StopNetwork ==
    /\ ctl = "stopping"
    /\ ctl' = "closing"
    /\ NsClearRunning
    /\ UNCHANGED <<usVars, clientMap, ucFd, localVars, histVars>>

StopReturns ==
    /\ ctl = "closing"
    /\ ctl' = "stopped"
    /\ NsCloseSocket
    /\ UNCHANGED <<usVars, clientMap, ucFd, localVars, histVars>>

ControlThread ==
    \/ StartUart \/ StartNetworkFails \/ StartNetwork \/ StartReturns
    \/ StopUart \/ StopNetwork \/ StopReturns

------------------------------------------------------------------------------
(* The listener thread up to the callback                                  *)

ListenerChecks ==
    /\ LCheck
    /\ UNCHANGED <<usVars, mainVars, localVars, histVars>>

ListenerAccepts ==
    /\ \/ LAcceptBlocks \/ LAcceptStale
       \/ (\E c \in Client : LAccepted(c)) \/ LAcceptFails
    /\ UNCHANGED <<usVars, mainVars, localVars, histVars>>

ListenerReceives ==
    /\ \/ \E data \in NetworkData, n \in Cut :
            /\ LReceived(data, n)
            /\ received' = received \cup {[msg |-> FirstParts(data, n), size |-> n]}
       \/ LReceiveFails /\ UNCHANGED received
    /\ UNCHANGED <<usVars, mainVars, localVars, heard, wire, delivered>>

------------------------------------------------------------------------------
(* networkCallback(), on the listener thread                               *)

\* Once addClientToMap() has returned: loadPackageFromBuffer().
AfterRegister ==
    IF LoadsPackage(nsBuffer, nsSize) THEN LInCallback("openUart") ELSE LCallbackReturns

\* addClientToMap(), for a client the map holds already.  A client is added
\* whether or not the message is a package.
RegisterKnown ==
    /\ lpc = "callback"
    /\ lPeer \in clientMap
    /\ AfterRegister
    /\ UNCHANGED <<fdTable, usVars, mainVars, localVars, histVars>>

\* addClientToMap(), for a new one: while insert() is at work the table may
\* be rehashed, and the other thread may be reading it ...
RegisterBegins ==
    /\ lpc = "callback"
    /\ lPeer \notin clientMap
    /\ LInCallback("insert")
    /\ UNCHANGED <<fdTable, usVars, mainVars, localVars, histVars>>

\* ... so an iterator in use has any of the clients left before it.
RegisterEnds ==
    /\ lpc = "insert"
    /\ clientMap' = clientMap \cup {lPeer}
    /\ IF upc \in InWalk
       THEN /\ raced' = TRUE
            /\ walkTodo' \in SUBSET clientMap'
       ELSE UNCHANGED <<raced, walkTodo>>
    /\ AfterRegister
    /\ UNCHANGED <<fdTable, usVars, ctl, ucFd, peer, peerFd, notified, histVars>>

\* m_uartClient.open() fails, with or without a descriptor left behind.
UartClientOpenFails ==
    /\ lpc = "openUart"
    /\ \/ ucFd' = NoFd /\ UNCHANGED fdTable
       \/ \E fd \in Fd : Opens(fd, "tty") /\ ucFd' = fd
    /\ LCallbackReturns
    /\ UNCHANGED <<usVars, ctl, clientMap, localVars, histVars>>

UartClientOpens ==
    /\ lpc = "openUart"
    /\ \E fd \in Fd : Opens(fd, "tty") /\ ucFd' = fd
    /\ LInCallback("writeUart")
    /\ UNCHANGED <<usVars, ctl, clientMap, localVars, histVars>>

\* write() fails and the callback returns with the port open.
UartClientWriteFails ==
    /\ lpc = "writeUart"
    /\ LCallbackReturns
    /\ UNCHANGED <<fdTable, usVars, mainVars, localVars, histVars>>

\* A write that would take the whole buffer, whatever was received.
UartClientWritesAll ==
    /\ lpc = "writeUart"
    /\ wire' = wire \cup {[msg |-> nsBuffer, size |-> nsSize]}
    /\ LInCallback("closeUart")
    /\ UNCHANGED <<fdTable, usVars, mainVars, localVars, received, heard, delivered>>

\* write(buffer, size) puts the first bytes of the buffer on the port, as
\* many as were received or fewer, down to none, and reports success.
UartClientWrites ==
    /\ lpc = "writeUart"
    /\ \/ UNCHANGED wire
       \/ \E p \in Beginnings(nsBuffer, nsSize) :
            wire' = wire \cup {[msg |-> p, size |-> nsSize]}
    /\ LInCallback("closeUart")
    /\ UNCHANGED <<fdTable, usVars, mainVars, localVars, received, heard, delivered>>

UartClientCloses ==
    /\ lpc = "closeUart"
    /\ Closes(ucFd)
    /\ LCallbackReturns
    /\ UNCHANGED <<usVars, mainVars, localVars, histVars>>

NetworkCallback ==
    \/ RegisterKnown \/ RegisterBegins \/ RegisterEnds
    \/ UartClientOpenFails \/ UartClientOpens
    \/ UartClientWriteFails \/ UartClientWrites
    \/ UartClientCloses

------------------------------------------------------------------------------
(* The UART thread up to the callback                                      *)

UartThreadServes ==
    /\ \/ UsOpenFails \/ UsAttributesFail \/ UsOpened \/ UsRetry
       \/ UsCheck \/ UsReadNothing \/ UsClose
    /\ UNCHANGED <<nsVars, mainVars, localVars, histVars>>

UartThreadReads ==
    /\ \/ \E data \in UartData :
            /\ UsReadFull(data)
            /\ heard' = heard \cup {[msg |-> data, size |-> Whole]}
       \/ \E data \in UartData, n \in Cut \ {0} :
            /\ UsRead(data, n)
            /\ heard' = heard \cup {[msg |-> FirstParts(data, n), size |-> n]}
    /\ UNCHANGED <<nsVars, mainVars, localVars, received, wire, delivered>>

------------------------------------------------------------------------------
(* uartCallback(), on the UART thread                                      *)

\* uartCallback() returns, and its locals are gone.
UartCallbackReturns ==
    /\ UsInCallback("check")
    /\ peer' = NoPeer
    /\ peerFd' = FirstFd
    /\ walkTodo' = {}
    /\ raced' = FALSE
    /\ notified' = {}

\* What another thread sees of the set s of clients while insert() is at
\* work on the map: any part of the map; otherwise s.
Seen(s) == IF lpc = "insert" THEN SUBSET clientMap ELSE {s}

\* A send that would take the whole buffer, whatever was read.
SendsAllTo(by, parts) ==
    delivered' = delivered \cup {[to |-> peer, by |-> by, msg |-> usBuffer]}

\* These parts of the message go to the current peer.
SendsTo(by, parts) ==
    delivered' = delivered \cup {[to |-> peer, by |-> by, msg |-> parts]}

\* loadPackageFromBuffer() fails, or the module asks for nothing here.
DispatchIgnores ==
    /\ upc = "callback"
    /\ ~LoadsPackage(usBuffer, usSize) \/ usBuffer.module \notin {"get", "getAll", "notifyAll"}
    /\ UartCallbackReturns
    /\ UNCHANGED <<fdTable, nsVars, mainVars, histVars>>

DispatchReply ==
    /\ upc = "callback"
    /\ LoadsPackage(usBuffer, usSize)
    /\ usBuffer.module \in {"get", "getAll"}
    /\ UsInCallback("find")
    /\ UNCHANGED <<fdTable, nsVars, mainVars, localVars, histVars>>

\* notifyAllClients(): begin().
DispatchNotify ==
    /\ upc = "callback"
    /\ LoadsPackage(usBuffer, usSize)
    /\ usBuffer.module = "notifyAll"
    /\ UsInCallback("walk")
    /\ walkTodo' \in Seen(clientMap)
    /\ raced' = (lpc = "insert")
    /\ UNCHANGED <<fdTable, nsVars, mainVars, peer, peerFd, notified, histVars>>

\* sendMsgToClient(): the client is not in the map, or is not seen there.
FindFails ==
    /\ upc = "find"
    /\ usBuffer.ip \notin clientMap \/ lpc = "insert"
    /\ UartCallbackReturns
    /\ UNCHANGED <<fdTable, nsVars, mainVars, histVars>>

FindSucceeds ==
    /\ upc = "find"
    /\ usBuffer.ip \in clientMap
    /\ peer' = usBuffer.ip
    /\ UsInCallback("replyOpen")
    /\ UNCHANGED <<fdTable, nsVars, mainVars, peerFd, walkTodo, raced, notified, histVars>>

\* NetworkClient::open(): socket() fails ...
ReplyOpenFails ==
    /\ upc = "replyOpen"
    /\ UartCallbackReturns
    /\ UNCHANGED <<fdTable, nsVars, mainVars, histVars>>

\* ... or it opens the socket that is held while connect() waits ...
PeerOpens ==
    /\ \E fd \in Fd : Opens(fd, "peer") /\ peerFd' = fd
    /\ UNCHANGED <<nsVars, mainVars, peer, walkTodo, raced, notified, histVars>>

ReplyOpens ==
    /\ upc = "replyOpen"
    /\ UsInCallback("replyConnect")
    /\ PeerOpens

\* ... and that is closed when connect() fails, under a number that any
\* thread may be handed next ...
ReplyConnectFails ==
    /\ upc = "replyConnect"
    /\ Closes(peerFd)
    /\ UartCallbackReturns
    /\ UNCHANGED <<nsVars, mainVars, histVars>>

\* ... and kept when it succeeds.
ReplyConnects ==
    /\ upc = "replyConnect"
    /\ UsInCallback("replyWrite")
    /\ UNCHANGED <<fdTable, nsVars, mainVars, localVars, histVars>>

\* The answer is sent, in part or not at all, and the socket is not closed.
ReplyWrites ==
    /\ upc = "replyWrite"
    /\ \/ UNCHANGED delivered
       \/ \E p \in Beginnings(usBuffer, usSize) : SendsTo("reply", p)
    /\ UartCallbackReturns
    /\ UNCHANGED <<fdTable, nsVars, mainVars, received, heard, wire>>

\* notifyAllClients(): the iterator is at the end ...
WalkEnds ==
    /\ upc = "walk"
    /\ {} \in Seen(walkTodo)
    /\ UartCallbackReturns
    /\ UNCHANGED <<fdTable, nsVars, mainVars, histVars>>

\* An iterator that is never advanced.
WalkStays(c) ==
    /\ upc = "walk"
    /\ \E s \in Seen(walkTodo) : c \in s /\ walkTodo' = s
    /\ raced' = (raced \/ lpc = "insert")
    /\ peer' = c
    /\ UsInCallback("walkOpen")
    /\ UNCHANGED <<fdTable, nsVars, mainVars, peerFd, notified, histVars>>

\* ... or at some client.  The order of the map is left open.
WalkReaches(c) ==
    /\ upc = "walk"
    /\ \E s \in Seen(walkTodo) : c \in s /\ walkTodo' = s \ {c}
    /\ raced' = (raced \/ lpc = "insert")
    /\ peer' = c
    /\ UsInCallback("walkOpen")
    /\ UNCHANGED <<fdTable, nsVars, mainVars, peerFd, notified, histVars>>

\* A walk that would go on with the next client.
WalkSkips ==
    /\ upc = "walkOpen"
    /\ UsInCallback("walk")
    /\ UNCHANGED <<fdTable, nsVars, mainVars, localVars, histVars>>

\* Each failure returns from the walk: the clients left get nothing.
WalkOpenFails ==
    /\ upc = "walkOpen"
    /\ UartCallbackReturns
    /\ UNCHANGED <<fdTable, nsVars, mainVars, histVars>>

WalkOpens ==
    /\ upc = "walkOpen"
    /\ UsInCallback("walkConnect")
    /\ PeerOpens

WalkConnectFails ==
    /\ upc = "walkConnect"
    /\ Closes(peerFd)
    /\ UartCallbackReturns
    /\ UNCHANGED <<nsVars, mainVars, histVars>>

WalkConnects ==
    /\ upc = "walkConnect"
    /\ UsInCallback("walkWrite")
    /\ UNCHANGED <<fdTable, nsVars, mainVars, localVars, histVars>>

\* Less than all was sent, and the socket is not closed.
WalkWriteFails ==
    /\ upc = "walkWrite"
    /\ \/ UNCHANGED delivered
       \/ \E p \in Beginnings(usBuffer, usSize - 1) : SendsTo("notify", p)
    /\ UartCallbackReturns
    /\ UNCHANGED <<fdTable, nsVars, mainVars, received, heard, wire>>

WalkWrites ==
    /\ upc = "walkWrite"
    /\ SendsTo("notify", FirstParts(usBuffer, usSize))
    /\ notified' = notified \cup {peer}
    /\ UsInCallback("walkClose")
    /\ UNCHANGED <<fdTable, nsVars, mainVars, peer, peerFd, walkTodo, raced,
                   received, heard, wire>>

WalkCloses ==
    /\ upc = "walkClose"
    /\ Closes(peerFd)
    /\ UsInCallback("walk")
    /\ UNCHANGED <<nsVars, mainVars, localVars, histVars>>

\* close() reports an error, which ends the walk too; the system has freed
\* the number all the same.
WalkCloseFails ==
    /\ upc = "walkClose"
    /\ Closes(peerFd)
    /\ UartCallbackReturns
    /\ UNCHANGED <<nsVars, mainVars, histVars>>

UartCallback ==
    \/ DispatchIgnores \/ DispatchReply \/ DispatchNotify
    \/ FindFails \/ FindSucceeds
    \/ ReplyOpenFails \/ ReplyOpens \/ ReplyConnectFails \/ ReplyConnects \/ ReplyWrites
    \/ WalkEnds \/ (\E c \in Client : WalkReaches(c))
    \/ WalkOpenFails \/ WalkOpens \/ WalkConnectFails \/ WalkConnects
    \/ WalkWriteFails \/ WalkWrites \/ WalkCloseFails \/ WalkCloses

------------------------------------------------------------------------------
UartThread == UartThreadServes \/ UartThreadReads \/ UartCallback

Next ==
    \/ ControlThread
    \/ ListenerChecks \/ ListenerAccepts \/ ListenerReceives \/ NetworkCallback
    \/ UartThread

Spec == Init /\ [][Next]_vars

\* The threads are scheduled: a step a thread can take by itself is taken.
\* Waiting for a client (accept, recv) and calling start() and stop() are
\* not.  connect, send and the port's calls return, with a result or an error.
FairSpec ==
    /\ Spec
    /\ WF_vars(UartThread)
    /\ WF_vars(ListenerChecks)
    /\ WF_vars(NetworkCallback)

------------------------------------------------------------------------------
(* Safety                                                                  *)

\* Where the locals of the two callbacks hold a client's address.
InUsePeers ==
    /\ lpc \in {"recv"} \cup InNetworkCallback => lPeer \in Client
    /\ upc \in (InReply \cup InWalk) \ {"find", "walk"} => peer \in Client

\* Numbers are reused at once, by three threads, and m_fd is never reset on
\* close.  Every number a thread still uses is open, on what that thread
\* opened it on, and the two users of the serial port hold different ones: no
\* close(), read or write hits another connector's descriptor.  The one
\* exception is m_fd of the network server, which the listener may pass to
\* accept() after the control thread has closed it.  By then nothing in the
\* table listens, whoever has been handed the number: the stale accept()
\* fails, and takes no connection meant for another.
HeldDescriptors ==
    /\ ctl \in {"spawned", "started", "failed", "stopping", "closing"} =>
         nsFd = NoFd \/ OpenOn(nsFd, "server")
    /\ \A fd \in Fd : fdTable[fd] = "server" => fd = nsFd /\ ctl # "stopped"
    /\ lpc \in {"recv"} \cup InNetworkCallback => OpenOn(lSocket, "accepted")
    /\ lpc \in {"writeUart", "closeUart"} => OpenOn(ucFd, "tty")
    /\ upc \in Serving => OpenOn(usFd, "tty")
    /\ upc \in {"retry", "close"} => usFd = NoFd \/ OpenOn(usFd, "tty")
    /\ upc \in {"replyConnect", "replyWrite", "walkConnect", "walkWrite", "walkClose"} =>
         OpenOn(peerFd, "peer")
    /\ lpc \in {"writeUart", "closeUart"} /\ upc \in Serving \cup {"retry", "close"} =>
         ucFd # usFd

\* The client notifyAllClients() is at, until it has been served.
Current == IF upc \in {"walkOpen", "walkConnect", "walkWrite"} THEN {peer} ELSE {}

\* While no client is added under it, the walk of notifyAllClients() splits
\* the map into those served, the one in hand and those to come: a walk that
\* reaches the end has sent the notification to each client, once.
BroadcastExactlyOnce ==
    upc \in InWalk /\ ~raced =>
        /\ notified \cup Current \cup walkTodo = clientMap
        /\ notified \cap Current = {}
        /\ (notified \cup Current) \cap walkTodo = {}

\* What a receive puts on the serial port is the beginning of what one client
\* sent, no longer than what was received of it, and begins with the header
\* of a package: the tail of an older message, which the buffer keeps and
\* which may be what let a short message pass for a package, stays behind.
\* (A failed receive is FailedReceiveNotForwarded's.)
ForwardedIntact ==
    \A w \in wire : w.size # MinusOne =>
        \E data \in NetworkData :
            data.module \in Module /\ w.msg \in Beginnings(data, w.size)

\* Once an accept() has failed no client is met and nothing is forwarded any
\* more, though clients are still accepted.
DeafAfterAcceptFailure ==
    [][lErr => UNCHANGED <<clientMap, wire, nsBuffer>>]_vars

\* A listener ends in a running server for one reason only: it looked at
\* m_running before open() set it.  So one that has ended there has never met
\* a client, and one that has met a client listens until close(), whatever
\* goes wrong with its accept(), recv() and serial port calls.
EarlyExitServesNobody ==
    nsRunning /\ lpc = "exited" => clientMap = {} /\ wire = {}

\* The gateway implements the relay, as far as its receives succeed: what a
\* failed recv() puts on the serial port no client has sent, and the mapping
\* leaves it out (FailedReceiveNotForwarded shows it happens).
Relay == INSTANCE MessageRelay WITH
           known <- clientMap,
           wire  <- {w \in wire : w.size # MinusOne}
ImplementsRelay == Relay!RelaySpec

------------------------------------------------------------------------------
(* Liveness                                                                *)

\* stop() ends the UART thread, wherever it is: retrying to open the port,
\* polling it, or in the middle of a broadcast.
StopEndsUartThread == ctl = "stopping" ~> upc = "exited"

\* Each callback returns to its thread's loop; a broadcast ends although
\* clients may be added, and the map rehashed, under its iterator.
CallbacksReturn ==
    /\ upc = "callback" ~> upc = "check"
    /\ lpc = "callback" ~> lpc = "check"

------------------------------------------------------------------------------
(* What the repository says and the code does not do                       *)

\* NetworkServer.h:42, "Indicates if a server is running": once start() has
\* returned with m_running set, the listener has not ended.
RunningMeansListening == ctl = "started" => lpc # "exited"

\* MainController.h:62, "Notify all client": when notifyAllClients() returns,
\* and the map was left alone meanwhile, no client is left that it never
\* turned to.
NotifyTurnsToAll ==
    [][(upc \in InWalk /\ upc' = "check" /\ ~raced /\ lpc # "insert") => walkTodo = {}]_vars

\* NetworkServer.cpp:142, "Failed to recv message from new Network Client":
\* a failed recv() is reported, and nothing is put on the serial port for it.
FailedReceiveNotForwarded == \A w \in wire : w.size # MinusOne

\* MainController.cpp:151, "Check length of the package": what was received
\* is put on the serial port only if it is as long as a package.
LengthIsChecked == \A w \in wire : w.size # MinusOne => w.size = Whole

==============================================================================
