------------------------ MODULE MainController_proofs ------------------------
(***************************************************************************)
(* Theorems about the gateway, for any sets of clients, addresses,         *)
(* packages and descriptors.                                               *)
(***************************************************************************)
EXTENDS MainController, TLAPS

\* TypeOK is inductive only together with InUsePeers: what is added to the
\* client map and sent to is a local of a callback.
TypeInv == TypeOK /\ InUsePeers

------------------------------------------------------------------------------
(* Operators                                                               *)

\* A receive leaves a buffer behind.
LEMMA OverwriteType ==
    ASSUME NEW b \in Buffer, NEW d \in Buffer, NEW n
    PROVE  Overwrite(b, d, n) \in Buffer
  BY DEF Overwrite, Buffer

\* So is any beginning of one.
LEMMA FirstPartsType ==
    ASSUME NEW d \in Buffer, NEW n
    PROVE  FirstParts(d, n) \in Buffer
  BY OverwriteType DEF FirstParts, NoData, Buffer

LEMMA BeginningsType ==
    ASSUME NEW b \in Buffer, NEW size
    PROVE  Beginnings(b, size) \subseteq Buffer
  BY FirstPartsType DEF Beginnings

\* An open call hands out a number that was free and touches no other.
LEMMA OpensFree ==
    ASSUME fdTable \in FdTable, NEW fd \in Fd, NEW kind \in FdKind, Opens(fd, kind)
    PROVE  /\ fdTable' \in FdTable
           /\ fdTable[fd] = "free"
           /\ fdTable'[fd] = kind
           /\ \A g \in Fd : g # fd => fdTable'[g] = fdTable[g]
  BY DEF FdTable, Opens

\* A close changes no other number.
LEMMA ClosesOnly ==
    ASSUME fdTable \in FdTable, NEW fd, Closes(fd)
    PROVE  /\ fdTable' \in FdTable
           /\ \A g \in Fd : g # fd => fdTable'[g] = fdTable[g]
  BY DEF FdTable, Closes

------------------------------------------------------------------------------
(* Types                                                                   *)

LEMMA TypeInit == Init => TypeInv
<1> SUFFICES ASSUME Init PROVE TypeInv
  OBVIOUS
<1>1. nsRunning \in BOOLEAN /\ lErr \in BOOLEAN /\ usRunning \in BOOLEAN /\ raced \in BOOLEAN
  BY Zenon DEF Init, NsInit, UsInit, NoLocals
<1>2. fdTable \in FdTable
  BY DEF Init, FdTable
<1>3. NoData \in Buffer
  BY DEF NoData, Buffer
<1>4. NsTypeOK
  BY <1>1, <1>3, NetworkAssumption
     DEF Init, NsInit, NsTypeOK, FdValue, ListenerPC, Size, MinusOne
<1>5. UsTypeOK
  BY <1>1, <1>3, UartAssumption
     DEF Init, UsInit, UsTypeOK, FdValue, UartPC, Size, MinusOne
<1>6. InUsePeers
  BY DEF Init, NsInit, UsInit, InUsePeers, InNetworkCallback, InReply, InWalk
<1> QED
  BY <1>1, <1>2, <1>4, <1>5, <1>6
     DEF Init, NoLocals, TypeInv, TypeOK, FdValue, ControlPC

LEMMA TypeControl ==
    ASSUME TypeInv, ControlThread
    PROVE  TypeInv'
<1> USE DEF TypeInv, TypeOK, InUsePeers, NsTypeOK, UsTypeOK, FdValue, ControlPC,
            nsVars, usVars, localVars, histVars
<1>1. CASE StartUart
  BY <1>1 DEF StartUart, UsStartServer, UartPC, InReply, InWalk
<1>2. CASE StartNetworkFails
  <2>1. CASE NsSocketFails
    BY <1>2, <2>1 DEF StartNetworkFails, NsSocketFails
  <2>2. CASE NsBindFails
    <3>1. PICK fd \in Fd : Opens(fd, "server") /\ nsFd' = fd
      BY <2>2 DEF NsBindFails
    <3>2. fdTable' \in FdTable
      BY <3>1, OpensFree DEF FdKind
    <3> QED
      BY <1>2, <2>2, <3>1, <3>2 DEF StartNetworkFails, NsBindFails
  <2> QED
    BY <1>2, <2>1, <2>2 DEF StartNetworkFails
<1>3. CASE StartNetwork
  <2>1. PICK fd \in Fd : Opens(fd, "server") /\ nsFd' = fd
    BY <1>3 DEF StartNetwork, NsListen
  <2>2. fdTable' \in FdTable
    BY <2>1, OpensFree DEF FdKind
  <2> QED
    BY <1>3, <2>1, <2>2 DEF StartNetwork, NsListen, ListenerPC, InNetworkCallback
<1>4. CASE StartReturns
  BY <1>4 DEF StartReturns, NsSetRunning
<1>5. CASE StopUart
  <2>1. usRunning' \in BOOLEAN
    BY <1>5, Zenon DEF StopUart, UsStopServer
  <2> QED
    BY <1>5, <2>1 DEF StopUart, UsStopServer
<1>6. CASE StopNetwork
  <2>1. nsRunning' \in BOOLEAN
    BY <1>6, Zenon DEF StopNetwork, NsClearRunning
  <2> QED
    BY <1>6, <2>1 DEF StopNetwork, NsClearRunning
<1>7. CASE StopReturns
  BY <1>7, ClosesOnly DEF StopReturns, NsCloseSocket
<1> QED
  BY <1>1, <1>2, <1>3, <1>4, <1>5, <1>6, <1>7 DEF ControlThread

LEMMA TypeListener ==
    ASSUME TypeInv, ListenerChecks \/ ListenerAccepts \/ ListenerReceives
    PROVE  TypeInv'
<1> USE DEF TypeInv, TypeOK, InUsePeers, NsTypeOK, ListenerPC, InNetworkCallback,
            usVars, mainVars, localVars, histVars
<1>0. UNCHANGED usVars => (UsTypeOK' <=> UsTypeOK)
  BY DEF UsTypeOK
<1>1. CASE ListenerChecks
  BY <1>0, <1>1 DEF ListenerChecks, LCheck
<1>2. CASE ListenerAccepts
  <2>1. ASSUME NEW c \in Client, LAccepted(c)
        PROVE  TypeInv'
    <3>1. PICK fd \in Fd : Opens(fd, "accepted") /\ lSocket' = (IF lErr THEN FirstFd ELSE fd)
      BY <2>1 DEF LAccepted
    <3>2. fdTable' \in FdTable
      BY <3>1, OpensFree DEF FdKind
    <3>3. accepts' \in 0 .. MaxAccepts
      BY <2>1, NetworkAssumption DEF LAccepted
    <3> QED
      BY <1>0, <1>2, <2>1, <3>1, <3>2, <3>3 DEF ListenerAccepts, LAccepted, FdValue
  <2>0. ASSUME LAcceptBlocks \/ LAcceptStale
        PROVE  TypeInv'
    BY <1>0, <1>2, <2>0 DEF ListenerAccepts, LAcceptBlocks, LAcceptStale
  <2>2. ASSUME LAcceptFails
        PROVE  TypeInv'
    <3>1. accepts' \in 0 .. MaxAccepts
      BY <2>2, NetworkAssumption DEF LAcceptFails
    <3> QED
      BY <1>0, <1>2, <2>2, <3>1 DEF ListenerAccepts, LAcceptFails
  <2> QED
    BY <1>2, <2>0, <2>1, <2>2 DEF ListenerAccepts
<1>3. CASE ListenerReceives
  <2>1. nsBuffer' \in Buffer /\ nsSize' \in Size
    BY <1>3, OverwriteType, NetworkAssumption, CutAssumption
       DEF ListenerReceives, LReceived, LReceiveFails, Size, Whole, MinusOne
  <2>2. received' \subseteq Receipt
    BY <1>3, FirstPartsType, NetworkAssumption, CutAssumption
       DEF ListenerReceives, Receipt, Size, Whole, MinusOne
  <2> QED
    BY <1>0, <1>3, <2>1, <2>2 DEF ListenerReceives, LReceived, LReceiveFails
<1> QED
  BY <1>1, <1>2, <1>3

LEMMA TypeNetworkCallback ==
    ASSUME TypeInv, NetworkCallback
    PROVE  TypeInv'
<1> USE DEF TypeInv, TypeOK, InUsePeers, NsTypeOK, ListenerPC, InNetworkCallback,
            usVars, mainVars, localVars, histVars, LInCallback, LCallbackReturns
<1>0. UNCHANGED usVars => (UsTypeOK' <=> UsTypeOK)
  BY DEF UsTypeOK
<1>00. 0 \in Size /\ FirstFd \in FdValue /\ NoFd \in FdValue
  BY DEF Size, MinusOne, FdValue
<1>1. CASE RegisterKnown
  BY <1>0, <1>00, <1>1 DEF RegisterKnown, AfterRegister
<1>2. CASE RegisterBegins
  BY <1>0, <1>2 DEF RegisterBegins
<1>3. CASE RegisterEnds
  <2>1. clientMap' \subseteq Client
    BY <1>3 DEF RegisterEnds
  <2>2. walkTodo' \subseteq Client /\ raced' \in BOOLEAN
    BY <1>3, <2>1 DEF RegisterEnds
  <2> QED
    BY <1>0, <1>00, <1>3, <2>1, <2>2 DEF RegisterEnds, AfterRegister
<1>4. CASE UartClientOpenFails
  <2>1. fdTable' \in FdTable /\ ucFd' \in FdValue
    BY <1>00, <1>4, OpensFree DEF UartClientOpenFails, FdKind, FdValue
  <2> QED
    BY <1>0, <1>00, <1>4, <2>1 DEF UartClientOpenFails
<1>5. CASE UartClientOpens
  <2>1. fdTable' \in FdTable /\ ucFd' \in FdValue
    BY <1>5, OpensFree DEF UartClientOpens, FdKind, FdValue
  <2> QED
    BY <1>0, <1>5, <2>1 DEF UartClientOpens
<1>6. CASE UartClientWriteFails
  BY <1>0, <1>00, <1>6 DEF UartClientWriteFails
<1>7. CASE UartClientWrites
  <2>1. wire' \subseteq Receipt
    BY <1>7, BeginningsType DEF UartClientWrites, Receipt
  <2> QED
    BY <1>0, <1>7, <2>1 DEF UartClientWrites
<1>8. CASE UartClientCloses
  BY <1>0, <1>00, <1>8, ClosesOnly DEF UartClientCloses
<1> QED
  BY <1>1, <1>2, <1>3, <1>4, <1>5, <1>6, <1>7, <1>8 DEF NetworkCallback

LEMMA TypeUartServer ==
    ASSUME TypeInv, UartThreadServes \/ UartThreadReads
    PROVE  TypeInv'
<1> USE DEF TypeInv, TypeOK, InUsePeers, UsTypeOK, UartPC, Serving, InUartCallback,
            InReply, InWalk, nsVars, mainVars, localVars, histVars
<1>0. UNCHANGED nsVars => (NsTypeOK' <=> NsTypeOK)
  BY DEF NsTypeOK
<1>00. 0 \in Size /\ NoFd \in FdValue
  BY DEF Size, MinusOne, FdValue
<1>1. CASE UartThreadServes
  <2>1. CASE UsOpenFails
    BY <1>0, <1>00, <1>1, <2>1 DEF UartThreadServes, UsOpenFails
  <2>2. CASE UsAttributesFail \/ UsOpened
    <3>1. PICK fd \in Fd : Opens(fd, "tty") /\ usFd' = fd
      BY <2>2 DEF UsAttributesFail, UsOpened
    <3>2. fdTable' \in FdTable /\ usFd' \in FdValue
      BY <3>1, OpensFree DEF FdKind, FdValue
    <3> QED
      BY <1>0, <1>1, <2>2, <3>2 DEF UartThreadServes, UsAttributesFail, UsOpened
  <2>3. CASE UsRetry \/ UsCheck \/ UsReadNothing
    BY <1>0, <1>00, <1>1, <2>3 DEF UartThreadServes, UsRetry, UsCheck, UsReadNothing
   <2>5. CASE UsClose
    BY <1>0, <1>1, <2>5, ClosesOnly DEF UartThreadServes, UsClose
  <2> QED
    BY <1>1, <2>1, <2>2, <2>3, <2>5 DEF UartThreadServes
<1>2. CASE UartThreadReads
  <2>1. /\ usBuffer' \in Buffer
        /\ usSize' \in Size
        /\ reads' \in 0 .. MaxReads
    BY <1>2, OverwriteType, UartAssumption, CutAssumption
       DEF UartThreadReads, UsRead, UsReadFull, Size, Whole, MinusOne
  <2>2. heard' \subseteq Receipt
    BY <1>2, FirstPartsType, UartAssumption, CutAssumption
       DEF UartThreadReads, Receipt, Size, Whole, MinusOne
  <2> QED
    BY <1>0, <1>2, <2>1, <2>2 DEF UartThreadReads, UsRead, UsReadFull
<1> QED
  BY <1>1, <1>2

\* What a send to a peer in use records.
LEMMA SendsToType ==
    ASSUME TypeInv, NEW by \in {"reply", "notify"}, NEW parts \in Buffer,
           peer \in Client, SendsTo(by, parts)
    PROVE  delivered' \subseteq Delivery
  BY DEF TypeInv, TypeOK, SendsTo, Delivery

\* What the iterator sees is clients.
LEMMA SeenType ==
    ASSUME TypeInv, NEW s \in SUBSET Client, NEW t \in Seen(s)
    PROVE  t \subseteq Client
  BY DEF TypeInv, TypeOK, Seen

LEMMA TypeUartCallback ==
    ASSUME TypeInv, UartCallback
    PROVE  TypeInv'
<1> USE DEF TypeInv, TypeOK, InUsePeers, UsTypeOK, UartPC, Serving, InUartCallback,
            InReply, InWalk, nsVars, mainVars, localVars, histVars, UsInCallback
<1>0. UNCHANGED nsVars => (NsTypeOK' <=> NsTypeOK)
  BY DEF NsTypeOK
<1>00. FirstFd \in FdValue
  BY DEF FdValue
<1>000. UartCallbackReturns => raced' \in BOOLEAN
  BY Zenon DEF UartCallbackReturns
<1>1. CASE DispatchIgnores \/ FindFails \/ ReplyOpenFails \/ WalkEnds \/ WalkOpenFails
  BY <1>0, <1>00, <1>000, <1>1 DEF DispatchIgnores, FindFails, ReplyOpenFails, WalkEnds,
     WalkOpenFails, UartCallbackReturns
<1>2. CASE DispatchReply
  BY <1>0, <1>2 DEF DispatchReply
<1>3. CASE DispatchNotify
  <2>1. raced' \in BOOLEAN
    BY <1>3 DEF DispatchNotify
  <2>2. walkTodo' \subseteq Client
    BY <1>3, SeenType DEF DispatchNotify
  <2> QED
    BY <1>0, <1>3, <2>1, <2>2 DEF DispatchNotify
<1>4. CASE FindSucceeds
  BY <1>0, <1>4 DEF FindSucceeds
<1>50. CASE ReplyConnects \/ WalkConnects
  BY <1>0, <1>50 DEF ReplyConnects, WalkConnects
<1>51. CASE ReplyConnectFails \/ WalkConnectFails \/ WalkCloseFails
  BY <1>0, <1>00, <1>000, <1>51, ClosesOnly
     DEF ReplyConnectFails, WalkConnectFails, WalkCloseFails, UartCallbackReturns
<1>5. CASE ReplyOpens \/ WalkOpens
  <2>1. fdTable' \in FdTable /\ peerFd' \in FdValue
    BY <1>5, OpensFree DEF ReplyOpens, WalkOpens, PeerOpens, FdKind, FdValue
  <2> QED
    BY <1>0, <1>5, <2>1 DEF ReplyOpens, WalkOpens, PeerOpens
<1>6. CASE ReplyWrites
  <2>1. delivered' \subseteq Delivery
    BY <1>6, SendsToType, BeginningsType DEF ReplyWrites
  <2> QED
    BY <1>0, <1>00, <1>000, <1>6, <2>1 DEF ReplyWrites, UartCallbackReturns
<1>7. CASE \E c \in Client : WalkReaches(c)
  <2>1. PICK c \in Client : WalkReaches(c)
    BY <1>7
  <2>2. walkTodo' \subseteq Client
    BY <2>1, SeenType DEF WalkReaches
  <2>3. raced' \in BOOLEAN
    BY <2>1 DEF WalkReaches
  <2> QED
    BY <1>0, <2>1, <2>2, <2>3 DEF WalkReaches
<1>8. CASE WalkWriteFails
  <2>1. delivered' \subseteq Delivery
    BY <1>8, SendsToType, BeginningsType DEF WalkWriteFails
  <2> QED
    BY <1>0, <1>00, <1>000, <1>8, <2>1 DEF WalkWriteFails, UartCallbackReturns
<1>9. CASE WalkWrites
  <2>1. delivered' \subseteq Delivery
    BY <1>9, SendsToType, FirstPartsType DEF WalkWrites
  <2> QED
    BY <1>0, <1>9, <2>1 DEF WalkWrites
<1>10. CASE WalkCloses
  BY <1>0, <1>10, ClosesOnly DEF WalkCloses
<1> QED
  BY <1>1, <1>2, <1>3, <1>4, <1>50, <1>51, <1>5, <1>6, <1>7, <1>8, <1>9, <1>10
     DEF UartCallback

LEMMA TypeNext == TypeInv /\ [Next]_vars => TypeInv'
<1> SUFFICES ASSUME TypeInv, [Next]_vars PROVE TypeInv'
  OBVIOUS
<1>1. CASE Next
  BY <1>1, TypeControl, TypeListener, TypeNetworkCallback, TypeUartServer, TypeUartCallback
     DEF Next, UartThread
<1>2. CASE UNCHANGED vars
  BY <1>2 DEF vars, nsVars, usVars, mainVars, localVars, histVars, TypeInv, TypeOK,
     InUsePeers, NsTypeOK, UsTypeOK
<1> QED
  BY <1>1, <1>2

LEMMA TypeInvariant == Spec => []TypeInv
  BY TypeInit, TypeNext, PTL DEF Spec

\* Every variable keeps its type: only addresses of clients that connected
\* enter the client map and are sent to, through any interleaving of the
\* three threads (MainController.cpp:90-182, 309-318).
THEOREM TypeCorrect == Spec => []TypeOK
  BY TypeInvariant, PTL DEF TypeInv

------------------------------------------------------------------------------
(* Descriptors.  HeldDescriptors says, for each thread, what its numbers   *)
(* are open on; a step of one thread keeps the numbers of the others       *)
(* because an open call hands out a number that was free, and a close      *)
(* releases one whose kind, or (for the port) whose number, differs.       *)

LEMMA NoFdIsNoNumber == NoFd \notin Fd
  BY FdAssumption DEF NoFd

\* Nothing listens before start() has bound its socket.
NothingListens ==
    ctl \in {"new", "opening"} => \A fd \in Fd : fdTable[fd] # "server"

HeldInv == HeldDescriptors /\ NothingListens

LEMMA HeldInit == Init => HeldInv
  BY DEF HeldInv, NothingListens, Init, NsInit, UsInit, HeldDescriptors, InNetworkCallback, Serving,
     InUartCallback, InReply, InWalk

LEMMA HeldControl ==
    ASSUME TypeInv, HeldInv, ControlThread
    PROVE  HeldInv'
<1> USE DEF HeldInv, NothingListens, HeldDescriptors, OpenOn, InNetworkCallback, Serving, InUartCallback,
            InReply, InWalk, nsVars, usVars, localVars, histVars
<1>0. fdTable \in FdTable
  BY DEF TypeInv, TypeOK
<1>1. CASE StartUart
  BY <1>1 DEF StartUart, UsStartServer
<1>2. CASE StartNetworkFails /\ NsSocketFails
  BY <1>2 DEF StartNetworkFails, NsSocketFails
<1>3. CASE StartNetworkFails /\ NsBindFails
  <2>1. PICK fd \in Fd : Opens(fd, "server") /\ nsFd' = fd
    BY <1>3 DEF NsBindFails
  <2> QED
    BY <1>0, <1>3, <2>1, OpensFree DEF StartNetworkFails, NsBindFails, FdKind
<1>4. CASE StartNetwork
  <2>1. PICK fd \in Fd : Opens(fd, "server") /\ nsFd' = fd
    BY <1>4 DEF StartNetwork, NsListen
  <2> QED
    BY <1>0, <1>4, <2>1, OpensFree DEF StartNetwork, NsListen, FdKind
<1>5. CASE StartReturns
  BY <1>5 DEF StartReturns, NsSetRunning
<1>6. CASE StopUart
  BY <1>6 DEF StopUart, UsStopServer
<1>7. CASE StopNetwork
  BY <1>7 DEF StopNetwork, NsClearRunning
<1>8. CASE StopReturns
  <2>1. nsFd \in Fd => fdTable'[nsFd] = "free"
    BY <1>8 DEF StopReturns, NsCloseSocket, Closes
  <2> QED
    BY <1>0, <1>8, <2>1, ClosesOnly, NoFdIsNoNumber DEF StopReturns, NsCloseSocket
<1> QED
  BY <1>1, <1>2, <1>3, <1>4, <1>5, <1>6, <1>7, <1>8 DEF ControlThread, StartNetworkFails

LEMMA HeldListener ==
    ASSUME TypeInv, HeldInv, ListenerChecks \/ ListenerAccepts \/ ListenerReceives
    PROVE  HeldInv'
<1> USE DEF HeldInv, NothingListens, HeldDescriptors, OpenOn, InNetworkCallback, Serving, InUartCallback,
            InReply, InWalk, usVars, mainVars, localVars, histVars
<1>0. fdTable \in FdTable
  BY DEF TypeInv, TypeOK
<1>1. CASE ListenerChecks
  BY <1>1 DEF ListenerChecks, LCheck
<1>2. CASE ListenerAccepts /\ \E c \in Client : LAccepted(c)
  <2>1. PICK c \in Client : LAccepted(c)
    BY <1>2
  <2>2. PICK fd \in Fd : Opens(fd, "accepted") /\ lSocket' = (IF lErr THEN FirstFd ELSE fd)
    BY <2>1 DEF LAccepted
  <2> QED
    BY <1>0, <1>2, <2>1, <2>2, OpensFree DEF ListenerAccepts, LAccepted, FdKind
<1>3. CASE ListenerAccepts /\ (LAcceptBlocks \/ LAcceptStale \/ LAcceptFails)
  BY <1>3 DEF ListenerAccepts, LAcceptBlocks, LAcceptStale, LAcceptFails
<1>4. CASE ListenerReceives
  BY <1>4 DEF ListenerReceives, LReceived, LReceiveFails
<1> QED
  BY <1>1, <1>2, <1>3, <1>4 DEF ListenerAccepts

LEMMA HeldNetworkCallback ==
    ASSUME TypeInv, HeldInv, NetworkCallback
    PROVE  HeldInv'
<1> USE DEF HeldInv, NothingListens, HeldDescriptors, OpenOn, InNetworkCallback, Serving, InUartCallback,
            InReply, InWalk, usVars, mainVars, localVars, histVars, LInCallback,
            LCallbackReturns
<1>0. fdTable \in FdTable
  BY DEF TypeInv, TypeOK
<1>1. CASE RegisterKnown \/ RegisterBegins \/ RegisterEnds
  BY <1>1 DEF RegisterKnown, RegisterBegins, RegisterEnds, AfterRegister
<1>2. CASE UartClientOpenFails
  BY <1>0, <1>2, OpensFree DEF UartClientOpenFails, FdKind
<1>3. CASE UartClientOpens
  <2>1. PICK fd \in Fd : Opens(fd, "tty") /\ ucFd' = fd
    BY <1>3 DEF UartClientOpens
  <2> QED
    BY <1>0, <1>3, <2>1, OpensFree, NoFdIsNoNumber DEF UartClientOpens, FdKind
<1>4. CASE UartClientWriteFails \/ UartClientWrites
  BY <1>4 DEF UartClientWriteFails, UartClientWrites
<1>5. CASE UartClientCloses
  <2>1. ucFd \in Fd => fdTable'[ucFd] = "free"
    BY <1>5 DEF UartClientCloses, Closes
  <2> QED
    BY <1>0, <1>5, <2>1, ClosesOnly DEF UartClientCloses
<1> QED
  BY <1>1, <1>2, <1>3, <1>4, <1>5 DEF NetworkCallback

LEMMA HeldUartServer ==
    ASSUME TypeInv, HeldInv, UartThreadServes \/ UartThreadReads
    PROVE  HeldInv'
<1> USE DEF HeldInv, NothingListens, HeldDescriptors, OpenOn, InNetworkCallback, Serving, InUartCallback,
            InReply, InWalk, nsVars, mainVars, localVars, histVars
<1>0. fdTable \in FdTable
  BY DEF TypeInv, TypeOK
<1>1. CASE UartThreadServes /\ UsOpenFails
  BY <1>1, NoFdIsNoNumber DEF UartThreadServes, UsOpenFails
<1>2. CASE UartThreadServes /\ (UsAttributesFail \/ UsOpened)
  <2>1. PICK fd \in Fd : Opens(fd, "tty") /\ usFd' = fd
    BY <1>2 DEF UsAttributesFail, UsOpened
  <2> QED
    BY <1>0, <1>2, <2>1, OpensFree DEF UartThreadServes, UsAttributesFail, UsOpened, FdKind
<1>3. CASE UartThreadServes /\ (UsRetry \/ UsCheck \/ UsReadNothing)
  BY <1>3 DEF UartThreadServes, UsRetry, UsCheck, UsReadNothing
<1>4. CASE UartThreadServes /\ UsClose
  <2>1. usFd \in Fd => fdTable'[usFd] = "free"
    BY <1>4 DEF UsClose, Closes
  <2> QED
    BY <1>0, <1>4, <2>1, ClosesOnly, NoFdIsNoNumber DEF UartThreadServes, UsClose
<1>5. CASE UartThreadReads
  BY <1>5 DEF UartThreadReads, UsRead, UsReadFull
<1> QED
  BY <1>1, <1>2, <1>3, <1>4, <1>5 DEF UartThreadServes

LEMMA HeldUartCallback ==
    ASSUME TypeInv, HeldInv, UartCallback
    PROVE  HeldInv'
<1> USE DEF HeldInv, NothingListens, HeldDescriptors, OpenOn, InNetworkCallback, Serving, InUartCallback,
            InReply, InWalk, nsVars, mainVars, localVars, histVars, UsInCallback
<1>0. fdTable \in FdTable
  BY DEF TypeInv, TypeOK
<1>1. CASE DispatchIgnores \/ FindFails \/ ReplyOpenFails \/ ReplyWrites \/ WalkEnds
           \/ WalkOpenFails \/ WalkWriteFails
  BY <1>1 DEF DispatchIgnores, FindFails, ReplyOpenFails, ReplyWrites, WalkEnds,
     WalkOpenFails, WalkWriteFails, UartCallbackReturns
<1>2. CASE DispatchReply \/ DispatchNotify \/ FindSucceeds \/ ReplyConnects
           \/ WalkConnects \/ WalkWrites
  BY <1>2 DEF DispatchReply, DispatchNotify, FindSucceeds, ReplyConnects, WalkConnects,
     WalkWrites
<1>3. CASE \E c \in Client : WalkReaches(c)
  BY <1>3 DEF WalkReaches
<1>4. CASE ReplyOpens \/ WalkOpens
  <2>1. PICK fd \in Fd : Opens(fd, "peer") /\ peerFd' = fd
    BY <1>4 DEF ReplyOpens, WalkOpens, PeerOpens
  <2> QED
    BY <1>0, <1>4, <2>1, OpensFree DEF ReplyOpens, WalkOpens, PeerOpens, FdKind
<1>5. CASE ReplyConnectFails \/ WalkConnectFails \/ WalkCloseFails \/ WalkCloses
  <2>1. Closes(peerFd) /\ OpenOn(peerFd, "peer")
    BY <1>5 DEF ReplyConnectFails, WalkConnectFails, WalkCloseFails, WalkCloses
  <2>2. fdTable'[peerFd] = "free" /\ \A g \in Fd : g # peerFd => fdTable'[g] = fdTable[g]
    BY <1>0, <2>1, ClosesOnly DEF Closes
  <2> QED
    BY <1>5, <2>1, <2>2
       DEF ReplyConnectFails, WalkConnectFails, WalkCloseFails, WalkCloses,
           UartCallbackReturns
<1> QED
  BY <1>1, <1>2, <1>3, <1>4, <1>5 DEF UartCallback

LEMMA HeldNext == TypeInv /\ HeldInv /\ [Next]_vars => HeldInv'
<1> SUFFICES ASSUME TypeInv, HeldInv, [Next]_vars PROVE HeldInv'
  OBVIOUS
<1>1. CASE Next
  BY <1>1, HeldControl, HeldListener, HeldNetworkCallback, HeldUartServer, HeldUartCallback
     DEF Next, UartThread
<1>2. CASE UNCHANGED vars
  BY <1>2 DEF vars, nsVars, usVars, mainVars, localVars, histVars, HeldInv, NothingListens,
     HeldDescriptors, OpenOn
<1> QED
  BY <1>1, <1>2

\* No connector ever reads, writes or closes a descriptor that is not its own,
\* though numbers are reused across three threads without a lock and every
\* m_fd keeps its value after close(); and an accept() on the number close()
\* has given back meets no listening socket (AbstractConnector.cpp:29-39,
\* UartClient.cpp:35-71, NetworkServer.cpp:39-89, 128, NetworkClient.cpp:57-78).
THEOREM DescriptorsHeld == Spec => []HeldDescriptors
  BY HeldInit, HeldNext, TypeInvariant, PTL DEF Spec, HeldInv

==============================================================================
