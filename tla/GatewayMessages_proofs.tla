----------------------- MODULE GatewayMessages_proofs -----------------------
(***************************************************************************)
(* Theorems about what the gateway does with messages: when it stops       *)
(* serving clients, what it forwards, whom it answers, and that it         *)
(* implements the relay.                                                   *)
(***************************************************************************)
EXTENDS MainController_proofs

------------------------------------------------------------------------------
(* What a thread leaves alone                                              *)

\* start() and stop() touch no message, no client and no callback.
LEMMA ControlFrame ==
    ASSUME ControlThread
    PROVE  /\ UNCHANGED <<lErr, lSocket, lPeer, nsBuffer, nsSize, clientMap>>
           /\ UNCHANGED <<usBuffer, usSize, localVars, histVars>>
           /\ lpc' = lpc \/ lpc' = "check"
           /\ upc' = upc \/ upc' = "open"
  BY DEF ControlThread, StartUart, StartNetworkFails, StartNetwork, StartReturns,
     StopUart, StopNetwork, StopReturns, NsSocketFails, NsBindFails, NsListen,
     NsSetRunning, NsClearRunning, NsCloseSocket, UsStartServer, UsStopServer,
     nsVars, usVars, localVars, histVars

\* The listener's loop touches neither the client map nor the UART thread.
LEMMA ListenerFrame ==
    ASSUME ListenerChecks \/ ListenerAccepts \/ ListenerReceives
    PROVE  UNCHANGED <<usVars, mainVars, localVars, heard, wire, delivered>>
  BY DEF ListenerChecks, ListenerAccepts, ListenerReceives, histVars

\* networkCallback() leaves the UART thread where it is, and its buffer too.
LEMMA NetworkCallbackFrame ==
    ASSUME NetworkCallback
    PROVE  /\ UNCHANGED <<lErr, lPeer, nsBuffer, usVars, peer, received, heard, delivered>>
           /\ UNCHANGED <<notified>>
  BY DEF NetworkCallback, RegisterKnown, RegisterBegins, RegisterEnds, AfterRegister,
     UartClientOpenFails, UartClientOpens, UartClientWriteFails, UartClientWrites,
     UartClientCloses, LInCallback, LCallbackReturns, localVars, histVars

\* The UART thread touches neither the listener nor the client map, and
\* writes nothing to the serial port.
LEMMA UartFrame ==
    ASSUME UartThread
    PROVE  UNCHANGED <<nsVars, mainVars, received, wire>>
  BY DEF UartThread, UartThreadServes, UartThreadReads, UartCallback,
     DispatchIgnores, DispatchReply, DispatchNotify, FindFails, FindSucceeds,
     ReplyOpenFails, ReplyOpens, ReplyConnectFails, ReplyConnects, ReplyWrites, WalkEnds,
     WalkReaches, WalkOpenFails, WalkOpens, WalkConnectFails, WalkConnects, WalkWriteFails,
     WalkWrites, WalkCloseFails, WalkCloses, PeerOpens, histVars

------------------------------------------------------------------------------
(* A failed accept()                                                       *)

\* The listener never enters recv() or the callback with err set.
ErrKeepsOut == lErr => lpc \notin {"recv"} \cup InNetworkCallback

LEMMA ErrNext == ErrKeepsOut /\ [Next]_vars => ErrKeepsOut'
<1> SUFFICES ASSUME ErrKeepsOut, [Next]_vars PROVE ErrKeepsOut'
  OBVIOUS
<1> USE DEF ErrKeepsOut, InNetworkCallback, nsVars, usVars, mainVars, localVars, histVars
<1>1. CASE ControlThread
  BY <1>1, ControlFrame
<1>2. CASE ListenerChecks \/ ListenerAccepts \/ ListenerReceives
  BY <1>2 DEF ListenerChecks, ListenerAccepts, ListenerReceives, LCheck, LAcceptBlocks,
     LAcceptStale, LAccepted, LAcceptFails, LReceived, LReceiveFails
<1>3. CASE NetworkCallback
  BY <1>3 DEF NetworkCallback, RegisterKnown, RegisterBegins, RegisterEnds, AfterRegister,
     UartClientOpenFails, UartClientOpens, UartClientWriteFails, UartClientWrites,
     UartClientCloses, LInCallback, LCallbackReturns
<1>4. CASE UartThread
  BY <1>4, UartFrame
<1>5. CASE UNCHANGED vars
  BY <1>5 DEF vars
<1> QED
  BY <1>1, <1>2, <1>3, <1>4, <1>5 DEF Next

\* After one failed accept() the gateway is deaf for good: err is set outside
\* the loop's body and never reset (NetworkServer.cpp:120-149).
THEOREM DeafForGood == Spec => DeafAfterAcceptFailure
<1>1. Init => ErrKeepsOut
  BY DEF Init, NsInit, ErrKeepsOut, InNetworkCallback
<1>2. ErrKeepsOut /\ [Next]_vars => [lErr => UNCHANGED <<clientMap, wire, nsBuffer>>]_vars
  <2> SUFFICES ASSUME ErrKeepsOut, Next, lErr
               PROVE  UNCHANGED <<clientMap, wire, nsBuffer>>
    OBVIOUS
  <2> USE DEF nsVars, usVars, mainVars, localVars, histVars
  <2>1. CASE ControlThread
    BY <2>1, ControlFrame
  <2>2. CASE ListenerChecks \/ ListenerAccepts
    BY <2>2 DEF ListenerChecks, ListenerAccepts, LCheck, LAcceptBlocks, LAcceptStale,
       LAccepted, LAcceptFails
  <2>3. CASE ListenerReceives \/ NetworkCallback
    BY <2>3 DEF ErrKeepsOut, InNetworkCallback, ListenerReceives, LReceived, LReceiveFails,
       NetworkCallback, RegisterKnown, RegisterBegins, RegisterEnds,
       UartClientOpenFails, UartClientOpens, UartClientWriteFails, UartClientWrites,
       UartClientCloses
  <2>4. CASE UartThread
    BY <2>4, UartFrame
  <2> QED
    BY <2>1, <2>2, <2>3, <2>4 DEF Next
<1> QED
  BY <1>1, <1>2, ErrNext, PTL DEF Spec, DeafAfterAcceptFailure

------------------------------------------------------------------------------
(* A listener that ended too early                                         *)

\* Until open() has set m_running the listener has got no further than its
\* first look at it, so nobody has been met and nothing forwarded.
StillWaiting ==
    ctl \in {"new", "opening", "spawned", "failed"} =>
        /\ ~nsRunning
        /\ lpc \in {"absent", "check", "exited"}
        /\ clientMap = {} /\ wire = {}

EarlyInv == StillWaiting /\ EarlyExitServesNobody

LEMMA EarlyNext == EarlyInv /\ [Next]_vars => EarlyInv'
<1> SUFFICES ASSUME EarlyInv, [Next]_vars PROVE EarlyInv'
  OBVIOUS
<1> USE DEF EarlyInv, StillWaiting, EarlyExitServesNobody
<1>1. CASE ControlThread
  BY <1>1 DEF ControlThread, StartUart, StartNetworkFails, StartNetwork, StartReturns,
     StopUart, StopNetwork, StopReturns, NsSocketFails, NsBindFails, NsListen,
     NsSetRunning, NsClearRunning, NsCloseSocket, nsVars, histVars
<1>2. CASE ListenerChecks \/ ListenerAccepts \/ ListenerReceives
  <2>1. nsRunning' = nsRunning /\ (lpc' # "exited" \/ ~nsRunning)
    BY <1>2 DEF ListenerChecks, ListenerAccepts, ListenerReceives, LCheck, LAcceptBlocks,
       LAcceptStale, LAccepted, LAcceptFails, LReceived, LReceiveFails
  <2>2. \/ lpc = "check" /\ lpc' = (IF nsRunning THEN "accept" ELSE "exited")
        \/ lpc \in {"accept", "blocked", "recv"}
    BY <1>2 DEF ListenerChecks, ListenerAccepts, ListenerReceives, LCheck, LAcceptBlocks,
       LAcceptStale, LAccepted, LAcceptFails, LReceived, LReceiveFails
  <2>3. UNCHANGED <<ctl, clientMap, wire>>
    BY <1>2, ListenerFrame DEF mainVars
  <2> QED
    BY <2>1, <2>2, <2>3
<1>3. CASE NetworkCallback
  <2>1. lpc \in InNetworkCallback /\ lpc' \in {"check"} \cup InNetworkCallback
    BY <1>3 DEF InNetworkCallback, NetworkCallback, RegisterKnown, RegisterBegins,
       RegisterEnds, AfterRegister, UartClientOpenFails, UartClientOpens,
       UartClientWriteFails, UartClientWrites, UartClientCloses, LInCallback,
       LCallbackReturns
  <2>2. ctl' = ctl
    BY <1>3 DEF NetworkCallback, RegisterKnown, RegisterBegins, RegisterEnds,
       UartClientOpenFails, UartClientOpens, UartClientWriteFails, UartClientWrites,
       UartClientCloses, mainVars
  <2> QED
    BY <2>1, <2>2 DEF InNetworkCallback
<1>4. CASE UartThread
  BY <1>4, UartFrame DEF nsVars, mainVars
<1>5. CASE UNCHANGED vars
  BY <1>5 DEF vars, nsVars, mainVars, histVars
<1> QED
  BY <1>1, <1>2, <1>3, <1>4, <1>5 DEF Next

\* The listener thread tests m_running before open() sets it, or not: in the
\* first case open() has reported success and nobody will ever be served, in
\* the second no failure ends the thread before close() (NetworkServer.cpp:
\* 66-73, 115-152).
THEOREM EndedListenerMetNobody == Spec => []EarlyExitServesNobody
<1>1. Init => EarlyInv
  BY DEF Init, NsInit, EarlyInv, StillWaiting, EarlyExitServesNobody
<1>2. EarlyInv => EarlyExitServesNobody
  BY DEF EarlyInv
<1> QED
  BY <1>1, <1>2, EarlyNext, PTL DEF Spec

------------------------------------------------------------------------------
(* What is forwarded                                                       *)

\* A buffer begins with what was received into it, whatever it held before.
LEMMA BeginningsOfReceive ==
    ASSUME NEW b \in Buffer, NEW d \in Buffer, NEW n \in Size
    PROVE  Beginnings(Overwrite(b, d, n), n) = Beginnings(d, n)
<1>1. \A k \in 1 .. Whole : k <= n => FirstParts(Overwrite(b, d, n), k) = FirstParts(d, k)
  BY DEF FirstParts, Overwrite, Whole, Size, MinusOne
<1> QED
  BY <1>1 DEF Beginnings

\* In particular what the receive alone would have left.
LEMMA BeginningsOfFirstParts ==
    ASSUME NEW d \in Buffer, NEW n \in Size
    PROVE  Beginnings(FirstParts(d, n), n) = Beginnings(d, n)
  BY BeginningsOfReceive DEF FirstParts, NoData, Buffer

\* A buffer has its header, and its address, from the last receive that
\* reached so far.
LEMMA OverwriteParts ==
    ASSUME NEW b, NEW d, NEW n \in Int
    PROVE  /\ n >= 1 => Overwrite(b, d, n).module = d.module
           /\ Overwrite(b, d, n).ip = (IF n >= 2 THEN d.ip ELSE b.ip)
  BY DEF Overwrite

\* The message in the callback's hands, unless recv() failed.
InForward ==
    /\ lpc \in InNetworkCallback /\ nsSize # MinusOne =>
         \E data \in NetworkData :
            /\ [msg |-> FirstParts(data, nsSize), size |-> nsSize] \in received
            /\ Beginnings(nsBuffer, nsSize) = Beginnings(data, nsSize)
            /\ nsSize >= 1 => nsBuffer.module = data.module
    /\ lpc \in {"openUart", "writeUart", "closeUart"} => nsBuffer \in Package

LEMMA ForwardNext ==
    ASSUME TypeInv, InForward, ForwardedIntact, [Next]_vars
    PROVE  InForward' /\ ForwardedIntact'
<1> USE DEF InForward, ForwardedIntact, InNetworkCallback
<1>1. CASE ControlThread
  BY <1>1, ControlFrame DEF histVars
<1>2. CASE ListenerChecks \/ ListenerAccepts
  BY <1>2, ListenerFrame DEF ListenerChecks, ListenerAccepts, LCheck, LAcceptBlocks,
     LAcceptStale, LAccepted, LAcceptFails, histVars
<1>3. CASE ListenerReceives
  <2>1. CASE LReceiveFails
    BY <1>3, <2>1, ListenerFrame
       DEF ListenerReceives, LReceiveFails, MinusOne
  <2>2. ASSUME NEW data \in NetworkData, NEW n \in Cut, LReceived(data, n),
               received' = received \cup {[msg |-> FirstParts(data, n), size |-> n]}
        PROVE  InForward' /\ ForwardedIntact'
    <3>1. n \in Size /\ n \in Int /\ nsBuffer \in Buffer /\ data \in Buffer
      BY CutAssumption, NetworkAssumption
         DEF TypeInv, TypeOK, NsTypeOK, Size, Whole, MinusOne
    <3>2. Beginnings(nsBuffer', n) = Beginnings(data, n)
      BY <2>2, <3>1, BeginningsOfReceive DEF LReceived
    <3>3. n >= 1 => nsBuffer'.module = data.module
      BY <2>2, <3>1, OverwriteParts DEF LReceived
    <3>4. nsSize' = n /\ lpc' = "callback" /\ wire' = wire
      BY <1>3, <2>2, ListenerFrame DEF LReceived
    <3> QED
      BY <2>2, <3>2, <3>3, <3>4
  <2> QED
    BY <1>3, <2>1, <2>2 DEF ListenerReceives
<1>4. CASE RegisterKnown \/ RegisterBegins \/ RegisterEnds
  BY <1>4 DEF RegisterKnown, RegisterBegins, RegisterEnds, AfterRegister, LoadsPackage,
     LInCallback, LCallbackReturns, histVars
<1>5. CASE UartClientOpenFails \/ UartClientOpens \/ UartClientWriteFails \/ UartClientCloses
  BY <1>5 DEF UartClientOpenFails, UartClientOpens, UartClientWriteFails, UartClientCloses,
     LInCallback, LCallbackReturns, histVars
<1>6. CASE UartClientWrites
  <2>1. InForward'
    BY <1>6 DEF UartClientWrites, LInCallback
  <2>2. ASSUME NEW p \in Beginnings(nsBuffer, nsSize), nsSize # MinusOne
        PROVE  \E data \in NetworkData : data.module \in Module /\ p \in Beginnings(data, nsSize)
    <3>1. nsSize >= 1 /\ nsBuffer \in Package
      BY <1>6, <2>2 DEF UartClientWrites, Beginnings, TypeInv, TypeOK, NsTypeOK, Size
    <3> QED
      BY <1>6, <2>2, <3>1 DEF UartClientWrites, Package
  <2> QED
    BY <1>6, <2>1, <2>2 DEF UartClientWrites
<1>7. CASE UartThread
  BY <1>7, UartFrame DEF nsVars
<1>8. CASE UNCHANGED vars
  BY <1>8 DEF vars, nsVars, histVars
<1> QED
  BY <1>1, <1>2, <1>3, <1>4, <1>5, <1>6, <1>7, <1>8 DEF Next, NetworkCallback

LEMMA ForwardInvariant == Spec => [](InForward /\ ForwardedIntact)
<1>1. Init => InForward /\ ForwardedIntact
  BY DEF Init, NsInit, InForward, ForwardedIntact, InNetworkCallback
<1>2. TypeInv /\ (InForward /\ ForwardedIntact) /\ [Next]_vars
        => (InForward /\ ForwardedIntact)'
  BY ForwardNext
<1> QED
  BY <1>1, <1>2, TypeInvariant, PTL DEF Spec

\* Each write to the serial port is the beginning of one client's message,
\* with that message's own header and no more than was received of it,
\* though the buffer it is written from, and was parsed from, mixes messages
\* (MainController.cpp:143-182, 217-237, NetworkServer.cpp:138-147).
THEOREM PackagesForwarded == Spec => []ForwardedIntact
  BY ForwardInvariant, PTL

------------------------------------------------------------------------------
(* What is answered                                                        *)

\* The address in the buffer was in a message that has been read.
NamedBefore ==
    usBuffer.ip \in Address => \E g \in heard : g.size >= 2 /\ g.msg.ip = usBuffer.ip

\* The message and the client in uartCallback()'s hands.
InAnswer ==
    /\ upc \in InUartCallback =>
         \E data \in UartData :
            /\ [msg |-> FirstParts(data, usSize), size |-> usSize] \in heard
            /\ Beginnings(usBuffer, usSize) = Beginnings(data, usSize)
            /\ usSize >= 1
            /\ usBuffer.module = data.module
            /\ usSize >= 2 => usBuffer.ip = data.ip
    /\ upc \in InReply => usBuffer.module \in {"get", "getAll"}
    /\ upc \in InReply \ {"find"} => peer = usBuffer.ip /\ peer \in clientMap
    /\ upc \in InWalk => usBuffer.module = "notifyAll" /\ walkTodo \subseteq clientMap
    /\ upc \in InWalk \ {"walk"} => peer \in clientMap

AnswerInv == NamedBefore /\ InAnswer

LEMMA AnswerReads ==
    ASSUME TypeInv, AnswerInv, UartThreadReads
    PROVE  AnswerInv'
<1> USE DEF AnswerInv, NamedBefore, InAnswer, InUartCallback, InReply, InWalk
<1>0. usBuffer \in Buffer /\ UartData \subseteq Buffer /\ Cut \subseteq Size /\ Whole \in Size
  BY UartAssumption, CutAssumption DEF TypeInv, TypeOK, UsTypeOK, Size, Whole, MinusOne
<1>1. ASSUME NEW data \in UartData, UsReadFull(data),
             heard' = heard \cup {[msg |-> data, size |-> Whole]}
      PROVE  AnswerInv'
  <2> DEFINE g == [msg |-> data, size |-> Whole]
  <2>1. g \in heard' /\ g.size >= 2 /\ g.msg.ip = data.ip
    BY <1>1 DEF Whole
  <2>2. usBuffer' = data /\ upc' = "check"
    BY <1>1 DEF UsReadFull
  <2>3. NamedBefore'
    BY <2>1, <2>2
  <2> QED
    BY <2>2, <2>3
<1>2. ASSUME NEW data \in UartData, NEW n \in Cut \ {0}, UsRead(data, n),
             heard' = heard \cup {[msg |-> FirstParts(data, n), size |-> n]}
      PROVE  AnswerInv'
  <2>1. n \in Size /\ n \in Int /\ n >= 1
    BY <1>0 DEF Size, MinusOne
  <2>2. /\ usBuffer' = Overwrite(usBuffer, data, n)
        /\ usSize' = n /\ upc' = "callback"
    BY <1>2 DEF UsRead
  <2>3. Beginnings(usBuffer', n) = Beginnings(data, n)
    BY <1>0, <2>1, <2>2, BeginningsOfReceive
  <2>4. /\ usBuffer'.module = data.module
        /\ usBuffer'.ip = (IF n >= 2 THEN data.ip ELSE usBuffer.ip)
    BY <2>1, <2>2, OverwriteParts
  <2>5. n >= 2 => FirstParts(data, n).ip = data.ip
    BY <2>1, OverwriteParts DEF FirstParts
  <2>6. NamedBefore'
    <3> DEFINE g == [msg |-> FirstParts(data, n), size |-> n]
    <3>1. CASE n >= 2
      <4>1. g \in heard' /\ g.size >= 2 /\ g.msg.ip = usBuffer'.ip
        BY <1>2, <2>4, <2>5, <3>1
      <4> QED
        BY <4>1
    <3>2. CASE ~(n >= 2)
      <4>1. usBuffer'.ip = usBuffer.ip /\ heard \subseteq heard'
        BY <1>2, <2>4, <3>2
      <4> QED
        BY <4>1
    <3> QED
      BY <3>1, <3>2
  <2> QED
    BY <1>2, <2>1, <2>2, <2>3, <2>4, <2>6
<1> QED
  BY <1>1, <1>2 DEF UartThreadReads

LEMMA AnswerNext ==
    ASSUME TypeInv, AnswerInv, [Next]_vars
    PROVE  AnswerInv'
<1> USE DEF AnswerInv, NamedBefore, InAnswer, InUartCallback, InReply, InWalk
<1>1. CASE ControlThread
  BY <1>1, ControlFrame DEF localVars, histVars
<1>2. CASE ListenerChecks \/ ListenerAccepts \/ ListenerReceives
  BY <1>2, ListenerFrame DEF usVars, mainVars, localVars
<1>3. CASE RegisterEnds
  BY <1>3 DEF RegisterEnds, usVars, histVars
<1>4. CASE RegisterKnown \/ RegisterBegins \/ UartClientOpenFails \/ UartClientOpens
           \/ UartClientWriteFails \/ UartClientWrites \/ UartClientCloses
  BY <1>4 DEF RegisterKnown, RegisterBegins, UartClientOpenFails, UartClientOpens,
     UartClientWriteFails, UartClientWrites, UartClientCloses, usVars, mainVars,
     localVars, histVars
<1>5. CASE UartThreadServes
  BY <1>5 DEF UartThreadServes, UsOpenFails, UsAttributesFail, UsOpened, UsRetry, UsCheck,
     UsReadNothing, UsClose, mainVars, localVars, histVars
<1>6. CASE UartThreadReads
  BY <1>6, AnswerReads
<1>7. CASE DispatchIgnores \/ FindFails \/ ReplyOpenFails \/ ReplyConnectFails \/ WalkEnds
           \/ WalkOpenFails \/ WalkConnectFails \/ WalkCloseFails
  BY <1>7 DEF DispatchIgnores, FindFails, ReplyOpenFails, ReplyConnectFails, WalkEnds,
     WalkOpenFails, WalkConnectFails, WalkCloseFails, UartCallbackReturns, UsInCallback,
     mainVars, histVars
<1>8. CASE DispatchReply \/ FindSucceeds
  BY <1>8 DEF DispatchReply, FindSucceeds, LoadsPackage, UsInCallback, mainVars, localVars,
     histVars
<1>9. CASE DispatchNotify
  <2>1. walkTodo' \subseteq clientMap
    BY <1>9 DEF DispatchNotify, Seen
  <2> QED
    BY <1>9, <2>1 DEF DispatchNotify, LoadsPackage, UsInCallback, mainVars, histVars
<1>10. CASE \E c \in Client : WalkReaches(c)
  <2>1. PICK c \in Client : WalkReaches(c)
    BY <1>10
  <2>2. PICK s \in Seen(walkTodo) : c \in s /\ walkTodo' = s \ {c}
    BY <2>1 DEF WalkReaches
  <2>3. upc = "walk" /\ s \subseteq clientMap
    BY <2>1, <2>2 DEF WalkReaches, Seen
  <2> QED
    BY <2>1, <2>2, <2>3 DEF WalkReaches, UsInCallback, mainVars, histVars
<1>11. CASE ReplyOpens \/ WalkOpens
  BY <1>11 DEF ReplyOpens, WalkOpens, PeerOpens, UsInCallback, mainVars, histVars
<1>12. CASE ReplyWrites \/ WalkWriteFails
  BY <1>12 DEF ReplyWrites, WalkWriteFails, UartCallbackReturns, UsInCallback, mainVars
<1>13. CASE WalkWrites
  BY <1>13 DEF WalkWrites, UsInCallback, mainVars
<1>14. CASE ReplyConnects \/ WalkConnects \/ WalkCloses
  BY <1>14 DEF ReplyConnects, WalkConnects, WalkCloses, UsInCallback, mainVars, localVars,
     histVars
<1>15. CASE UNCHANGED vars
  BY <1>15 DEF vars, usVars, mainVars, localVars, histVars
<1> QED
  BY <1>1, <1>2, <1>3, <1>4, <1>5, <1>6, <1>7, <1>8, <1>9, <1>10, <1>11, <1>12, <1>13,
     <1>14, <1>15 DEF Next, NetworkCallback, UartThread, UartCallback

LEMMA AnswerInvariant == Spec => []AnswerInv
<1>1. Init => AnswerInv
  BY GarbageAssumption
     DEF Init, UsInit, AnswerInv, NamedBefore, InAnswer, InUartCallback, InReply, InWalk, NoData
<1>2. TypeInv /\ AnswerInv /\ [Next]_vars => AnswerInv'
  BY AnswerNext
<1> QED
  BY <1>1, <1>2, TypeInvariant, PTL DEF Spec

------------------------------------------------------------------------------
(* Who is notified                                                         *)

\* A walk begins with nobody served, and none is under way before start().
NoWalk ==
    /\ upc \notin InWalk => notified = {}
    /\ ctl = "new" => upc = "absent"

LEMMA BroadcastNext ==
    ASSUME TypeInv, NoWalk, BroadcastExactlyOnce, [Next]_vars
    PROVE  NoWalk' /\ BroadcastExactlyOnce'
<1> USE DEF NoWalk, BroadcastExactlyOnce, Current, InWalk
<1>1. CASE ControlThread
  BY <1>1, ControlFrame
     DEF ControlThread, StartUart, StartNetworkFails, StartNetwork, StartReturns,
     StopUart, StopNetwork, StopReturns, usVars, localVars, UsStartServer, UsStopServer
<1>2. CASE ListenerChecks \/ ListenerAccepts \/ ListenerReceives
  BY <1>2, ListenerFrame DEF usVars, mainVars, localVars
<1>3. CASE RegisterEnds
  BY <1>3 DEF RegisterEnds, usVars
<1>4. CASE RegisterKnown \/ RegisterBegins \/ UartClientOpenFails \/ UartClientOpens
           \/ UartClientWriteFails \/ UartClientWrites \/ UartClientCloses
  BY <1>4 DEF RegisterKnown, RegisterBegins, UartClientOpenFails, UartClientOpens,
     UartClientWriteFails, UartClientWrites, UartClientCloses, usVars, mainVars, localVars
<1>5. CASE UartThreadServes \/ UartThreadReads
  BY <1>5 DEF UartThreadServes, UsOpenFails, UsAttributesFail, UsOpened, UsRetry, UsCheck,
     UsReadNothing, UsReadFull, UsClose, UartThreadReads, UsRead, mainVars, localVars
<1>6. CASE DispatchIgnores \/ FindFails \/ ReplyOpenFails \/ ReplyConnectFails
           \/ ReplyWrites \/ WalkEnds \/ WalkOpenFails \/ WalkConnectFails
           \/ WalkWriteFails \/ WalkCloseFails
  BY <1>6 DEF DispatchIgnores, FindFails, ReplyOpenFails, ReplyConnectFails, ReplyWrites,
     WalkEnds, WalkOpenFails, WalkConnectFails, WalkWriteFails, WalkCloseFails,
     UartCallbackReturns, UsInCallback, mainVars
<1>7. CASE DispatchReply \/ FindSucceeds \/ ReplyOpens \/ ReplyConnects
  BY <1>7 DEF DispatchReply, FindSucceeds, ReplyOpens, ReplyConnects, PeerOpens,
     UsInCallback, mainVars, localVars
<1>8. CASE DispatchNotify
  BY <1>8 DEF DispatchNotify, Seen, UsInCallback, mainVars
<1>9. CASE \E c \in Client : WalkReaches(c)
  <2>1. PICK c \in Client : WalkReaches(c)
    BY <1>9
  <2>2. PICK s \in Seen(walkTodo) : c \in s /\ walkTodo' = s \ {c}
    BY <2>1 DEF WalkReaches
  <2>3. CASE lpc = "insert"
    BY <2>1, <2>3 DEF WalkReaches, UsInCallback, mainVars
  <2>4. CASE lpc # "insert"
    <3>1. s = walkTodo
      BY <2>2, <2>4 DEF Seen
    <3> QED
      BY <2>1, <2>2, <2>4, <3>1 DEF WalkReaches, UsInCallback, mainVars
  <2> QED
    BY <2>3, <2>4
<1>10. CASE WalkOpens \/ WalkConnects
  BY <1>10 DEF WalkOpens, WalkConnects, PeerOpens, UsInCallback, mainVars, localVars
<1>11. CASE WalkWrites
  BY <1>11 DEF WalkWrites, UsInCallback, mainVars
<1>12. CASE WalkCloses
  BY <1>12 DEF WalkCloses, UsInCallback, mainVars, localVars
<1>13. CASE UNCHANGED vars
  BY <1>13 DEF vars, usVars, mainVars, localVars
<1> QED
  BY <1>1, <1>2, <1>3, <1>4, <1>5, <1>6, <1>7, <1>8, <1>9, <1>10, <1>11, <1>12, <1>13
     DEF Next, NetworkCallback, UartThread, UartCallback

\* notifyAllClients() serves each client once, as long as no client is added
\* to the unordered_map while its iterator is in use
\* (MainController.cpp:269-305, 309-318).
THEOREM BroadcastOnce == Spec => []BroadcastExactlyOnce
<1>1. Init => NoWalk /\ BroadcastExactlyOnce
  BY DEF Init, UsInit, NoLocals, NoWalk, BroadcastExactlyOnce, InWalk
<1>2. TypeInv /\ (NoWalk /\ BroadcastExactlyOnce) /\ [Next]_vars
        => (NoWalk /\ BroadcastExactlyOnce)'
  BY BroadcastNext
<1> QED
  BY <1>1, <1>2, TypeInvariant, PTL DEF Spec

------------------------------------------------------------------------------
(* Refinement                                                              *)

\* The operators of the relay are the gateway's own.
LEMMA SameParts ==
    /\ Relay!Module = Module
    /\ \A d, n : Relay!FirstParts(d, n) = FirstParts(d, n)
    /\ \A b, n : Relay!Beginnings(b, n) = Beginnings(b, n)
  BY DEF Relay!Module, Relay!FirstParts, Relay!Beginnings, Relay!Overwrite, Relay!NoData,
     Relay!Whole, Module, FirstParts, Beginnings, Overwrite, NoData, Whole

\* What the relay knows of the three threads.
RelayWire == {w \in wire : w.size # MinusOne}
RelayUnchanged == UNCHANGED <<clientMap, received, heard, RelayWire, delivered>>

\* A client is met, and a message received, by the listener.
LEMMA ListenerRefines ==
    ASSUME TypeInv, ListenerReceives \/ RegisterEnds
    PROVE  Relay!RelayNext \/ RelayUnchanged
<1> USE DEF TypeInv, TypeOK, InUsePeers, InNetworkCallback, usVars, mainVars, localVars
<1>1. CASE ListenerReceives
  <2>1. CASE UNCHANGED received
    BY <1>1, <2>1 DEF ListenerReceives, RelayUnchanged, RelayWire
  <2>2. ASSUME NEW data \in NetworkData, NEW n \in Cut,
               received' = received \cup {[msg |-> FirstParts(data, n), size |-> n]}
        PROVE  Relay!RelayNext
    <3>1. Relay!Receive(data, n)
      BY <1>1, <2>2, SameParts DEF ListenerReceives, Relay!Receive
    <3> QED
      BY <3>1 DEF Relay!RelayNext
  <2> QED
    BY <1>1, <2>1, <2>2 DEF ListenerReceives
<1>2. CASE RegisterEnds
  <2>1. lPeer \in Client
    BY <1>2 DEF RegisterEnds
  <2>2. Relay!Meet(lPeer)
    BY <1>2 DEF RegisterEnds, histVars, Relay!Meet
  <2> QED
    BY <2>1, <2>2 DEF Relay!RelayNext
<1> QED
  BY <1>1, <1>2

\* A message is read from the port.
LEMMA ReadRefines ==
    ASSUME TypeInv, UartThreadReads
    PROVE  Relay!RelayNext
<1>1. PICK data \in UartData, n \in Cut :
        heard' = heard \cup {[msg |-> FirstParts(data, n), size |-> n]}
  <2>1. \A data \in UartData : data = FirstParts(data, Whole)
    BY UartAssumption DEF FirstParts, Overwrite, Buffer, Whole
  <2>2. CASE \E data \in UartData : heard' = heard \cup {[msg |-> data, size |-> Whole]}
    BY <2>1, <2>2, CutAssumption
  <2> QED
    BY <2>2 DEF UartThreadReads
<1>2. Relay!Hear(data, n)
  BY <1>1, SameParts DEF UartThreadReads, mainVars, Relay!Hear
<1> QED
  BY <1>2 DEF Relay!RelayNext

\* Whatever reaches the port after a receive that succeeded is the beginning
\* of what it returned, with a package's header.
LEMMA WriteRefines ==
    ASSUME TypeInv, InForward, UartClientWrites
    PROVE  Relay!RelayNext \/ RelayUnchanged
<1> USE DEF mainVars
<1>1. CASE wire' = wire
  BY <1>1 DEF UartClientWrites, RelayUnchanged, RelayWire
<1>2. ASSUME NEW p \in Beginnings(nsBuffer, nsSize),
             wire' = wire \cup {[msg |-> p, size |-> nsSize]}
      PROVE  Relay!RelayNext \/ RelayUnchanged
  <2>1. CASE nsSize = MinusOne
    <3>1. RelayWire' = RelayWire
      BY <1>2, <2>1 DEF RelayWire
    <3> QED
      BY <3>1 DEF UartClientWrites, RelayUnchanged
  <2>2. CASE nsSize # MinusOne
    <3>0. nsSize \in Size /\ nsSize \in Int /\ nsSize >= 1 /\ nsBuffer \in Package
      BY <1>2 DEF UartClientWrites, InForward, Beginnings, TypeInv, TypeOK, NsTypeOK, Size,
         MinusOne
    <3>1. PICK data \in NetworkData :
            /\ [msg |-> FirstParts(data, nsSize), size |-> nsSize] \in received
            /\ Beginnings(nsBuffer, nsSize) = Beginnings(data, nsSize)
            /\ nsBuffer.module = data.module
      BY <2>2, <3>0 DEF UartClientWrites, InForward, InNetworkCallback
    <3> DEFINE r == [msg |-> FirstParts(data, nsSize), size |-> nsSize]
    <3>2. p \in Beginnings(r.msg, r.size)
      BY <1>2, <3>0, <3>1, BeginningsOfFirstParts, NetworkAssumption
    <3>3. r.msg.module \in Module
      BY <3>0, <3>1, OverwriteParts DEF FirstParts, Package
    <3>4. RelayWire' = RelayWire \cup {[msg |-> p, size |-> r.size]}
      BY <1>2, <2>2 DEF RelayWire
    <3>5. Relay!Forward(r, p)
      BY <3>1, <3>2, <3>3, <3>4, SameParts DEF UartClientWrites, RelayWire, Relay!Forward
    <3> QED
      BY <3>1, <3>2, <3>5, SameParts DEF Relay!RelayNext
  <2> QED
    BY <2>1, <2>2
<1> QED
  BY <1>1, <1>2 DEF UartClientWrites

\* Whatever is sent to a client is the beginning of what the last read
\* returned, and goes where that read's header sends it.
LEMMA SendRefines ==
    ASSUME TypeInv, AnswerInv, ReplyWrites \/ WalkWriteFails \/ WalkWrites
    PROVE  Relay!RelayNext \/ RelayUnchanged
<1> USE DEF AnswerInv, InAnswer, InUartCallback, InReply, InWalk, mainVars
<1>0. /\ usSize \in Size /\ usSize \in Int
      /\ usBuffer \in Buffer
      /\ clientMap \subseteq Client /\ Client \subseteq Address
  BY NetworkAssumption DEF TypeInv, TypeOK, UsTypeOK, Size, MinusOne
<1>1. PICK data \in UartData :
        /\ [msg |-> FirstParts(data, usSize), size |-> usSize] \in heard
        /\ Beginnings(usBuffer, usSize) = Beginnings(data, usSize)
        /\ usSize >= 1
        /\ usBuffer.module = data.module
        /\ usSize >= 2 => usBuffer.ip = data.ip
  BY DEF ReplyWrites, WalkWriteFails, WalkWrites
<1> DEFINE h == [msg |-> FirstParts(data, usSize), size |-> usSize]
<1>2. /\ h \in heard
      /\ h.msg.module = usBuffer.module
      /\ usSize >= 2 => h.msg.ip = usBuffer.ip
  BY <1>0, <1>1, OverwriteParts DEF FirstParts
<1>3. Beginnings(h.msg, h.size) = Beginnings(usBuffer, usSize)
  BY <1>0, <1>1, BeginningsOfFirstParts, UartAssumption
<1>4. peer \in clientMap /\ peer \in Client
  BY <1>0 DEF ReplyWrites, WalkWriteFails, WalkWrites
<1>5. UNCHANGED <<clientMap, received, heard, wire>>
  BY DEF ReplyWrites, WalkWriteFails, WalkWrites
<1>6. ASSUME UNCHANGED delivered PROVE RelayUnchanged
  BY <1>5, <1>6 DEF RelayUnchanged, RelayWire
<1>7. CASE ReplyWrites
  <2>1. ASSUME NEW p \in Beginnings(usBuffer, usSize), SendsTo("reply", p)
        PROVE  Relay!RelayNext
    <3>1. Relay!Addressee(h, peer)
      BY <1>0, <1>2, <1>4, <1>7 DEF ReplyWrites, NamedBefore, Relay!Addressee
    <3>2. Relay!Reply(h, p, peer)
      BY <1>2, <1>3, <1>4, <1>5, <1>7, <2>1, <3>1, SameParts
         DEF ReplyWrites, SendsTo, Relay!Reply, Relay!Delivers
    <3> QED
      BY <1>2, <1>3, <1>4, <2>1, <3>2, SameParts DEF Relay!RelayNext
  <2> QED
    BY <1>6, <1>7, <2>1 DEF ReplyWrites
<1>8. CASE WalkWriteFails \/ WalkWrites
  <2>1. ASSUME NEW p \in Beginnings(usBuffer, usSize), SendsTo("notify", p)
        PROVE  Relay!RelayNext
    <3>1. Relay!Notify(h, p, peer)
      BY <1>2, <1>3, <1>4, <1>5, <1>8, <2>1, SameParts
         DEF WalkWriteFails, WalkWrites, SendsTo, Relay!Notify, Relay!Delivers
    <3> QED
      BY <1>2, <1>3, <1>4, <2>1, <3>1, SameParts DEF Relay!RelayNext
  <2>2. Beginnings(usBuffer, usSize - 1) \subseteq Beginnings(usBuffer, usSize)
    BY <1>0 DEF Beginnings
  <2>3. FirstParts(usBuffer, usSize) \in Beginnings(usBuffer, usSize)
    <3>1. usSize \in 1 .. Whole \/ usSize = MinusOne
      BY <1>0, <1>1 DEF Size, MinusOne, Whole
    <3>2. FirstParts(usBuffer, MinusOne) = FirstParts(usBuffer, Whole)
      BY DEF FirstParts, Overwrite, MinusOne, Whole
    <3> QED
      BY <3>1, <3>2 DEF Beginnings, Whole, MinusOne
  <2> QED
    BY <1>6, <1>8, <2>1, <2>2, <2>3 DEF WalkWriteFails, WalkWrites
<1> QED
  BY <1>7, <1>8

LEMMA StepRefines ==
    ASSUME TypeInv, InForward, AnswerInv, [Next]_vars
    PROVE  Relay!RelayNext \/ RelayUnchanged
<1> USE DEF RelayUnchanged, RelayWire, mainVars, histVars
<1>1. CASE ControlThread
  BY <1>1, ControlFrame
<1>2. CASE ListenerChecks \/ ListenerAccepts
  BY <1>2 DEF ListenerChecks, ListenerAccepts
<1>3. CASE ListenerReceives \/ RegisterEnds
  BY <1>3, ListenerRefines
<1>4. CASE RegisterKnown \/ RegisterBegins \/ UartClientOpenFails \/ UartClientOpens
           \/ UartClientWriteFails \/ UartClientCloses
  BY <1>4 DEF RegisterKnown, RegisterBegins, UartClientOpenFails, UartClientOpens,
     UartClientWriteFails, UartClientCloses
<1>5. CASE UartClientWrites
  BY <1>5, WriteRefines
<1>6. CASE UartThreadServes
  BY <1>6 DEF UartThreadServes
<1>7. CASE UartThreadReads
  BY <1>7, ReadRefines
<1>8. CASE DispatchIgnores \/ DispatchReply \/ DispatchNotify \/ FindFails \/ FindSucceeds
           \/ ReplyOpenFails \/ ReplyConnectFails \/ ReplyConnects \/ WalkEnds
           \/ WalkOpenFails \/ WalkConnectFails \/ WalkConnects \/ WalkCloseFails
           \/ WalkCloses \/ (\E c \in Client : WalkReaches(c))
  BY <1>8 DEF DispatchIgnores, DispatchReply, DispatchNotify, FindFails, FindSucceeds,
     ReplyOpenFails, ReplyConnectFails, ReplyConnects, WalkEnds, WalkOpenFails,
     WalkConnectFails, WalkConnects, WalkCloseFails, WalkCloses, WalkReaches
<1>9. CASE ReplyOpens \/ WalkOpens
  BY <1>9 DEF ReplyOpens, WalkOpens, PeerOpens
<1>10. CASE ReplyWrites \/ WalkWriteFails \/ WalkWrites
  BY <1>10, SendRefines
<1>11. CASE UNCHANGED vars
  BY <1>11 DEF vars
<1> QED
  BY <1>1, <1>2, <1>3, <1>4, <1>5, <1>6, <1>7, <1>8, <1>9, <1>10, <1>11
     DEF Next, NetworkCallback, UartThread, UartCallback

\* The gateway, with its three unsynchronised threads and its two buffers
\* that are never cleared, implements the relay of single receives: what it
\* forwards, answers and notifies is the beginning of what one recv() or
\* read() returned, sent where that message's header says
\* (MainController.cpp:90-182, 217-318).
THEOREM GatewayIsRelay == Spec => ImplementsRelay
<1>1. Init => Relay!RelayInit
  BY DEF Init, Relay!RelayInit
<1>2. TypeInv /\ InForward /\ AnswerInv /\ [Next]_vars
        => [Relay!RelayNext]_(Relay!relayVars)
  BY StepRefines DEF RelayUnchanged, RelayWire, Relay!relayVars
<1> QED
  BY <1>1, <1>2, TypeInvariant, ForwardInvariant, AnswerInvariant, PTL
     DEF Spec, ImplementsRelay, Relay!RelaySpec

=============================================================================
