---------------------------- MODULE MessageRelay ----------------------------
(***************************************************************************)
(* What the gateway promises, without threads, sockets, descriptors or     *)
(* buffers: it relays what single receives returned between the clients it *)
(* has met and the serial line.  Nothing it sends is made up, put together *)
(* from two messages or longer than what was received; a header decides    *)
(* where it goes.                                                          *)
(***************************************************************************)
EXTENDS Protocol

CONSTANTS Client, NetworkData, UartData

VARIABLES known,      \* the clients met so far
          received,   \* what was received from clients, with its size
          heard,      \* what was read from the serial line, with its size
          wire,       \* what was written to the serial line, with that size
          delivered   \* what was sent to clients

relayVars == <<known, received, heard, wire, delivered>>

RelayInit ==
    /\ known = {}
    /\ received = {}
    /\ heard = {}
    /\ wire = {}
    /\ delivered = {}

Meet(c) ==
    /\ known' = known \cup {c}
    /\ UNCHANGED <<received, heard, wire, delivered>>

\* The first n parts of a message arrive.
Receive(data, n) ==
    /\ received' = received \cup {[msg |-> FirstParts(data, n), size |-> n]}
    /\ UNCHANGED <<known, heard, wire, delivered>>

Hear(data, n) ==
    /\ heard' = heard \cup {[msg |-> FirstParts(data, n), size |-> n]}
    /\ UNCHANGED <<known, received, wire, delivered>>

\* The parts p of what was received from a client go to the line.
Forward(r, p) ==
    /\ r \in received
    /\ r.msg.module \in Module
    /\ p \in Beginnings(r.msg, r.size)
    /\ wire' = wire \cup {[msg |-> p, size |-> r.size]}
    /\ UNCHANGED <<known, received, heard, delivered>>

\* The one client an answer goes to: the one it names, or, when it was cut
\* before its address, one that some message before it named.
Addressee(h, c) ==
    IF h.size >= 2 THEN h.msg.ip = c
                   ELSE \E g \in heard : g.size >= 2 /\ g.msg.ip = c

Delivers(h, p, c, by) ==
    /\ h \in heard
    /\ c \in known
    /\ p \in Beginnings(h.msg, h.size)
    /\ delivered' = delivered \cup {[to |-> c, by |-> by, msg |-> p]}
    /\ UNCHANGED <<known, received, heard, wire>>

Reply(h, p, c) ==
    /\ h.msg.module \in {"get", "getAll"}
    /\ Addressee(h, c)
    /\ Delivers(h, p, c, "reply")

\* A notification goes to any client met.
Notify(h, p, c) ==
    /\ h.msg.module = "notifyAll"
    /\ Delivers(h, p, c, "notify")

RelayNext ==
    \/ \E c \in Client : Meet(c)
    \/ \E data \in NetworkData, n \in Cut : Receive(data, n)
    \/ \E data \in UartData, n \in Cut : Hear(data, n)
    \/ \E r \in received : \E p \in Beginnings(r.msg, r.size) : Forward(r, p)
    \/ \E h \in heard : \E p \in Beginnings(h.msg, h.size), c \in Client :
         Reply(h, p, c) \/ Notify(h, p, c)

RelaySpec == RelayInit /\ [][RelayNext]_relayVars

=============================================================================
