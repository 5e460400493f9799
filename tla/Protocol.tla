------------------------------ MODULE Protocol ------------------------------
(***************************************************************************)
(* The gateway's view of a package (src/MC/App/Types/src/ProtocolTypes.h)  *)
(* and of the receive buffers it is parsed from.                           *)
(*                                                                         *)
(* A package is cut into the three parts the gateway tells apart: the      *)
(* start-of-frame byte with the header ("module"), the address ("ip") and  *)
(* the rest, payload and end-of-frame byte ("body").  Packages have one    *)
(* payload length.  A buffer holds, in each part, what the last receive    *)
(* that reached so far left there: a short receive leaves the tail of an   *)
(* older message behind it.                                                *)
(***************************************************************************)
EXTENDS Integers

CONSTANTS Address,  \* the values of the four address bytes
          Body,     \* payloads, each with its end-of-frame byte
          Garbage,  \* bytes that belong to no package
          Cut       \* the parts a message can be cut down to on its way

Module == {"default", "get", "getAll", "set", "setAll", "notifyAll", "log"}

ASSUME GarbageAssumption == Garbage \notin Module \cup Address \cup Body

Package == [module : Module, ip : Address, body : Body]

Buffer == [module : Module \cup {Garbage},
           ip     : Address \cup {Garbage},
           body   : Body \cup {Garbage}]

NoData == [module |-> Garbage, ip |-> Garbage, body |-> Garbage]

\* How many parts a call moved.  A failed call returns -1, which the code
\* keeps in a uint32_t: 4294967295, larger than any buffer.
Whole    == 3
MinusOne == 4
Size     == 0 .. MinusOne

ASSUME CutAssumption == Cut \subseteq 0 .. Whole /\ Whole \in Cut

\* The buffer after the first n parts of data were received into it.
Overwrite(buffer, data, n) ==
    [module |-> IF n >= 1 THEN data.module ELSE buffer.module,
     ip     |-> IF n >= 2 THEN data.ip     ELSE buffer.ip,
     body   |-> IF n >= 3 THEN data.body   ELSE buffer.body]

\* The first n parts of data alone, and what a call that was given the first
\* size parts of a buffer can have moved, when it moved any.
FirstParts(data, n) == Overwrite(NoData, data, n)
Beginnings(buffer, size) == {FirstParts(buffer, n) : n \in {k \in 1 .. Whole : k <= size}}

\* loadPackageFromBuffer succeeds: start-of-frame and end-of-frame byte are
\* where they should be.  It takes the size received as a parameter and
\* never looks at it.
LoadsPackage(buffer, size) == buffer \in Package

=============================================================================
