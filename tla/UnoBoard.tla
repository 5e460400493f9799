------------------------------ MODULE UnoBoard ------------------------------
(***************************************************************************)
(* FarsUnoTest (src/EC/main), the board's program in an earlier form: it   *)
(* takes packages from the serial line byte by byte and sets the lights.   *)
(* checkInputData() reads as long as bytes are there, with a delay of 10   *)
(* ms after each, and takes what it has read for one package.              *)
(*                                                                         *)
(* A byte takes about 1 ms on the line, at 9600 baud.  So while a package  *)
(* is on its way a delay does not pass without a byte of it, which is the  *)
(* only assumption made about time.                                        *)
(***************************************************************************)
EXTENDS FarsLightController

CONSTANTS Message,       \* bound: the messages considered
          RxSize,        \* bytes the serial receive buffer holds
          BufferSize,    \* MAX_PACKAGE_SIZE, the size of m_tmpPkgBuffer
          MaxMessages    \* bound: how many messages are sent

\* What a message puts on the line: its package, and, if its sender goes by
\* getRawPayloadSize(), zeros after it.
BytesOf(msg) == Encode(msg.pkg) \o Zeros(msg.pad)

ASSUME UnoAssumption ==
    /\ Message \subseteq [pkg : PackageType, pad : Nat]
    /\ RxSize \in Nat
    /\ BufferSize \in Nat
    /\ MaxMessages \in Nat
    /\ \A msg \in Message : Len(BytesOf(msg)) <= RxSize

VARIABLES sent,        \* the messages, the last perhaps still on its way
          arrived,     \* the bytes of the last that have come in
          rx           \* the serial receive buffer

VARIABLES pc,          \* where loop() is: "look", "delay", "dispatch", "pause",
                       \* or "lost", when an array was left
          buf,         \* m_tmpPkgBuffer, up to dataBytesRead
          came,        \* a byte has come in since the last was read
          cupLights    \* m_cupLights, and the pixels

VARIABLES heads,       \* history: messages that began on a quiet line
          fresh,       \* history: the one of them at the head of rx, or 0
          batch,       \* history: the one of them at the head of buf, or 0
          served       \* history: the messages that were dispatched

lineVars  == <<sent, arrived>>
boardVars == <<pc, buf, cupLights, batch, served>>
vars      == <<lineVars, rx, came, heads, fresh, boardVars>>

Init ==
    /\ sent = << >>
    /\ arrived = 0
    /\ rx = << >>
    /\ pc = "look"
    /\ buf = << >>
    /\ came = FALSE
    /\ cupLights = [c \in Cup |-> Colour(0, 0, 255)]
    /\ heads = {}
    /\ fresh = 0
    /\ batch = 0
    /\ served = {}

UnoTypeOK ==
    /\ sent \in Seq(Message)
    /\ arrived \in Nat
    /\ rx \in Seq(Byte) /\ Len(rx) <= RxSize
    /\ pc \in {"look", "delay", "dispatch", "pause", "lost"}
    /\ buf \in Seq(Byte) /\ Len(buf) <= BufferSize
    /\ came \in BOOLEAN
    /\ cupLights \in Lights
    /\ heads \subseteq 1 .. Len(sent)
    /\ fresh \in 0 .. Len(sent)
    /\ batch \in 0 .. Len(sent)
    /\ served \subseteq 1 .. Len(sent)

------------------------------------------------------------------------------
(* The line                                                                *)

Sending == sent # << >> /\ arrived < Len(BytesOf(sent[Len(sent)]))

\* The receive buffer drops what it has no room for.
Arrives(byte) ==
    /\ rx' = IF Len(rx) < RxSize THEN Append(rx, byte) ELSE rx
    /\ came' = TRUE

\* Nothing is waiting, and nothing of a batch has been read.
Quiet == rx = << >> /\ (buf = << >> \/ pc = "dispatch")

\* The next message may follow the last at once.
MessageBegins(msg) ==
    /\ ~Sending
    /\ Len(sent) < MaxMessages
    /\ sent' = Append(sent, msg)
    /\ arrived' = 1
    /\ Arrives(BytesOf(msg)[1])
    /\ heads' = IF Quiet THEN heads \cup {Len(sent')} ELSE heads
    /\ fresh' = IF Quiet THEN Len(sent') ELSE fresh
    /\ UNCHANGED boardVars

ByteArrives ==
    /\ Sending
    /\ arrived' = arrived + 1
    /\ Arrives(BytesOf(sent[Len(sent)])[arrived'])
    /\ UNCHANGED <<sent, heads, fresh, boardVars>>

------------------------------------------------------------------------------
(* loop()                                                                  *)

ReadByte ==
    /\ pc = "look"
    /\ rx # << >>
    /\ Len(buf) < BufferSize
    /\ buf' = Append(buf, Head(rx))
    /\ rx' = Tail(rx)
    /\ came' = FALSE
    /\ batch' = IF buf = << >> THEN fresh ELSE batch
    /\ fresh' = IF buf = << >> THEN 0 ELSE fresh
    /\ pc' = "delay"
    /\ UNCHANGED <<lineVars, cupLights, heads, served>>

\* Nothing compares dataBytesRead with the size of the buffer.
ReadPastBuffer ==
    /\ pc = "look"
    /\ rx # << >>
    /\ Len(buf) = BufferSize
    /\ pc' = "lost"
    /\ UNCHANGED <<lineVars, rx, came, heads, fresh, buf, cupLights, batch, served>>

DelayEnds ==
    /\ pc = "delay"
    /\ Sending => came
    /\ pc' = "look"
    /\ UNCHANGED <<lineVars, rx, came, heads, fresh, buf, cupLights, batch, served>>

NoMoreBytes ==
    /\ pc = "look"
    /\ rx = << >>
    /\ pc' = IF buf = << >> THEN "pause" ELSE "dispatch"
    /\ UNCHANGED <<lineVars, rx, came, heads, fresh, buf, cupLights, batch, served>>

\* A check that would refuse a package of the least size.
LongerThanHeader == Len(buf) > PackageHeaderSize

\* setPkgFromRawPayload() takes what was read for a package.
Accepted == Len(buf) >= PackageHeaderSize

Dispatch ==
    /\ pc = "dispatch"
    /\ ~(Accepted /\ Strays(Decode(buf)))
    /\ cupLights' = IF Accepted THEN LightsAfter(cupLights, Decode(buf)) ELSE cupLights
    /\ served' = IF Accepted THEN served \cup {batch} ELSE served
    /\ batch' = 0
    /\ buf' = << >>
    /\ pc' = "pause"
    /\ UNCHANGED <<lineVars, rx, came, heads, fresh>>

DispatchStrays ==
    /\ pc = "dispatch"
    /\ Accepted /\ Strays(Decode(buf))
    /\ pc' = "lost"
    /\ UNCHANGED <<lineVars, rx, came, heads, fresh, buf, cupLights, batch, served>>

\* The delay of loop().
PauseEnds ==
    /\ pc = "pause"
    /\ pc' = "look"
    /\ UNCHANGED <<lineVars, rx, came, heads, fresh, buf, cupLights, batch, served>>

------------------------------------------------------------------------------
Line == (\E msg \in Message : MessageBegins(msg)) \/ ByteArrives

Board ==
    \/ ReadByte \/ ReadPastBuffer \/ DelayEnds \/ NoMoreBytes
    \/ Dispatch \/ DispatchStrays \/ PauseEnds

Next == Line \/ Board

Spec == Init /\ [][Next]_vars

\* The board's loop goes on, and so does a message that has begun.
FairSpec == Spec /\ WF_vars(Board) /\ WF_vars(ByteArrives)

------------------------------------------------------------------------------
(* Properties                                                              *)

Service == INSTANCE LightService WITH lights <- cupLights

\* However bytes come in while the board reads, pauses and dispatches, and
\* whatever the receive buffer drops: the lights are what whole packages make
\* of them, each served at most once and in order, and no package is made of
\* the bytes of two.
ImplementsLightService == Service!Spec

\* Until the loop leaves its arrays, a message that began on a quiet line and
\* that is long enough to be accepted is not forgotten: it was served, or it is
\* at the head of what was read, or at the head of what waits.  Whatever others
\* follow it, none takes its place there.
HeadsAreKept ==
    pc # "lost" =>
        \A k \in heads :
            Len(BytesOf(sent[k])) >= PackageHeaderSize =>
                \/ k \in served
                \/ k = batch /\ buf # << >>
                \/ k = fresh /\ rx # << >>

\* A message that begins on a quiet line is served in the end, even if others
\* follow it so closely that they are taken for a part of it; but not if it is
\* shorter than the checksum that it does not have would make it, nor once the
\* bytes of many messages run over the buffer.
QuietMeansServed ==
    \A k \in 1 .. MaxMessages :
        (k \in heads /\ Len(BytesOf(sent[k])) >= PackageHeaderSize)
            ~> (k \in served \/ pc = "lost")

=============================================================================
