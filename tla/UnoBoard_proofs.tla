-------------------------- MODULE UnoBoard_proofs --------------------------
(***************************************************************************)
(* FarsUnoTest implements the light service, for any messages that fit in  *)
(* the receive buffer, whatever the receive buffer drops.                  *)
(***************************************************************************)
EXTENDS UnoBoard, BjDataPackage_proofs

------------------------------------------------------------------------------
(* Messages on the line                                                    *)

LEMMA MessageBytes ==
    ASSUME NEW msg \in Message
    PROVE  /\ msg.pkg \in PackageType
           /\ BytesOf(msg) \in Seq(Byte)
           /\ Len(BytesOf(msg)) \in Nat
           /\ Len(BytesOf(msg)) >= 1
           /\ Len(BytesOf(msg)) <= RxSize
           /\ Len(BytesOf(msg)) >= Len(Encode(msg.pkg))
           /\ \A i \in 1 .. Len(Encode(msg.pkg)) : BytesOf(msg)[i] = Encode(msg.pkg)[i]
<1>1. msg.pkg \in PackageType /\ msg.pad \in Nat
  BY UnoAssumption
<1>2. Encode(msg.pkg) \in Seq(Byte) /\ Len(Encode(msg.pkg)) = CrcSize + 9 + Len(msg.pkg.payload)
  BY <1>1, Layout
<1>3. CrcSize \in Nat /\ Len(msg.pkg.payload) \in Nat
  BY <1>1, CrcAssumption DEF PackageType, Payloads
<1>4. PICK p \in Seq(Byte) : p = Encode(msg.pkg)
  BY <1>2
<1>5. PICK z \in Seq(Byte) : z = Zeros(msg.pad) /\ Len(z) = msg.pad
  <2>1. Zeros(msg.pad) \in [1 .. msg.pad -> Byte]  BY DEF Zeros, Byte
  <2> QED  BY <1>1, <2>1, Tuple
<1>6. BytesOf(msg) = p \o z
  BY <1>4, <1>5 DEF BytesOf
<1>7. PICK a \in Nat : a = Len(p)  OBVIOUS
<1>8. PICK b \in Nat : b = Len(z)  OBVIOUS
<1>9. /\ p \o z \in Seq(Byte)
      /\ Len(p \o z) = a + b
      /\ \A i \in 1 .. a : (p \o z)[i] = p[i]
  BY <1>7, <1>8, Joined
<1>10. a >= 1
  <2>1. a = CrcSize + 9 + Len(msg.pkg.payload)
    BY <1>2, <1>4, <1>7
  <2>2. \A m, n \in Nat : m + 9 + n >= 1  OBVIOUS
  <2> QED  BY <1>3, <2>1, <2>2
<1>11. Len(BytesOf(msg)) <= RxSize
  BY UnoAssumption
<1>12. Len(BytesOf(msg)) = a + b /\ a + b \in Nat /\ a + b >= 1 /\ a + b >= a
  BY <1>6, <1>9, <1>10
<1> QED  BY <1>1, <1>4, <1>6, <1>7, <1>9, <1>11, <1>12

\* The stream begins with the message, as far as it goes.
StartsWith(stream, msg) ==
    \A i \in 1 .. Len(BytesOf(msg)) : i <= Len(stream) => stream[i] = BytesOf(msg)[i]

\* The stream begins with the k-th message, of whose last n bytes have come in.
\* All of it is there if others have followed.
Begins(k, stream, msgs, n) ==
    /\ k \in 1 .. Len(msgs)
    /\ StartsWith(stream, msgs[k])
    /\ k = Len(msgs) => Len(stream) = n
    /\ k # Len(msgs) => Len(stream) >= Len(BytesOf(msgs[k]))

\* A byte of the last message arrives, and is stored or, if the stream began
\* with an earlier message, perhaps dropped.
LEMMA StreamGrows ==
    ASSUME NEW msgs \in Seq(Message), msgs # << >>,
           NEW n \in Nat, n < Len(BytesOf(msgs[Len(msgs)])),
           NEW k, NEW stream \in Seq(Byte), Begins(k, stream, msgs, n),
           NEW byte \in Byte, byte = BytesOf(msgs[Len(msgs)])[n + 1]
    PROVE  /\ Begins(k, Append(stream, byte), msgs, n + 1)
           /\ k # Len(msgs) => Begins(k, stream, msgs, n + 1)
<1> PICK len \in Nat : len = Len(stream)  OBVIOUS
<1>1. PICK new \in Seq(Byte) :
        /\ new = Append(stream, byte)
        /\ Len(new) = len + 1
        /\ \A i \in 1 .. len : new[i] = stream[i]
        /\ new[len + 1] = byte
  BY AppendProperties
<1>2. k \in 1 .. Len(msgs) /\ msgs[k] \in Message
  BY DEF Begins
<1>3. PICK all \in Nat : all = Len(BytesOf(msgs[k]))
  BY <1>2, MessageBytes
<1>4. CASE k = Len(msgs)
  <2>1. len = n
    BY <1>4 DEF Begins
  <2>2. StartsWith(new, msgs[k])
    <3> SUFFICES ASSUME NEW i \in 1 .. all, i <= len + 1
                 PROVE  new[i] = BytesOf(msgs[k])[i]
      BY <1>1, <1>3 DEF StartsWith
    <3>1. CASE i = len + 1
      BY <1>1, <1>4, <2>1, <3>1
    <3>2. CASE i # len + 1
      <4>1. i \in 1 .. len  BY <3>2
      <4> QED  BY <1>1, <1>3, <4>1 DEF Begins, StartsWith
    <3> QED  BY <3>1, <3>2
  <2> QED  BY <1>1, <1>2, <1>4, <2>1, <2>2 DEF Begins
<1>5. CASE k # Len(msgs)
  <2>1. len >= all
    BY <1>3, <1>5 DEF Begins
  <2>2. StartsWith(new, msgs[k])
    <3> SUFFICES ASSUME NEW i \in 1 .. all PROVE new[i] = BytesOf(msgs[k])[i]
      BY <1>3 DEF StartsWith
    <3>1. i \in 1 .. len /\ i <= len  BY <2>1
    <3> QED  BY <1>1, <1>3, <3>1 DEF Begins, StartsWith
  <2> QED  BY <1>1, <1>2, <1>3, <1>5, <2>1, <2>2 DEF Begins
<1> QED  BY <1>4, <1>5

\* The first byte of the next message arrives after all of the last.
LEMMA StreamFollowed ==
    ASSUME NEW msgs \in Seq(Message), msgs # << >>,
           NEW n, n = Len(BytesOf(msgs[Len(msgs)])),
           NEW k, NEW stream \in Seq(Byte), Begins(k, stream, msgs, n),
           NEW byte \in Byte, NEW msg \in Message
    PROVE  /\ Begins(k, Append(stream, byte), Append(msgs, msg), 1)
           /\ Begins(k, stream, Append(msgs, msg), 1)
<1> PICK len \in Nat : len = Len(stream)  OBVIOUS
<1>1. PICK new \in Seq(Byte) :
        /\ new = Append(stream, byte)
        /\ Len(new) = len + 1
        /\ \A i \in 1 .. len : new[i] = stream[i]
        /\ new[len + 1] = byte
  BY AppendProperties
<1>2. k \in 1 .. Len(msgs) /\ msgs[k] \in Message
  BY DEF Begins
<1>3. PICK all \in Nat : all = Len(BytesOf(msgs[k]))
  BY <1>2, MessageBytes
<1>4. len >= all
  <2>1. k = Len(msgs) => len = all  BY <1>3 DEF Begins
  <2>2. k # Len(msgs) => len >= all  BY <1>3 DEF Begins
  <2> QED  BY <2>1, <2>2
<1>5. StartsWith(new, msgs[k]) /\ StartsWith(stream, msgs[k])
  <2>1. StartsWith(stream, msgs[k])  BY DEF Begins
  <2>2. ASSUME NEW i \in 1 .. all PROVE new[i] = BytesOf(msgs[k])[i]
    <3>1. i \in 1 .. len /\ i <= len  BY <1>4
    <3> QED  BY <1>1, <1>3, <2>1, <3>1 DEF StartsWith
  <2> QED  BY <1>3, <2>1, <2>2 DEF StartsWith
<1>6. PICK count \in Nat : count = Len(msgs)  OBVIOUS
<1>7. PICK more \in Seq(Message) :
        /\ more = Append(msgs, msg)
        /\ Len(more) = count + 1
        /\ \A j \in 1 .. count : more[j] = msgs[j]
        /\ more[count + 1] = msg
  BY <1>6, AppendProperties
<1>8. k \in 1 .. count + 1 /\ k # count + 1 /\ more[k] = msgs[k]
  BY <1>2, <1>6, <1>7
<1> QED  BY <1>1, <1>3, <1>4, <1>5, <1>7, <1>8 DEF Begins

\* A message begins a stream.
LEMMA StreamBegins ==
    ASSUME NEW msgs \in Seq(Message), NEW msg \in Message, NEW byte,
           byte = BytesOf(msg)[1]
    PROVE  Begins(Len(msgs) + 1, <<byte>>, Append(msgs, msg), 1)
<1> PICK count \in Nat : count = Len(msgs)  OBVIOUS
<1>1. PICK more \in Seq(Message) :
        /\ more = Append(msgs, msg)
        /\ Len(more) = count + 1
        /\ more[count + 1] = msg
  BY AppendProperties
<1>2. PICK all \in Nat : all = Len(BytesOf(msg))
  BY MessageBytes
<1>3. StartsWith(<<byte>>, msg)
  <2>1. Len(<<byte>>) = 1 /\ <<byte>>[1] = BytesOf(msg)[1]  OBVIOUS
  <2>2. \A i \in 1 .. all : i <= 1 => i = 1  OBVIOUS
  <2> QED  BY <1>2, <2>1, <2>2 DEF StartsWith
<1> QED  BY <1>1, <1>3 DEF Begins

\* What begins with a whole message is decoded to its package.
LEMMA WholeMessageDecoded ==
    ASSUME NEW msg \in Message, NEW stream \in Seq(Byte),
           StartsWith(stream, msg), Len(stream) >= Len(BytesOf(msg))
    PROVE  Decode(stream) = msg.pkg
<1>1. PICK len \in Nat : len = Len(stream)  OBVIOUS
<1>2. PICK all \in Nat : all = Len(BytesOf(msg))
  BY MessageBytes
<1>3. PICK p \in Seq(Byte) : p = Encode(msg.pkg)
  BY MessageBytes, Layout
<1>4. PICK size \in Nat : size = Len(p)  OBVIOUS
<1>5. size <= all /\ all <= len
  BY <1>1, <1>2, <1>3, <1>4, MessageBytes
<1>6. \A i \in 1 .. size : stream[i] = p[i]
  <2> SUFFICES ASSUME NEW i \in 1 .. size PROVE stream[i] = p[i]
    OBVIOUS
  <2>1. i \in 1 .. all /\ i <= len  BY <1>5
  <2>2. stream[i] = BytesOf(msg)[i]  BY <1>1, <1>2, <2>1 DEF StartsWith
  <2> QED  BY <1>3, <1>4, <2>2, MessageBytes
<1>7. msg.pkg \in PackageType
  BY MessageBytes
<1>8. Len(stream) >= Len(Encode(msg.pkg))
  BY <1>1, <1>3, <1>4, <1>5
<1> QED  BY <1>3, <1>4, <1>6, <1>7, <1>8, DecodeEncode

------------------------------------------------------------------------------
(* The lights                                                              *)

LEMMA LightsTyped ==
    ASSUME NEW lights \in Lights, NEW pkg \in PackageType
    PROVE  LightsAfter(lights, pkg) \in Lights
<1>1. \A k \in Nat : ByteAt(pkg.payload, k) \in Byte
  <2> SUFFICES ASSUME NEW k \in Nat PROVE ByteAt(pkg.payload, k) \in Byte
    OBVIOUS
  <2>1. PICK p \in Seq(Byte) : p = pkg.payload
    BY DEF PackageType, Payloads
  <2>2. PICK len \in Nat : len = Len(p)
    OBVIOUS
  <2>3. CASE k < len
    <3>1. k + 1 \in 1 .. len  BY <2>3
    <3>2. p[k + 1] \in Byte  BY <2>2, <3>1, ElementOfSeq
    <3> QED  BY <2>1, <2>2, <2>3, <3>2 DEF ByteAt
  <2>4. CASE ~(k < len)
    BY <2>1, <2>2, <2>4 DEF ByteAt, Byte
  <2> QED  BY <2>3, <2>4
<1>2. ASSUME NEW i \in Entries(pkg) PROVE RgbAt(pkg.payload, i) \in Rgb
  <2>1. Len(pkg.payload) \in Nat
    BY DEF PackageType, Payloads
  <2>2. i \in Nat
    <3>1. \A n \in Nat : n \div 4 \in Nat  OBVIOUS
    <3>2. PICK count \in Nat : count = Len(pkg.payload) \div 4
      BY <2>1, <3>1
    <3>3. i \in 0 .. count - 1
      BY <3>2 DEF Entries, EntrySize
    <3> QED  BY <3>3
  <2>3. \A k \in 1 .. 3 : EntrySize * i + k \in Nat
    BY <2>2 DEF EntrySize
  <2> QED  BY <1>1, <2>3 DEF RgbAt, Rgb
<1>3. ASSUME NEW c \in Cup
      PROVE  (IF LastNaming(pkg, c) = {} THEN lights[c]
              ELSE RgbAt(pkg.payload, CHOOSE i \in LastNaming(pkg, c) : TRUE)) \in Rgb
  <2>1. lights[c] \in Rgb
    BY DEF Lights
  <2>2. CASE LastNaming(pkg, c) # {}
    <3>1. PICK j : j = CHOOSE i \in LastNaming(pkg, c) : TRUE
      OBVIOUS
    <3>2. j \in LastNaming(pkg, c)
      BY <2>2, <3>1
    <3>3. j \in Entries(pkg)
      BY <3>2 DEF LastNaming
    <3> QED  BY <1>2, <2>2, <3>1, <3>3
  <2> QED  BY <2>1, <2>2
<1> QED  BY <1>3 DEF LightsAfter, Lights

------------------------------------------------------------------------------
(* The inductive invariant                                                 *)

\* Where the loop is, what it has read, and whether it may miss a byte.
LoopInv ==
    /\ pc \in {"delay", "dispatch"} => buf # << >>
    /\ pc = "pause" => buf = << >>
    /\ pc = "delay" /\ came => rx # << >>
    /\ pc \in {"look", "dispatch", "pause"} /\ rx = << >> => ~Sending

\* Of the last message something has come in.
LastInv == sent # << >> => arrived \in 1 .. Len(BytesOf(sent[Len(sent)]))

\* While nothing of a batch is read, what waits begins with a whole message, as
\* far as it has come in.
FreshInv ==
    rx # << >> /\ (pc \in {"dispatch", "pause"} \/ (pc = "look" /\ buf = << >>)) =>
        /\ Begins(fresh, rx, sent, arrived)
        /\ batch < fresh
        /\ \A j \in served : j < fresh

\* So does what was read together with what waits.
BatchInv ==
    buf # << >> /\ pc \in {"look", "delay"} =>
        /\ Begins(batch, buf \o rx, sent, arrived)
        /\ \A j \in served : j < batch

\* What is dispatched begins with a whole message that was not dispatched before.
DispatchInv ==
    pc = "dispatch" =>
        /\ batch \in 1 .. Len(sent)
        /\ StartsWith(buf, sent[batch])
        /\ Len(buf) >= Len(BytesOf(sent[batch]))
        /\ \A j \in served : j < batch

UnoInv == UnoTypeOK /\ LoopInv /\ LastInv /\ FreshInv /\ BatchInv /\ DispatchInv

LEMMA UnoInit == Init => UnoInv
<1> SUFFICES ASSUME Init PROVE UnoInv
  OBVIOUS
<1>1. UnoTypeOK
  <2>1. cupLights \in Lights
    BY DEF Init, Lights, Rgb, Colour, Byte
  <2>2. RxSize >= 0 /\ BufferSize >= 0
    BY UnoAssumption
  <2>3. sent \in Seq(Message) /\ arrived \in Nat /\ rx \in Seq(Byte) /\ Len(rx) <= RxSize
    BY <2>2 DEF Init
  <2>4. buf \in Seq(Byte) /\ Len(buf) <= BufferSize
    BY <2>2 DEF Init
  <2>5. came \in BOOLEAN
    BY Zenon DEF Init
  <2>6. heads \subseteq 1 .. Len(sent) /\ served \subseteq 1 .. Len(sent)
    BY DEF Init
  <2>7. fresh \in 0 .. Len(sent) /\ batch \in 0 .. Len(sent)
    BY DEF Init
  <2> QED  BY <2>1, <2>3, <2>4, <2>5, <2>6, <2>7 DEF Init, UnoTypeOK
<1>2. LoopInv /\ LastInv /\ FreshInv /\ BatchInv /\ DispatchInv
  BY DEF Init, LoopInv, LastInv, FreshInv, BatchInv, DispatchInv, Sending
<1> QED  BY <1>1, <1>2 DEF UnoInv

------------------------------------------------------------------------------
(* A byte arrives                                                          *)

\* What the receive buffer becomes.
LEMMA Arrived ==
    ASSUME UnoTypeOK, NEW byte \in Byte, Arrives(byte), RxSize >= 1
    PROVE  /\ rx' \in Seq(Byte) /\ Len(rx') <= RxSize
           /\ rx' # << >>
           /\ came' = TRUE
           /\ rx' = Append(rx, byte) \/ (rx' = rx /\ Len(rx) = RxSize)
           /\ rx = << >> => rx' = <<byte>>
           /\ buf \o rx \in Seq(Byte)
           /\ Len(buf \o rx) >= Len(rx)
           /\ buf \o rx' = Append(buf \o rx, byte) \/ (buf \o rx' = buf \o rx /\ rx' = rx)
<1>1. rx \in Seq(Byte) /\ Len(rx) <= RxSize /\ buf \in Seq(Byte) /\ RxSize \in Nat
  BY UnoAssumption DEF UnoTypeOK
<1>2. buf \o rx \in Seq(Byte) /\ Len(buf \o rx) >= Len(rx)
  <2>1. PICK a \in Nat : a = Len(buf)  BY <1>1
  <2>2. PICK b \in Nat : b = Len(rx)  BY <1>1
  <2>3. buf \o rx \in Seq(Byte) /\ Len(buf \o rx) = a + b
    BY <1>1, <2>1, <2>2, Joined
  <2> QED  BY <2>1, <2>2, <2>3
<1>3. CASE Len(rx) < RxSize
  <2>1. rx' = Append(rx, byte)
    BY <1>3 DEF Arrives
  <2>2. /\ rx' \in Seq(Byte) /\ rx' # << >> /\ Len(rx') = Len(rx) + 1
    BY <1>1, <2>1, AppendProperties
  <2>3. Len(rx) + 1 <= RxSize
    <3>1. Len(rx) \in Nat  BY <1>1
    <3> QED  BY <1>1, <1>3, <3>1
  <2>4. buf \o rx' = Append(buf \o rx, byte)
    <3>1. rx' = rx \o <<byte>>  BY <1>1, <2>1, AppendIsConcat
    <3>2. <<byte>> \in Seq(Byte)  OBVIOUS
    <3>3. (buf \o rx) \o <<byte>> = buf \o (rx \o <<byte>>)
      BY <1>1, <3>2, ConcatAssociative
    <3>4. Append(buf \o rx, byte) = (buf \o rx) \o <<byte>>
      BY <1>2, AppendIsConcat
    <3> QED  BY <3>1, <3>3, <3>4
  <2>5. rx = << >> => rx' = <<byte>>
    BY <2>1
  <2> QED  BY <1>2, <2>1, <2>2, <2>3, <2>4, <2>5 DEF Arrives
<1>4. CASE ~(Len(rx) < RxSize)
  <2>1. rx' = rx /\ came' = TRUE
    BY <1>4 DEF Arrives
  <2>2. Len(rx) = RxSize
    <3>1. Len(rx) \in Nat  BY <1>1
    <3> QED  BY <1>1, <1>4, <3>1
  <2>3. rx # << >>
    BY <2>2, <1>1
  <2> QED  BY <1>1, <1>2, <2>1, <2>2, <2>3
<1> QED  BY <1>3, <1>4

LEMMA ByteArrivesKeeps ==
    ASSUME UnoInv, ByteArrives
    PROVE  UnoInv'
<1> DEFINE last == sent[Len(sent)]
           byte == BytesOf(last)[arrived']
<1>1. /\ sent # << >> /\ sent \in Seq(Message)
      /\ last \in Message
      /\ arrived \in Nat /\ arrived < Len(BytesOf(last))
      /\ arrived' = arrived + 1
      /\ Arrives(byte)
  BY DEF ByteArrives, Sending, UnoInv, UnoTypeOK
<1>2. /\ BytesOf(last) \in Seq(Byte)
      /\ Len(BytesOf(last)) \in Nat
      /\ Len(BytesOf(last)) <= RxSize
      /\ RxSize \in Nat
  BY <1>1, MessageBytes, UnoAssumption
<1>3. arrived' \in 1 .. Len(BytesOf(last)) /\ byte \in Byte
  BY <1>1, <1>2, ElementOfSeq
<1>4. UNCHANGED <<sent, heads, fresh, pc, buf, cupLights, batch, served>>
  BY DEF ByteArrives, boardVars
<1>5. RxSize >= 1 /\ arrived < RxSize
  BY <1>1, <1>2
<1>6. /\ rx' \in Seq(Byte) /\ Len(rx') <= RxSize
      /\ rx' # << >>
      /\ came' = TRUE
      /\ rx' = Append(rx, byte) \/ (rx' = rx /\ Len(rx) = RxSize)
      /\ buf \o rx \in Seq(Byte)
      /\ Len(buf \o rx) >= Len(rx)
      /\ buf \o rx' = Append(buf \o rx, byte) \/ (buf \o rx' = buf \o rx /\ rx' = rx)
  BY <1>1, <1>3, <1>5, Arrived DEF UnoInv
<1>7. rx \in Seq(Byte) /\ Len(rx) \in Nat
  BY DEF UnoInv, UnoTypeOK
<1> HIDE DEF byte
<1>8. UnoTypeOK'
  BY <1>1, <1>3, <1>4, <1>6 DEF UnoInv, UnoTypeOK
<1>9. LoopInv' /\ LastInv' /\ DispatchInv'
  BY <1>1, <1>3, <1>4, <1>6 DEF UnoInv, LoopInv, LastInv, DispatchInv
<1>10. FreshInv'
  <2> SUFFICES ASSUME pc \in {"dispatch", "pause"} \/ (pc = "look" /\ buf = << >>)
               PROVE  /\ Begins(fresh, rx', sent, arrived + 1)
                      /\ batch < fresh
                      /\ \A j \in served : j < fresh
    BY <1>1, <1>4 DEF FreshInv
  <2>1. rx # << >>
    BY DEF UnoInv, LoopInv, ByteArrives
  <2>2. /\ Begins(fresh, rx, sent, arrived)
        /\ batch < fresh
        /\ \A j \in served : j < fresh
    BY <2>1 DEF UnoInv, FreshInv
  <2>3. CASE rx' = Append(rx, byte)
    BY <1>1, <1>3, <1>7, <2>2, <2>3, StreamGrows DEF byte
  <2>4. CASE rx' = rx /\ Len(rx) = RxSize
    <3>1. fresh # Len(sent)
      BY <1>5, <1>2, <1>1, <2>2, <2>4 DEF Begins
    <3> QED
      BY <1>1, <1>3, <1>7, <2>2, <2>4, <3>1, StreamGrows DEF byte
  <2> QED  BY <1>6, <2>3, <2>4, <2>2
<1>11. BatchInv'
  <2> SUFFICES ASSUME buf # << >>, pc \in {"look", "delay"}
               PROVE  /\ Begins(batch, buf \o rx', sent, arrived + 1)
                      /\ \A j \in served : j < batch
    BY <1>1, <1>4 DEF BatchInv
  <2>1. /\ Begins(batch, buf \o rx, sent, arrived)
        /\ \A j \in served : j < batch
    BY DEF UnoInv, BatchInv
  <2>2. PICK stream \in Seq(Byte) : stream = buf \o rx
    BY <1>6
  <2>3. CASE buf \o rx' = Append(buf \o rx, byte)
    BY <1>1, <1>3, <2>1, <2>2, <2>3, StreamGrows DEF byte
  <2>4. CASE rx' = rx /\ Len(rx) = RxSize
    <3>1. batch # Len(sent)
      BY <1>5, <1>2, <1>1, <1>6, <1>7, <2>1, <2>4 DEF Begins
    <3> QED
      BY <1>1, <1>3, <2>1, <2>2, <2>4, <3>1, StreamGrows DEF byte
  <2>5. rx' = Append(rx, byte) => rx' # rx
    <3>1. Len(Append(rx, byte)) = Len(rx) + 1
      BY <1>3, <1>7, AppendProperties DEF byte
    <3> QED  BY <1>7, <3>1
  <2> QED  BY <1>6, <2>1, <2>3, <2>4, <2>5
<1> QED  BY <1>8, <1>9, <1>10, <1>11 DEF UnoInv

LEMMA MessageBeginsKeeps ==
    ASSUME UnoInv, NEW msg \in Message, MessageBegins(msg)
    PROVE  UnoInv'
<1> DEFINE byte == BytesOf(msg)[1]
<1>1. /\ sent \in Seq(Message)
      /\ sent' = Append(sent, msg)
      /\ arrived' = 1
      /\ Arrives(byte)
      /\ ~Sending
  BY DEF MessageBegins, UnoInv, UnoTypeOK
<1>2. /\ BytesOf(msg) \in Seq(Byte)
      /\ Len(BytesOf(msg)) \in Nat
      /\ Len(BytesOf(msg)) >= 1
      /\ RxSize >= 1
  <2>1. Len(BytesOf(msg)) <= RxSize /\ RxSize \in Nat
    BY UnoAssumption
  <2> QED  BY <2>1, MessageBytes
<1>3. 1 \in 1 .. Len(BytesOf(msg)) /\ byte \in Byte
  BY <1>2, ElementOfSeq
<1>4. UNCHANGED <<pc, buf, cupLights, batch, served>>
  BY DEF MessageBegins, boardVars
<1>5. /\ rx' \in Seq(Byte) /\ Len(rx') <= RxSize
      /\ rx' # << >>
      /\ came' = TRUE
      /\ rx' = Append(rx, byte) \/ rx' = rx
      /\ rx = << >> => rx' = <<byte>>
      /\ buf \o rx \in Seq(Byte)
      /\ buf \o rx' = Append(buf \o rx, byte) \/ buf \o rx' = buf \o rx
  BY <1>1, <1>2, <1>3, Arrived DEF UnoInv
<1>6. PICK count \in Nat : count = Len(sent)
  BY <1>1
<1>7. /\ sent' \in Seq(Message) /\ sent' # << >>
      /\ Len(sent') = count + 1
      /\ \A j \in 1 .. count : sent'[j] = sent[j]
      /\ sent'[count + 1] = msg
  BY <1>1, <1>6, AppendProperties
<1>8. /\ Quiet => heads' = heads \cup {count + 1} /\ fresh' = count + 1
      /\ ~Quiet => heads' = heads /\ fresh' = fresh
  BY <1>7 DEF MessageBegins
<1>9. sent # << >> => arrived = Len(BytesOf(sent[Len(sent)]))
  <2> SUFFICES ASSUME sent # << >> PROVE arrived = Len(BytesOf(sent[Len(sent)]))
    OBVIOUS
  <2>1. sent[Len(sent)] \in Message
    BY <1>1
  <2>2. PICK all \in Nat : all = Len(BytesOf(sent[Len(sent)]))
    BY <2>1, MessageBytes
  <2>3. arrived \in 1 .. all /\ ~(arrived < all)
    BY <1>1, <2>2 DEF UnoInv, LastInv, Sending
  <2> QED  BY <2>2, <2>3
<1>10. rx \in Seq(Byte)
  BY DEF UnoInv, UnoTypeOK
<1> HIDE DEF byte
<1>11. UnoTypeOK'
  <2>1. /\ heads \subseteq 1 .. count /\ served \subseteq 1 .. count
        /\ fresh \in 0 .. count /\ batch \in 0 .. count
    BY <1>6 DEF UnoInv, UnoTypeOK
  <2>2. heads' \subseteq 1 .. count + 1 /\ served' \subseteq 1 .. count + 1
    <3>1. 1 .. count \subseteq 1 .. count + 1 /\ count + 1 \in 1 .. count + 1
      OBVIOUS
    <3>2. CASE Quiet   BY <1>4, <1>8, <2>1, <3>1, <3>2, Zenon
    <3>3. CASE ~Quiet  BY <1>4, <1>8, <2>1, <3>1, <3>3, Zenon
    <3> QED  BY <3>2, <3>3
  <2>3. fresh' \in 0 .. count + 1 /\ batch' \in 0 .. count + 1
    BY <1>4, <1>8, <2>1
  <2>4. came' \in BOOLEAN
    BY <1>5, Zenon
  <2> QED  BY <1>1, <1>4, <1>5, <1>7, <2>2, <2>3, <2>4 DEF UnoInv, UnoTypeOK
<1>12. LoopInv' /\ LastInv'
  BY <1>1, <1>3, <1>4, <1>5, <1>7 DEF UnoInv, LoopInv, LastInv
<1>13. DispatchInv'
  BY <1>4, <1>6, <1>7 DEF UnoInv, DispatchInv
<1>14. FreshInv'
  <2> SUFFICES ASSUME pc \in {"dispatch", "pause"} \/ (pc = "look" /\ buf = << >>)
               PROVE  /\ Begins(fresh', rx', sent', 1)
                      /\ batch < fresh'
                      /\ \A j \in served : j < fresh'
    BY <1>1, <1>4 DEF FreshInv
  <2>1. CASE rx = << >>
    <3>1. Quiet
      BY <2>1 DEF Quiet, UnoInv, LoopInv
    <3>2. fresh' = count + 1
      BY <1>8, <3>1
    <3>3. Begins(count + 1, <<byte>>, sent', 1)
      BY <1>1, <1>6, StreamBegins DEF byte
    <3>4. batch \in 0 .. count /\ served \subseteq 1 .. count
      BY <1>6 DEF UnoInv, UnoTypeOK
    <3> QED  BY <1>5, <2>1, <3>2, <3>3, <3>4
  <2>2. CASE rx # << >>
    <3>1. fresh' = fresh
      BY <1>8, <2>2 DEF Quiet
    <3>2. /\ Begins(fresh, rx, sent, arrived)
          /\ batch < fresh
          /\ \A j \in served : j < fresh
      BY <2>2 DEF UnoInv, FreshInv
    <3>3. sent # << >>
      BY <3>2 DEF Begins
    <3>4. Begins(fresh, Append(rx, byte), sent', 1) /\ Begins(fresh, rx, sent', 1)
      BY <1>1, <1>3, <1>9, <1>10, <3>2, <3>3, StreamFollowed DEF byte
    <3> QED  BY <1>5, <3>1, <3>2, <3>4
  <2> QED  BY <2>1, <2>2
<1>15. BatchInv'
  <2> SUFFICES ASSUME buf # << >>, pc \in {"look", "delay"}
               PROVE  /\ Begins(batch, buf \o rx', sent', 1)
                      /\ \A j \in served : j < batch
    BY <1>1, <1>4 DEF BatchInv
  <2>1. /\ Begins(batch, buf \o rx, sent, arrived)
        /\ \A j \in served : j < batch
    BY DEF UnoInv, BatchInv
  <2>2. PICK stream \in Seq(Byte) : stream = buf \o rx
    BY <1>5
  <2>3. sent # << >>
    BY <2>1 DEF Begins
  <2>4. Begins(batch, Append(stream, byte), sent', 1) /\ Begins(batch, stream, sent', 1)
    BY <1>1, <1>3, <1>9, <2>1, <2>2, <2>3, StreamFollowed DEF byte
  <2> QED  BY <1>5, <2>1, <2>2, <2>4
<1> QED  BY <1>11, <1>12, <1>13, <1>14, <1>15 DEF UnoInv

------------------------------------------------------------------------------
(* The loop                                                                *)

\* A byte moves from the head of what waits to the end of what was read.
LEMMA Moved ==
    ASSUME NEW s \in Seq(Byte), NEW t \in Seq(Byte), t # << >>
    PROVE  /\ Append(s, Head(t)) \in Seq(Byte)
           /\ Append(s, Head(t)) # << >>
           /\ Len(Append(s, Head(t))) = Len(s) + 1
           /\ Tail(t) \in Seq(Byte)
           /\ Len(Tail(t)) <= Len(t)
           /\ Append(s, Head(t)) \o Tail(t) = s \o t
<1>1. Head(t) \in Byte /\ Tail(t) \in Seq(Byte) /\ Len(Tail(t)) = Len(t) - 1
  BY HeadTailProperties
<1>2. PICK h \in Byte : h = Head(t)
  BY <1>1
<1>3. /\ Append(s, h) \in Seq(Byte)
      /\ Append(s, h) # << >>
      /\ Len(Append(s, h)) = Len(s) + 1
      /\ Append(s, h) = s \o <<h>>
  BY AppendProperties, AppendIsConcat
<1>4. PICK r \in Seq(Byte) : r = Tail(t)
  BY <1>1
<1>5. <<h>> \in Seq(Byte)
  OBVIOUS
<1>6. (s \o <<h>>) \o r = s \o (<<h>> \o r)
  BY <1>5, ConcatAssociative
<1>7. <<h>> \o r = t
  <2>1. PICK len \in Nat : len = Len(r)  OBVIOUS
  <2>2. PICK whole \in Seq(Byte) :
          /\ whole = <<h>> \o r
          /\ Len(whole) = 1 + len
          /\ \A i \in 1 .. 1 + len : whole[i] = IF i <= 1 THEN h ELSE r[i - 1]
    <3>1. Len(<<h>>) = 1 /\ <<h>>[1] = h  OBVIOUS
    <3>2. /\ <<h>> \o r \in Seq(Byte)
          /\ Len(<<h>> \o r) = 1 + len
          /\ \A i \in 1 .. 1 + len : (<<h>> \o r)[i] = IF i <= 1 THEN <<h>>[i] ELSE r[i - 1]
      BY <1>5, <2>1, <3>1, ConcatProperties
    <3>3. \A i \in 1 .. 1 + len : i <= 1 => i = 1  OBVIOUS
    <3> QED  BY <3>1, <3>2, <3>3
  <2>3. Len(t) = 1 + len
    BY <1>1, <1>4, <2>1
  <2>4. t[1] = h
    BY <1>2
  <2>5. \A i \in 1 .. len : r[i] = t[i + 1]
    BY <1>4, <2>1, HeadTailProperties
  <2>6. \A i \in 1 .. 1 + len : whole[i] = t[i]
    <3> SUFFICES ASSUME NEW i \in 1 .. 1 + len PROVE whole[i] = t[i]
      OBVIOUS
    <3>1. CASE i = 1  BY <2>2, <2>4, <3>1
    <3>2. CASE i # 1
      <4>1. i - 1 \in 1 .. len /\ (i - 1) + 1 = i /\ ~(i <= 1)  BY <3>2
      <4>2. r[i - 1] = t[i]  BY <2>5, <4>1
      <4> QED  BY <2>2, <4>1, <4>2
    <3> QED  BY <3>1, <3>2
  <2> QED  BY <2>2, <2>3, <2>6, SeqEqual
<1>8. Len(Tail(t)) <= Len(t)
  <2>1. Len(t) \in Nat  OBVIOUS
  <2> QED  BY <1>1, <2>1
<1> QED  BY <1>1, <1>2, <1>3, <1>4, <1>6, <1>7, <1>8

LEMMA ReadByteKeeps ==
    ASSUME UnoInv, ReadByte
    PROVE  UnoInv'
<1>1. /\ rx \in Seq(Byte) /\ Len(rx) <= RxSize /\ rx # << >>
      /\ buf \in Seq(Byte) /\ Len(buf) < BufferSize
      /\ RxSize \in Nat /\ BufferSize \in Nat
  BY UnoAssumption DEF ReadByte, UnoInv, UnoTypeOK
<1>2. /\ buf' = Append(buf, Head(rx))
      /\ rx' = Tail(rx)
      /\ came' = FALSE
      /\ pc = "look" /\ pc' = "delay"
      /\ buf = << >> => batch' = fresh /\ fresh' = 0
      /\ buf # << >> => batch' = batch /\ fresh' = fresh
      /\ UNCHANGED <<sent, arrived, cupLights, heads, served>>
  BY DEF ReadByte, lineVars
<1>3. /\ buf' \in Seq(Byte) /\ buf' # << >> /\ Len(buf') = Len(buf) + 1
      /\ rx' \in Seq(Byte) /\ Len(rx') <= Len(rx)
      /\ buf' \o rx' = buf \o rx
  BY <1>1, <1>2, Moved
<1>4. UnoTypeOK'
  <2>1. Len(rx') <= RxSize /\ Len(buf') <= BufferSize
    <3>1. Len(rx) \in Nat /\ Len(rx') \in Nat /\ Len(buf) \in Nat
      BY <1>1, <1>3
    <3> QED  BY <1>1, <1>3, <3>1
  <2>2. fresh' \in 0 .. Len(sent) /\ batch' \in 0 .. Len(sent)
    BY <1>2 DEF UnoInv, UnoTypeOK
  <2>3. came' \in BOOLEAN
    BY <1>2, Zenon
  <2> QED  BY <1>2, <1>3, <2>1, <2>2, <2>3 DEF UnoInv, UnoTypeOK
<1>5. LoopInv' /\ LastInv' /\ FreshInv' /\ DispatchInv'
  BY <1>2, <1>3 DEF UnoInv, LoopInv, LastInv, FreshInv, DispatchInv
<1>6. BatchInv'
  <2>1. CASE buf = << >>
    <3>1. /\ Begins(fresh, rx, sent, arrived)
          /\ \A j \in served : j < fresh
      BY <1>1, <1>2, <2>1 DEF UnoInv, FreshInv
    <3>2. buf \o rx = rx
      BY <1>1, <2>1, ConcatEmptySeq
    <3> QED  BY <1>2, <1>3, <2>1, <3>1, <3>2 DEF BatchInv
  <2>2. CASE buf # << >>
    BY <1>2, <1>3, <2>2 DEF UnoInv, BatchInv
  <2> QED  BY <2>1, <2>2
<1> QED  BY <1>4, <1>5, <1>6 DEF UnoInv

LEMMA NoMoreBytesKeeps ==
    ASSUME UnoInv, NoMoreBytes
    PROVE  UnoInv'
<1>1. /\ pc = "look" /\ rx = << >>
      /\ buf = << >> => pc' = "pause"
      /\ buf # << >> => pc' = "dispatch"
      /\ UNCHANGED <<sent, arrived, rx, came, heads, fresh, buf, cupLights, batch, served>>
  BY DEF NoMoreBytes, lineVars
<1>2. ~Sending /\ ~Sending'
  BY <1>1 DEF UnoInv, LoopInv, Sending
<1>3. UnoTypeOK' /\ LoopInv' /\ LastInv' /\ FreshInv' /\ BatchInv'
  BY <1>1, <1>2 DEF UnoInv, UnoTypeOK, LoopInv, LastInv, FreshInv, BatchInv
<1>4. ASSUME buf # << >>
      PROVE  /\ batch \in 1 .. Len(sent)
             /\ StartsWith(buf, sent[batch])
             /\ Len(buf) >= Len(BytesOf(sent[batch]))
             /\ \A j \in served : j < batch
  <2>1. buf \o rx = buf
    BY <1>1, ConcatEmptySeq DEF UnoInv, UnoTypeOK
  <2>2. /\ Begins(batch, buf, sent, arrived)
        /\ \A j \in served : j < batch
    BY <1>1, <1>4, <2>1 DEF UnoInv, BatchInv
  <2>3. PICK all \in Nat : all = Len(BytesOf(sent[batch]))
    <3>1. sent[batch] \in Message
      BY <2>2 DEF Begins, UnoInv, UnoTypeOK
    <3> QED  BY <3>1, MessageBytes
  <2>4. CASE batch = Len(sent)
    <3>1. sent # << >>
      BY <2>2 DEF Begins
    <3>2. arrived \in 1 .. all /\ ~(arrived < all)
      BY <1>2, <2>3, <2>4, <3>1 DEF UnoInv, LastInv, Sending
    <3>3. Len(buf) = arrived /\ arrived >= all
      BY <2>2, <2>4, <3>2 DEF Begins
    <3> QED  BY <2>2, <2>3, <3>3 DEF Begins
  <2>5. CASE batch # Len(sent)
    BY <2>2, <2>5 DEF Begins
  <2> QED  BY <2>4, <2>5
<1>5. DispatchInv'
  BY <1>1, <1>4 DEF DispatchInv
<1> QED  BY <1>3, <1>5 DEF UnoInv

\* An accepted package is that of the message dispatched, and served for the
\* first time.
LEMMA DispatchServes ==
    ASSUME UnoInv, pc = "dispatch"
    PROVE  /\ batch \in 1 .. Len(sent)
           /\ Decode(buf) = sent[batch].pkg
           /\ Decode(buf) \in PackageType
           /\ \A j \in served : j < batch
<1>1. /\ batch \in 1 .. Len(sent)
      /\ StartsWith(buf, sent[batch])
      /\ Len(buf) >= Len(BytesOf(sent[batch]))
      /\ \A j \in served : j < batch
  BY DEF UnoInv, DispatchInv
<1>2. sent[batch] \in Message /\ buf \in Seq(Byte)
  BY <1>1 DEF UnoInv, UnoTypeOK
<1>3. Decode(buf) = sent[batch].pkg
  BY <1>1, <1>2, WholeMessageDecoded
<1> QED  BY <1>1, <1>2, <1>3, MessageBytes

LEMMA DispatchKeeps ==
    ASSUME UnoInv, Dispatch
    PROVE  UnoInv'
<1>1. /\ pc = "dispatch" /\ pc' = "pause"
      /\ batch' = 0 /\ buf' = << >>
      /\ cupLights' = cupLights \/ cupLights' = LightsAfter(cupLights, Decode(buf))
      /\ served' = served \/ served' = served \cup {batch}
      /\ UNCHANGED <<sent, arrived, rx, came, heads, fresh>>
  BY DEF Dispatch, lineVars
<1>2. /\ batch \in 1 .. Len(sent)
      /\ Decode(buf) \in PackageType
  BY <1>1, DispatchServes
<1>3. UnoTypeOK'
  <2>1. cupLights' \in Lights
    BY <1>1, <1>2, LightsTyped DEF UnoInv, UnoTypeOK
  <2>2. served' \subseteq 1 .. Len(sent)
    BY <1>1, <1>2 DEF UnoInv, UnoTypeOK
  <2>3. buf' \in Seq(Byte) /\ Len(buf') <= BufferSize
    BY <1>1, UnoAssumption
  <2>4. batch' \in 0 .. Len(sent)
    BY <1>1, <1>2
  <2> QED  BY <1>1, <2>1, <2>2, <2>3, <2>4 DEF UnoInv, UnoTypeOK
<1>4. LoopInv' /\ LastInv' /\ BatchInv' /\ DispatchInv'
  BY <1>1 DEF UnoInv, LoopInv, LastInv, BatchInv, DispatchInv, Sending
<1>5. FreshInv'
  <2> SUFFICES ASSUME rx # << >>
               PROVE  /\ Begins(fresh, rx, sent, arrived)
                      /\ 0 < fresh
                      /\ \A j \in served' : j < fresh
    BY <1>1 DEF FreshInv
  <2>1. /\ Begins(fresh, rx, sent, arrived)
        /\ batch < fresh
        /\ \A j \in served : j < fresh
    BY <1>1 DEF UnoInv, FreshInv
  <2>2. fresh \in 1 .. Len(sent)
    BY <2>1 DEF Begins
  <2> QED  BY <1>1, <2>1, <2>2
<1> QED  BY <1>3, <1>4, <1>5 DEF UnoInv

LEMMA UnoStep ==
    ASSUME UnoInv, [Next]_vars
    PROVE  UnoInv'
<1>1. CASE \E msg \in Message : MessageBegins(msg)
  BY <1>1, MessageBeginsKeeps
<1>2. CASE ByteArrives
  BY <1>2, ByteArrivesKeeps
<1>3. CASE ReadByte
  BY <1>3, ReadByteKeeps
<1>4. CASE NoMoreBytes
  BY <1>4, NoMoreBytesKeeps
<1>5. CASE Dispatch
  BY <1>5, DispatchKeeps
<1>6. CASE ReadPastBuffer \/ DispatchStrays
  BY <1>6 DEF ReadPastBuffer, DispatchStrays, lineVars, UnoInv, UnoTypeOK, LoopInv,
     LastInv, FreshInv, BatchInv, DispatchInv
<1>7. CASE DelayEnds
  BY <1>7 DEF DelayEnds, lineVars, UnoInv, UnoTypeOK, LoopInv,
     LastInv, FreshInv, BatchInv, DispatchInv, Sending
<1>8. CASE PauseEnds
  BY <1>8 DEF PauseEnds, lineVars, UnoInv, UnoTypeOK, LoopInv,
     LastInv, FreshInv, BatchInv, DispatchInv, Sending
<1>9. CASE UNCHANGED vars
  BY <1>9 DEF vars, lineVars, boardVars, UnoInv, UnoTypeOK, LoopInv,
     LastInv, FreshInv, BatchInv, DispatchInv, Sending
<1> QED  BY <1>1, <1>2, <1>3, <1>4, <1>5, <1>6, <1>7, <1>8, <1>9 DEF Next, Line, Board

LEMMA UnoInvariant == Spec => []UnoInv
  BY UnoInit, UnoStep, PTL DEF Spec

\* Neither the buffers nor the lights leave their arrays in a state that is
\* not "lost", and the histories name messages that were sent.
THEOREM UnoTypeCorrect == Spec => []UnoTypeOK
  BY UnoInvariant, PTL DEF UnoInv

------------------------------------------------------------------------------
(* No message that found a quiet line is forgotten                         *)

\* While a message that found a quiet line waits at the head of the receive
\* buffer, it is there, and nothing of the next batch has been read.
WaitingHead ==
    pc # "lost" /\ fresh # 0 => rx # << >> /\ (buf = << >> \/ pc = "dispatch")

HeadsInv == WaitingHead /\ HeadsAreKept

\* What the steps of the loop make of the histories.
LEMMA LoopKeepsHeads ==
    ASSUME UnoInv, HeadsInv, Board
    PROVE  HeadsInv'
<1>1. heads \subseteq 1 .. Len(sent) /\ 0 \notin heads
  BY DEF UnoInv, UnoTypeOK
<1>2. heads' = heads /\ sent' = sent
  BY DEF Board, ReadByte, ReadPastBuffer, DelayEnds, NoMoreBytes, Dispatch, DispatchStrays,
     PauseEnds, lineVars
<1>3. CASE ReadByte
  <2>1. /\ pc = "look" /\ pc' = "delay" /\ rx # << >>
        /\ batch' = IF buf = << >> THEN fresh ELSE batch
        /\ fresh' = IF buf = << >> THEN 0 ELSE fresh
        /\ served' = served
    BY <1>3 DEF ReadByte, lineVars
  <2>2. buf' # << >>
    BY <1>3, Moved DEF ReadByte, UnoInv, UnoTypeOK
  <2>3. fresh' = 0
    BY <2>1 DEF HeadsInv, WaitingHead
  <2>4. HeadsAreKept'
    <3> SUFFICES ASSUME NEW k \in heads, Len(BytesOf(sent[k])) >= PackageHeaderSize
                 PROVE  k \in served' \/ (k = batch' /\ buf' # << >>)
      BY <1>2 DEF HeadsAreKept
    <3>1. k \in served \/ (k = batch /\ buf # << >>) \/ (k = fresh /\ rx # << >>)
      BY <2>1 DEF HeadsInv, HeadsAreKept
    <3>2. fresh # 0 => buf = << >>
      BY <2>1 DEF HeadsInv, WaitingHead
    <3>3. k # 0
      BY <1>1
    <3> QED  BY <2>1, <2>2, <3>1, <3>2, <3>3
  <2> QED  BY <2>3, <2>4 DEF HeadsInv, WaitingHead
<1>4. CASE Dispatch
  <2>1. /\ pc = "dispatch" /\ pc' = "pause" /\ buf' = << >>
        /\ served' = IF Accepted THEN served \cup {batch} ELSE served
        /\ UNCHANGED <<rx, fresh>>
    BY <1>4 DEF Dispatch
  <2>2. HeadsAreKept'
    <3> SUFFICES ASSUME NEW k \in heads, Len(BytesOf(sent[k])) >= PackageHeaderSize
                 PROVE  k \in served' \/ (k = fresh /\ rx # << >>)
      BY <1>2, <2>1 DEF HeadsAreKept
    <3>1. k \in served \/ k = batch \/ (k = fresh /\ rx # << >>)
      BY <2>1 DEF HeadsInv, HeadsAreKept
    \* The whole of the message was read, so the batch is long enough.
    <3>2. CASE k = batch
      <4>1. Len(buf) >= Len(BytesOf(sent[k]))
        BY <2>1, <3>2 DEF UnoInv, DispatchInv
      <4>2. sent[k] \in Message
        BY <1>1 DEF UnoInv, UnoTypeOK
      <4>3. Len(BytesOf(sent[k])) \in Nat
        BY <4>2, MessageBytes
      <4>4. Len(buf) \in Nat
        BY DEF UnoInv, UnoTypeOK
      <4>5. Accepted
        BY <4>1, <4>3, <4>4 DEF Accepted, PackageHeaderSize
      <4> QED  BY <2>1, <3>2, <4>5
    <3> QED  BY <2>1, <3>1, <3>2
  <2> QED  BY <2>1, <2>2 DEF HeadsInv, WaitingHead
<1>5. CASE NoMoreBytes \/ DelayEnds \/ PauseEnds
  <2>1. pc # "lost" /\ UNCHANGED <<rx, buf, fresh, batch, served>>
    BY <1>5 DEF NoMoreBytes, DelayEnds, PauseEnds
  <2>2. HeadsAreKept'
    BY <1>2, <2>1 DEF HeadsInv, HeadsAreKept
  <2>3. WaitingHead'
    BY <1>5, <2>1 DEF NoMoreBytes, DelayEnds, PauseEnds, HeadsInv, WaitingHead
  <2> QED  BY <2>2, <2>3 DEF HeadsInv
<1>6. CASE ReadPastBuffer \/ DispatchStrays
  BY <1>6 DEF ReadPastBuffer, DispatchStrays, HeadsInv, WaitingHead, HeadsAreKept
<1> QED  BY <1>3, <1>4, <1>5, <1>6 DEF Board

LEMMA LineKeepsHeads ==
    ASSUME UnoInv, HeadsInv, Line
    PROVE  HeadsInv'
<1>1. CASE ByteArrives
  <2>1. UNCHANGED <<sent, heads, fresh, pc, buf, batch, served>>
    BY <1>1 DEF ByteArrives, boardVars
  <2>2. rx # << >> => rx' # << >>
    <3>1. rx \in Seq(Byte)
      BY DEF UnoInv, UnoTypeOK
    <3>2. Append(rx, BytesOf(sent[Len(sent)])[arrived']) # << >>
      BY <3>1
    <3> QED  BY <1>1, <3>2 DEF ByteArrives, Arrives
  <2> QED  BY <2>1, <2>2 DEF HeadsInv, WaitingHead, HeadsAreKept
<1>2. ASSUME NEW msg \in Message, MessageBegins(msg) PROVE HeadsInv'
  <2>1. PICK count \in Nat : count = Len(sent)
    BY DEF UnoInv, UnoTypeOK
  <2>2. /\ sent \in Seq(Message)
        /\ sent' = Append(sent, msg)
        /\ Len(sent') = count + 1
        /\ \A j \in 1 .. count : sent'[j] = sent[j]
    BY <1>2, <2>1, AppendProperties DEF MessageBegins, UnoInv, UnoTypeOK
  <2>3. /\ heads' = IF Quiet THEN heads \cup {count + 1} ELSE heads
        /\ fresh' = IF Quiet THEN count + 1 ELSE fresh
        /\ UNCHANGED <<pc, buf, batch, served>>
    BY <1>2, <2>2 DEF MessageBegins, boardVars
  <2>4. rx' # << >>
    <3>1. Append(rx, BytesOf(msg)[1]) # << >>
      BY DEF UnoInv, UnoTypeOK
    <3>2. RxSize \in Nat /\ RxSize >= 1
      <4>1. Len(BytesOf(msg)) <= RxSize /\ RxSize \in Nat
        BY UnoAssumption
      <4> QED  BY <4>1, MessageBytes
    <3>3. rx = << >> => Len(rx) < RxSize
      BY <3>2
    <3> QED  BY <1>2, <3>1, <3>3 DEF MessageBegins, Arrives
  <2>5. heads \subseteq 1 .. count
    BY <2>1 DEF UnoInv, UnoTypeOK
  <2>6. CASE Quiet
    <3>1. pc # "lost" => fresh = 0
      BY <2>6 DEF Quiet, HeadsInv, WaitingHead
    <3>2. HeadsAreKept'
      <4> SUFFICES ASSUME pc # "lost", NEW k \in heads \cup {count + 1},
                          Len(BytesOf(sent'[k])) >= PackageHeaderSize
                   PROVE  k \in served \/ (k = batch /\ buf # << >>) \/ k = count + 1
        BY <2>3, <2>4, <2>6 DEF HeadsAreKept
      <4>1. CASE k \in heads
        <5>1. sent'[k] = sent[k]
          BY <2>2, <2>5, <4>1
        <5> QED  BY <2>6, <4>1, <5>1 DEF HeadsInv, HeadsAreKept, Quiet
      <4> QED  BY <4>1
    <3>3. WaitingHead'
      BY <2>3, <2>4, <2>6 DEF Quiet, WaitingHead
    <3> QED  BY <3>2, <3>3 DEF HeadsInv
  <2>7. CASE ~Quiet
    <3>1. HeadsAreKept'
      <4> SUFFICES ASSUME pc # "lost", NEW k \in heads,
                          Len(BytesOf(sent'[k])) >= PackageHeaderSize
                   PROVE  k \in served \/ (k = batch /\ buf # << >>) \/ k = fresh
        BY <2>3, <2>4, <2>7 DEF HeadsAreKept
      <4>1. sent'[k] = sent[k]
        BY <2>2, <2>5
      <4> QED  BY <4>1 DEF HeadsInv, HeadsAreKept
    <3>2. WaitingHead'
      BY <2>3, <2>4, <2>7 DEF HeadsInv, WaitingHead
    <3> QED  BY <3>1, <3>2 DEF HeadsInv
  <2> QED  BY <2>6, <2>7
<1> QED  BY <1>1, <1>2 DEF Line

\* Whatever follows a message that began on a quiet line, and whatever the
\* receive buffer drops, it is served or keeps its place at the head of what
\* waits or of what was read, until the loop leaves its arrays: nothing is read
\* from the middle of another (checkInputData()).
THEOREM HeadsStay == Spec => []HeadsAreKept
<1>1. Init => HeadsInv
  BY DEF Init, HeadsInv, WaitingHead, HeadsAreKept
<1>2. UnoInv /\ HeadsInv /\ [Next]_vars => HeadsInv'
  <2>1. CASE UNCHANGED vars
    BY <2>1 DEF vars, lineVars, boardVars, HeadsInv, WaitingHead, HeadsAreKept
  <2> QED  BY <2>1, LoopKeepsHeads, LineKeepsHeads DEF Next
<1>3. HeadsInv => HeadsAreKept
  BY DEF HeadsInv
<1> QED  BY <1>1, <1>2, <1>3, UnoInvariant, PTL DEF Spec

------------------------------------------------------------------------------
(* The board implements the light service                                  *)

LEMMA SameLights ==
    \A lights, pkg : Service!LightsAfter(lights, pkg) = LightsAfter(lights, pkg)
  BY DEF Service!LightsAfter, Service!Cup, Service!LastNaming, Service!Entries,
     Service!IdAt, Service!RgbAt, Service!ByteAt, Service!EntrySize,
     LightsAfter, Cup, LastNaming, Entries, IdAt, RgbAt, ByteAt, EntrySize

LEMMA ServiceStep ==
    ASSUME UnoInv, [Next]_vars
    PROVE  [Service!Next]_(Service!serviceVars)
<1> DEFINE Unchanged == UNCHANGED <<sent, served, cupLights>>
<1> USE DEF Service!serviceVars, Service!Next
<1>1. CASE \E msg \in Message : MessageBegins(msg)
  BY <1>1 DEF MessageBegins, boardVars, Service!Send
<1>2. CASE Dispatch
  <2>1. /\ batch \in 1 .. Len(sent)
        /\ Decode(buf) = sent[batch].pkg
        /\ \A j \in served : j < batch
    BY <1>2, DispatchServes DEF Dispatch
  <2>2. CASE Accepted
    <3>1. cupLights' = LightsAfter(cupLights, sent[batch].pkg)
      BY <1>2, <2>1, <2>2 DEF Dispatch
    <3>2. served' = served \cup {batch} /\ sent' = sent
      BY <1>2, <2>2 DEF Dispatch, lineVars
    <3>3. Service!Serve(batch)
      BY <2>1, <3>1, <3>2, SameLights DEF Service!Serve
    <3> QED  BY <2>1, <3>3
  <2>3. CASE ~Accepted
    BY <1>2, <2>3 DEF Dispatch, lineVars
  <2> QED  BY <2>2, <2>3
<1>3. CASE \/ ByteArrives \/ ReadByte \/ ReadPastBuffer \/ DelayEnds
           \/ NoMoreBytes \/ DispatchStrays \/ PauseEnds \/ UNCHANGED vars
  BY <1>3 DEF ByteArrives, ReadByte, ReadPastBuffer, DelayEnds, NoMoreBytes,
     DispatchStrays, PauseEnds, vars, lineVars, boardVars
<1> QED  BY <1>1, <1>2, <1>3 DEF Next, Line, Board

\* However bytes come in while the board reads, and whatever the receive buffer
\* drops, the lights are what whole packages make of them, each served at most
\* once and in order (checkInputData(), setPkgFromRawPayload(), handlePut()).
THEOREM BoardIsLightService == Spec => ImplementsLightService
<1>1. Init => Service!Init
  BY DEF Init, Service!Init, Cup, Service!Cup, Colour, Service!Colour
<1>2. UnoInv /\ [Next]_vars => [Service!Next]_(Service!serviceVars)
  BY ServiceStep
<1> QED
  BY <1>1, <1>2, UnoInvariant, PTL DEF Spec, ImplementsLightService, Service!Spec

=============================================================================
