--------------------------- MODULE BjDataPackage ---------------------------
(***************************************************************************)
(* The package codec of the boards: BjDataPackage of src/EC/App, and of    *)
(* the earlier FarsUnoTest in src/EC/main, which leaves the checksum out.  *)
(*                                                                         *)
(*   | SOF | checksum | rest | module | ip | size | payload | EOF |        *)
(*      1    CrcSize     1       1      4     1       size      1          *)
(***************************************************************************)
EXTENDS Integers, Sequences

CONSTANT CrcSize      \* E_REST_REQUEST - 1: 4 on the board, 0 in FarsUnoTest

ASSUME CrcAssumption == CrcSize \in Nat

Byte == 0 .. 255

SofVal == 92
EofVal == 197

MaxPayloadSize    == 255
PackageHeaderSize == 13

\* What setPayload() takes.
Payloads == {p \in Seq(Byte) : Len(p) < MaxPayloadSize}

PackageType == [rest : Byte, module : Byte, ip : [1 .. 4 -> Byte], payload : Payloads]

Zeros(n) == [i \in 1 .. n |-> 0]

\* setRawPayload()
Header(pkg) == <<SofVal>> \o Zeros(CrcSize) \o <<pkg.rest, pkg.module>>
                   \o pkg.ip \o <<Len(pkg.payload)>>

Encode(pkg) == Header(pkg) \o pkg.payload \o <<EofVal>>

\* getRawPayloadSize(): without a checksum, more than setRawPayload() has set.
RawSize(pkg) == Len(pkg.payload) + PackageHeaderSize

\* A decoder that would take the last byte of the address for the size.
DecodeShifted(raw) ==
    [rest    |-> raw[CrcSize + 2],
     module  |-> raw[CrcSize + 3],
     ip      |-> [i \in 1 .. 4 |-> raw[CrcSize + 3 + i]],
     payload |-> [i \in 1 .. raw[CrcSize + 7] |-> raw[CrcSize + 8 + i]]]

\* setPkgFromRawPayload(), of a buffer that it does not find too short.  It
\* looks at neither SOF nor EOF, and takes the size from the package.
Decode(raw) ==
    [rest    |-> raw[CrcSize + 2],
     module  |-> raw[CrcSize + 3],
     ip      |-> [i \in 1 .. 4 |-> raw[CrcSize + 3 + i]],
     payload |-> [i \in 1 .. raw[CrcSize + 8] |-> raw[CrcSize + 8 + i]]]

\* A byte of m_payload, which the constructor clears.
ByteAt(p, k) == IF k < Len(p) THEN p[k + 1] ELSE 0

=============================================================================
