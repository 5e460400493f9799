------------------------ MODULE BjDataPackage_proofs ------------------------
(***************************************************************************)
(* What was encoded is decoded, with a checksum of any size, and though    *)
(* the buffer goes on after the package.                                   *)
(***************************************************************************)
EXTENDS BjDataPackage, SequenceTheorems, TLAPS

\* Functions on 1 .. n are sequences.
LEMMA Tuple ==
    ASSUME NEW n \in Nat, NEW f \in [1 .. n -> Byte]
    PROVE  f \in Seq(Byte) /\ Len(f) = n
<1>1. f \in Seq(Byte)  BY SeqDef
<1>2. DOMAIN f = 1 .. Len(f) /\ Len(f) \in Nat  BY <1>1, LenProperties
<1>3. 1 .. Len(f) = 1 .. n  BY <1>2
<1> QED  BY <1>1, <1>2, <1>3

\* What \o puts where.
LEMMA Joined ==
    \A s, t \in Seq(Byte), a, b \in Nat :
        Len(s) = a /\ Len(t) = b =>
            /\ s \o t \in Seq(Byte)
            /\ Len(s \o t) = a + b
            /\ \A i \in 1 .. a : (s \o t)[i] = s[i]
            /\ \A i \in 1 .. b : (s \o t)[a + i] = t[i]
<1> SUFFICES ASSUME NEW s \in Seq(Byte), NEW t \in Seq(Byte),
                    NEW a \in Nat, NEW b \in Nat, Len(s) = a, Len(t) = b
             PROVE  /\ s \o t \in Seq(Byte)
                    /\ Len(s \o t) = a + b
                    /\ \A i \in 1 .. a : (s \o t)[i] = s[i]
                    /\ \A i \in 1 .. b : (s \o t)[a + i] = t[i]
  OBVIOUS
<1>1. /\ s \o t \in Seq(Byte)
      /\ Len(s \o t) = a + b
      /\ \A i \in 1 .. a + b :
            (s \o t)[i] = IF i <= a THEN s[i] ELSE t[i - a]
  BY ConcatProperties
<1>2. \A i \in 1 .. a : (s \o t)[i] = s[i]
  BY <1>1
<1>3. ASSUME NEW i \in 1 .. b
      PROVE  (s \o t)[a + i] = t[i]
  <2>1. a + i \in 1 .. a + b /\ ~(a + i <= a) /\ a + i - a = i
    OBVIOUS
  <2> QED  BY <1>1, <2>1
<1> QED  BY <1>1, <1>2, <1>3

\* Where setRawPayload() puts the fields.
LEMMA Layout ==
    ASSUME NEW pkg \in PackageType
    PROVE  /\ Encode(pkg) \in Seq(Byte)
           /\ Len(Encode(pkg)) = CrcSize + 9 + Len(pkg.payload)
           /\ Encode(pkg)[CrcSize + 2] = pkg.rest
           /\ Encode(pkg)[CrcSize + 3] = pkg.module
           /\ \A i \in 1 .. 4 : Encode(pkg)[CrcSize + 3 + i] = pkg.ip[i]
           /\ Encode(pkg)[CrcSize + 8] = Len(pkg.payload)
           /\ \A i \in 1 .. Len(pkg.payload) : Encode(pkg)[CrcSize + 8 + i] = pkg.payload[i]
<1> DEFINE n  == CrcSize
           t1 == <<SofVal>>
           t2 == Zeros(n)
           t3 == <<pkg.rest, pkg.module>>
           t5 == <<Len(pkg.payload)>>
           t7 == <<EofVal>>
           s2 == t1 \o t2
           s3 == s2 \o t3
           s4 == s3 \o pkg.ip
           s5 == s4 \o t5
           s6 == s5 \o pkg.payload
           s7 == s6 \o t7
<1>1. n \in Nat  BY CrcAssumption
<1>2. t1 \in Seq(Byte) /\ Len(t1) = 1  BY DEF SofVal, Byte
<1>3. t2 \in Seq(Byte) /\ Len(t2) = n
  <2>1. t2 \in [1 .. n -> Byte]  BY DEF Zeros, Byte
  <2> QED  BY <1>1, <2>1, Tuple
<1>4. /\ t3 \in Seq(Byte) /\ Len(t3) = 2
      /\ t3[1] = pkg.rest /\ t3[2] = pkg.module
  BY DEF PackageType
<1>5. pkg.ip \in Seq(Byte) /\ Len(pkg.ip) = 4
  <2>1. pkg.ip \in [1 .. 4 -> Byte] /\ 4 \in Nat  BY DEF PackageType
  <2> QED  BY <2>1, Tuple
<1>6. pkg.payload \in Seq(Byte) /\ Len(pkg.payload) \in Byte
  <2>1. pkg.payload \in Seq(Byte) /\ Len(pkg.payload) < 255
    BY DEF PackageType, Payloads, MaxPayloadSize
  <2>2. Len(pkg.payload) \in Nat  BY <2>1
  <2>3. \A k \in Nat : k < 255 => k \in 0 .. 255  OBVIOUS
  <2> QED  BY <2>1, <2>2, <2>3 DEF Byte
<1>7. t5 \in Seq(Byte) /\ Len(t5) = 1 /\ t5[1] = Len(pkg.payload)  BY <1>6
<1>8. t7 \in Seq(Byte) /\ Len(t7) = 1  BY DEF EofVal, Byte
<1>size. PICK size \in Nat : size = Len(pkg.payload)  BY <1>6
<1> HIDE DEF n, t1, t2, t3, t5, t7, s2, s3, s4, s5, s6, s7
<1>9. s2 \in Seq(Byte) /\ Len(s2) = n + 1
  <2>1. 1 \in Nat  OBVIOUS
  <2>2. \A b \in Nat : Len(t1) = 1 /\ Len(t2) = b =>
            /\ t1 \o t2 \in Seq(Byte)
            /\ Len(t1 \o t2) = (1) + b
            /\ \A i \in 1 .. 1 : (t1 \o t2)[i] = t1[i]
            /\ \A i \in 1 .. b : (t1 \o t2)[(1) + i] = t2[i]
    BY <1>1, <1>2, <1>3, <2>1, Joined
  <2>3. /\ s2 \in Seq(Byte) /\ Len(s2) = (1) + n
        /\ \A i \in 1 .. 1 : s2[i] = t1[i]
        /\ \A i \in 1 .. n : s2[(1) + i] = t2[i]
    BY <1>1, <1>2, <1>3, <2>2 DEF s2
  <2> QED  BY <1>1, <2>3
<1>10. /\ s3 \in Seq(Byte) /\ Len(s3) = n + 3
       /\ s3[n + 2] = pkg.rest /\ s3[n + 3] = pkg.module
  <2>1. n + 1 \in Nat  BY <1>1
  <2>2. \A b \in Nat : Len(s2) = n + 1 /\ Len(t3) = b =>
            /\ s2 \o t3 \in Seq(Byte)
            /\ Len(s2 \o t3) = (n + 1) + b
            /\ \A i \in 1 .. n + 1 : (s2 \o t3)[i] = s2[i]
            /\ \A i \in 1 .. b : (s2 \o t3)[(n + 1) + i] = t3[i]
    BY <1>4, <1>9, <2>1, Joined
  <2>3. /\ s3 \in Seq(Byte) /\ Len(s3) = (n + 1) + 2
        /\ \A i \in 1 .. n + 1 : s3[i] = s2[i]
        /\ \A i \in 1 .. 2 : s3[(n + 1) + i] = t3[i]
    BY <1>4, <1>9, <2>2 DEF s3
  <2>4. s3[(n + 1) + 1] = t3[1] /\ s3[(n + 1) + 2] = t3[2]
    BY <2>3
  <2>5. (n + 1) + 1 = n + 2 /\ (n + 1) + 2 = n + 3
    BY <1>1
  <2> QED  BY <1>4, <2>3, <2>4, <2>5
<1>11. /\ s4 \in Seq(Byte) /\ Len(s4) = n + 7
       /\ \A i \in 1 .. n + 3 : s4[i] = s3[i]
       /\ \A i \in 1 .. 4 : s4[n + 3 + i] = pkg.ip[i]
  <2>1. n + 3 \in Nat /\ n + 3 + 4 = n + 7  BY <1>1
  <2>2. \A b \in Nat : Len(s3) = n + 3 /\ Len(pkg.ip) = b =>
            /\ s3 \o pkg.ip \in Seq(Byte)
            /\ Len(s3 \o pkg.ip) = (n + 3) + b
            /\ \A i \in 1 .. n + 3 : (s3 \o pkg.ip)[i] = s3[i]
            /\ \A i \in 1 .. b : (s3 \o pkg.ip)[(n + 3) + i] = pkg.ip[i]
    BY <1>5, <1>10, <2>1, Joined
  <2>3. /\ s4 \in Seq(Byte) /\ Len(s4) = (n + 3) + 4
        /\ \A i \in 1 .. n + 3 : s4[i] = s3[i]
        /\ \A i \in 1 .. 4 : s4[(n + 3) + i] = pkg.ip[i]
    BY <1>5, <1>10, <2>2 DEF s4
  <2> QED  BY <2>1, <2>3
<1>12. /\ s5 \in Seq(Byte) /\ Len(s5) = n + 8
       /\ \A i \in 1 .. n + 7 : s5[i] = s4[i]
       /\ s5[n + 8] = Len(pkg.payload)
  <2>1. n + 7 \in Nat /\ (n + 7) + 1 = n + 8  BY <1>1
  <2>2. \A b \in Nat : Len(s4) = n + 7 /\ Len(t5) = b =>
            /\ s4 \o t5 \in Seq(Byte)
            /\ Len(s4 \o t5) = (n + 7) + b
            /\ \A i \in 1 .. n + 7 : (s4 \o t5)[i] = s4[i]
            /\ \A i \in 1 .. b : (s4 \o t5)[(n + 7) + i] = t5[i]
    BY <1>7, <1>11, <2>1, Joined
  <2>3. /\ s5 \in Seq(Byte) /\ Len(s5) = (n + 7) + 1
        /\ \A i \in 1 .. n + 7 : s5[i] = s4[i]
        /\ \A i \in 1 .. 1 : s5[(n + 7) + i] = t5[i]
    BY <1>7, <1>11, <2>2 DEF s5
  <2>4. s5[(n + 7) + 1] = t5[1]  BY <2>3
  <2> QED  BY <1>7, <2>1, <2>3, <2>4
<1>13. /\ s6 \in Seq(Byte) /\ Len(s6) = n + 8 + size
       /\ \A i \in 1 .. n + 8 : s6[i] = s5[i]
       /\ \A i \in 1 .. size : s6[n + 8 + i] = pkg.payload[i]
  <2>1. n + 8 \in Nat  BY <1>1
  <2> PICK p \in Seq(Byte) : p = pkg.payload  BY <1>6
  <2>2. \A b \in Nat : Len(s5) = n + 8 /\ Len(p) = b =>
            /\ s5 \o p \in Seq(Byte)
            /\ Len(s5 \o p) = (n + 8) + b
            /\ \A i \in 1 .. n + 8 : (s5 \o p)[i] = s5[i]
            /\ \A i \in 1 .. b : (s5 \o p)[(n + 8) + i] = p[i]
    BY <1>12, <2>1, Joined
  <2>3. /\ s6 \in Seq(Byte) /\ Len(s6) = (n + 8) + size
        /\ \A i \in 1 .. n + 8 : s6[i] = s5[i]
        /\ \A i \in 1 .. size : s6[(n + 8) + i] = p[i]
    BY <1>size, <1>12, <2>2 DEF s6
  <2> QED  BY <2>3
<1>14. /\ s7 \in Seq(Byte) /\ Len(s7) = n + 9 + size
       /\ \A i \in 1 .. n + 8 + size : s7[i] = s6[i]
  <2>1. n + 8 + size \in Nat /\ (n + 8 + size) + 1 = n + 9 + size  BY <1>1
  <2>2. \A b \in Nat : Len(s6) = n + 8 + size /\ Len(t7) = b =>
            /\ s6 \o t7 \in Seq(Byte)
            /\ Len(s6 \o t7) = (n + 8 + size) + b
            /\ \A i \in 1 .. n + 8 + size : (s6 \o t7)[i] = s6[i]
            /\ \A i \in 1 .. b : (s6 \o t7)[(n + 8 + size) + i] = t7[i]
    BY <1>8, <1>13, <2>1, Joined
  <2>3. /\ s7 \in Seq(Byte) /\ Len(s7) = (n + 8 + size) + 1
        /\ \A i \in 1 .. n + 8 + size : s7[i] = s6[i]
        /\ \A i \in 1 .. 1 : s7[(n + 8 + size) + i] = t7[i]
    BY <1>8, <1>13, <2>2 DEF s7
  <2> QED  BY <2>1, <2>3
<1>15. s7 = Encode(pkg)
  BY DEF Encode, Header, n, s2, s3, s4, s5, s6, s7, t1, t2, t3, t5, t7
<1>16. \A k \in 1 .. n + 3 : s7[k] = s3[k]
  BY <1>1, <1>11, <1>12, <1>13, <1>14
<1>17. s7[n + 2] = pkg.rest /\ s7[n + 3] = pkg.module
  <2>1. n + 2 \in 1 .. n + 3 /\ n + 3 \in 1 .. n + 3  BY <1>1
  <2> QED  BY <1>10, <1>16, <2>1
<1>18. ASSUME NEW i \in 1 .. 4 PROVE s7[n + 3 + i] = pkg.ip[i]
  <2>1. /\ n + 3 + i \in 1 .. n + 7
        /\ n + 3 + i \in 1 .. n + 8
        /\ n + 3 + i \in 1 .. n + 8 + size
    BY <1>1
  <2>2. s7[n + 3 + i] = s4[n + 3 + i]  BY <1>12, <1>13, <1>14, <2>1
  <2> QED  BY <1>11, <2>2
<1>19. s7[n + 8] = Len(pkg.payload)
  <2>1. n + 8 \in 1 .. n + 8 /\ n + 8 \in 1 .. n + 8 + size  BY <1>1
  <2> QED  BY <1>12, <1>13, <1>14, <2>1
<1>20. ASSUME NEW i \in 1 .. size PROVE s7[n + 8 + i] = pkg.payload[i]
  <2>1. n + 8 + i \in 1 .. n + 8 + size  BY <1>1
  <2> QED  BY <1>13, <1>14, <2>1
<1> QED  BY <1>size, <1>14, <1>15, <1>17, <1>18, <1>19, <1>20 DEF n

\* setPkgFromRawPayload() returns what setRawPayload() was given, from a buffer
\* that begins with the package, whatever comes after it and however wide the
\* checksum is.
THEOREM DecodeEncode ==
    ASSUME NEW pkg \in PackageType, NEW raw \in Seq(Byte),
           Len(raw) >= Len(Encode(pkg)),
           \A i \in 1 .. Len(Encode(pkg)) : raw[i] = Encode(pkg)[i]
    PROVE  Decode(raw) = pkg
<1> DEFINE n == CrcSize
<1>1. n \in Nat  BY CrcAssumption
<1>2. PICK size \in Nat : size = Len(pkg.payload)
  BY DEF PackageType, Payloads
<1>3. /\ \A i \in 1 .. n + 9 + size : raw[i] = Encode(pkg)[i]
      /\ Encode(pkg)[n + 2] = pkg.rest
      /\ Encode(pkg)[n + 3] = pkg.module
      /\ Encode(pkg)[n + 8] = size
      /\ \A i \in 1 .. 4 : Encode(pkg)[n + 3 + i] = pkg.ip[i]
      /\ \A i \in 1 .. size : Encode(pkg)[n + 8 + i] = pkg.payload[i]
  BY <1>2, Layout
<1> HIDE DEF n
<1>4. raw[n + 2] = pkg.rest /\ raw[n + 3] = pkg.module /\ raw[n + 8] = size
  <2>1. /\ n + 2 \in 1 .. n + 9 + size
        /\ n + 3 \in 1 .. n + 9 + size
        /\ n + 8 \in 1 .. n + 9 + size
    BY <1>1
  <2> QED  BY <1>3, <2>1
<1>5. [i \in 1 .. 4 |-> raw[n + 3 + i]] = pkg.ip
  <2>1. ASSUME NEW i \in 1 .. 4 PROVE raw[n + 3 + i] = pkg.ip[i]
    <3>1. n + 3 + i \in 1 .. n + 9 + size  BY <1>1
    <3> QED  BY <1>3, <3>1
  <2>2. pkg.ip \in [1 .. 4 -> Byte]  BY DEF PackageType
  <2> QED  BY <2>1, <2>2
<1>6. [i \in 1 .. size |-> raw[n + 8 + i]] = pkg.payload
  <2>1. ASSUME NEW i \in 1 .. size PROVE raw[n + 8 + i] = pkg.payload[i]
    <3>1. n + 8 + i \in 1 .. n + 9 + size  BY <1>1
    <3> QED  BY <1>3, <3>1
  <2>2. pkg.payload \in [1 .. size -> Byte]
    BY <1>2, LenProperties DEF PackageType, Payloads
  <2> QED  BY <2>1, <2>2
<1>7. pkg = [rest |-> pkg.rest, module |-> pkg.module, ip |-> pkg.ip, payload |-> pkg.payload]
  BY DEF PackageType
<1>8. Decode(raw) = [rest |-> pkg.rest, module |-> pkg.module, ip |-> pkg.ip, payload |-> pkg.payload]
  BY <1>4, <1>5, <1>6 DEF Decode, n
<1> QED  BY <1>7, <1>8

\* The bytes of a package tell where it ends: no buffer begins with two
\* packages, be one of them the start of the other (setPkgFromRawPayload(),
\* which looks for no EOF).
THEOREM OnePackageBegins ==
    ASSUME NEW p \in PackageType, NEW q \in PackageType, NEW raw \in Seq(Byte),
           Len(raw) >= Len(Encode(p)), Len(raw) >= Len(Encode(q)),
           \A i \in 1 .. Len(Encode(p)) : raw[i] = Encode(p)[i],
           \A i \in 1 .. Len(Encode(q)) : raw[i] = Encode(q)[i]
    PROVE  p = q
<1>1. Decode(raw) = p  BY DecodeEncode
<1>2. Decode(raw) = q  BY DecodeEncode
<1> QED  BY <1>1, <1>2

\* getRawPayloadSize() is what setRawPayload() has set only if the checksum
\* takes four bytes: without one, four bytes more are sent than were set.
THEOREM RawSizeCountsChecksum ==
    ASSUME NEW pkg \in PackageType
    PROVE  RawSize(pkg) = Len(Encode(pkg)) + 4 - CrcSize
<1>1. Len(Encode(pkg)) = CrcSize + 9 + Len(pkg.payload)
  BY Layout
<1>2. CrcSize \in Nat /\ Len(pkg.payload) \in Nat
  BY CrcAssumption DEF PackageType, Payloads
<1>3. \A m, n \in Nat : n + 13 = (m + 9 + n) + 4 - m
  OBVIOUS
<1> QED  BY <1>1, <1>2, <1>3 DEF RawSize, PackageHeaderSize

=============================================================================
