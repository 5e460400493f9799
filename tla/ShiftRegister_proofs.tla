------------------------ MODULE ShiftRegister_proofs ------------------------
(* For any number of registers of any width: the driver reads a snapshot. *)
EXTENDS ShiftRegister, TLAPS

LEMMA ShiftedType ==
    ASSUME TypeOK, NEW serialIn \in Bit
    PROVE  Shifted(serialIn) \in Word
<1>1. \A r \in Reg, b \in Pin :
        /\ b > 0 => chain[r][b - 1] \in Bit
        /\ r + 1 \in Reg => chain[r + 1][BitsPerShiftReg - 1] \in Bit
  BY ShiftRegisterAssumption DEF TypeOK, Word, Reg, Pin
<1> QED
  BY <1>1 DEF Shifted, Word

LEMMA QHType == ASSUME TypeOK PROVE QH \in Bit
  BY ShiftRegisterAssumption DEF TypeOK, Word, Reg, Pin, QH

LEMMA StoredType ==
    ASSUME TypeOK, NEW r \in Reg, NEW b \in Pin, NEW v \in Bit
    PROVE  [buffer EXCEPT ![r][b] = v] \in Word
  BY DEF TypeOK, Word

LEMMA ClearedType ==
    ASSUME TypeOK, NEW r \in Reg
    PROVE  [buffer EXCEPT ![r] = [b \in Pin |-> 0]] \in Word
  BY DEF TypeOK, Word, Bit

\* Where the two loops can be: what makes TypeOK inductive.
InLoops ==
    /\ spc = "pulse" => reg < NumOfShiftReg /\ bit < BitsPerShiftReg
    /\ reg = NumOfShiftReg => bit = 0

LEMMA TypeInit == Init => TypeOK /\ InLoops
  BY ShiftRegisterAssumption DEF Init, TypeOK, InLoops, Bit

LEMMA LoopsStep == TypeOK /\ InLoops /\ [Next]_srVars => InLoops'
  BY ShiftRegisterAssumption
  DEF TypeOK, InLoops, Next, Driver, srVars, CupsMove, LoadBegins, LoadEnds,
      ReadBit, Pulse, NextByte, ReadReturns

LEMMA TypeStep == TypeOK /\ InLoops /\ [Next]_srVars => TypeOK'
<1> SUFFICES ASSUME TypeOK, InLoops, [Next]_srVars PROVE TypeOK'
  OBVIOUS
<1> USE ShiftRegisterAssumption
<1>1. CASE CupsMove
  BY <1>1 DEF CupsMove, TypeOK
<1>2. CASE LoadBegins
  BY <1>2 DEF LoadBegins, TypeOK, Bit
<1>3. CASE LoadEnds
  <2>1. 0 \in Reg
    BY DEF Reg
  <2>2. buffer' \in Word
    BY <1>3, <2>1, ClearedType DEF LoadEnds
  <2> QED
    BY <1>3, <2>2 DEF LoadEnds, TypeOK, Bit
<1>4. CASE ReadBit
  <2>1. reg \in Reg /\ BitsPerShiftReg - 1 - bit \in Pin
    BY <1>4 DEF ReadBit, TypeOK, Reg, Pin
  <2>2. buffer' \in Word
    BY <1>4, <2>1, QHType, StoredType DEF ReadBit
  <2> QED
    BY <1>4, <2>2 DEF ReadBit, TypeOK
<1>5. CASE Pulse
  <2>1. chain' \in Word
    BY <1>5, ShiftedType DEF Pulse, TypeOK
  <2> QED
    BY <1>5, <2>1 DEF Pulse, TypeOK, InLoops
<1>6. CASE NextByte
  <2>1. buffer' \in Word
    BY <1>6, ClearedType DEF NextByte, TypeOK
  <2>2. reg' \in 0 .. NumOfShiftReg /\ bit' \in 0 .. BitsPerShiftReg
    BY <1>6 DEF NextByte, TypeOK, InLoops
  <2> QED
    BY <1>6, <2>1, <2>2 DEF NextByte, TypeOK
<1>7. CASE ReadReturns
  BY <1>7 DEF ReadReturns, TypeOK
<1>8. CASE UNCHANGED srVars
  BY <1>8 DEF srVars, TypeOK
<1> QED
  BY <1>1, <1>2, <1>3, <1>4, <1>5, <1>6, <1>7, <1>8 DEF Next, Driver

\* Every variable of the driver keeps its type: no byte is stored outside
\* the caller's buffer.
THEOREM DriverTypeCorrect == Spec => []TypeOK
<1>1. Init => TypeOK /\ InLoops
  BY TypeInit
<1>2. TypeOK /\ InLoops /\ [Next]_srVars => (TypeOK /\ InLoops)'
  BY TypeStep, LoopsStep
<1> QED
  BY <1>1, <1>2, PTL DEF Spec

------------------------------------------------------------------------------
(* The bits keep their order                                               *)

\* The registers follow the inputs until they are read, and not while they
\* are.
Held ==
    /\ spc = "load" => sdLd = 0 /\ chain = inputs
    /\ spc \in {"read", "pulse"} => sdLd = 1

LEMMA HeldStep == Held /\ [Next]_srVars => Held'
  BY DEF Held, Next, Driver, srVars, CupsMove, LoadBegins, LoadEnds, ReadBit,
         Pulse, NextByte, ReadReturns

\* What Shifted() puts in each place.
LEMMA ShiftedValue ==
    ASSUME NEW serialIn, NEW r \in Reg, NEW b \in Pin
    PROVE  /\ b > 0 => Shifted(serialIn)[r][b] = chain[r][b - 1]
           /\ b = 0 /\ r + 1 \in Reg =>
                Shifted(serialIn)[r][b] = chain[r + 1][BitsPerShiftReg - 1]
  BY ShiftRegisterAssumption DEF Shifted, Reg, Pin

LEMMA AheadStep ==
    ASSUME TypeOK, InLoops, Held, BitsAhead, [Next]_srVars
    PROVE  BitsAhead'
<1> USE ShiftRegisterAssumption
<1>1. CASE CupsMove
  BY <1>1 DEF CupsMove, BitsAhead, Held
<1>2. CASE LoadBegins
  BY <1>2 DEF LoadBegins, BitsAhead
<1>3. CASE LoadEnds
  <2>1. chain = inputs
    BY <1>3 DEF LoadEnds, Held
  <2> QED
    BY <1>3, <2>1 DEF LoadEnds, BitsAhead, Reg, Pin
<1>4. CASE ReadBit
  BY <1>4 DEF ReadBit, BitsAhead
<1>5. CASE Pulse
  <2>1. PICK serialIn \in Bit : chain' = Shifted(serialIn)
    BY <1>5 DEF Pulse, Held
  <2> SUFFICES ASSUME NEW r \in Reg, NEW b \in Pin
               PROVE  /\ r + reg \in Reg /\ b >= bit + 1 =>
                           chain'[r][b] = latched[r + reg][b - (bit + 1)]
                      /\ r + reg + 1 \in Reg /\ b < bit + 1 =>
                           chain'[r][b] =
                             latched[r + reg + 1][BitsPerShiftReg + b - (bit + 1)]
    BY <1>5 DEF Pulse, BitsAhead
  <2>2. bit < BitsPerShiftReg /\ bit \in Nat /\ reg \in Nat
    BY <1>5 DEF Pulse, InLoops, TypeOK
  <2>3. ASSUME NEW q \in Reg, NEW c \in Pin
        PROVE  /\ q + reg \in Reg /\ c >= bit =>
                    chain[q][c] = latched[q + reg][c - bit]
               /\ q + reg + 1 \in Reg /\ c < bit =>
                    chain[q][c] = latched[q + reg + 1][BitsPerShiftReg + c - bit]
    BY <1>5 DEF Pulse, BitsAhead
  <2>4. CASE b > 0
    <3>1. b - 1 \in Pin
      BY <2>4 DEF Pin
    <3> QED
      BY <2>1, <2>2, <2>3, <2>4, <3>1, ShiftedValue DEF Pin, Reg
  <2>5. CASE b = 0
    <3>1. ASSUME r + reg + 1 \in Reg
          PROVE  r + 1 \in Reg /\ BitsPerShiftReg - 1 \in Pin
      BY <2>2, <3>1 DEF Reg, Pin
    <3>2. ASSUME r + reg + 1 \in Reg
          PROVE  chain[r + 1][BitsPerShiftReg - 1]
                   = latched[r + 1 + reg][BitsPerShiftReg - 1 - bit]
      <4>1. r + 1 + reg \in Reg /\ BitsPerShiftReg - 1 >= bit
        BY <2>2, <3>2 DEF Reg
      <4> QED
        BY <2>3, <3>1, <3>2, <4>1
    <3> QED
      BY <2>1, <2>2, <2>5, <3>1, <3>2, ShiftedValue DEF Pin, Reg
  <2> QED
    BY <2>4, <2>5 DEF Pin
<1>6. CASE NextByte
  BY <1>6 DEF NextByte, BitsAhead, TypeOK, Reg, Pin
<1>7. CASE ReadReturns
  BY <1>7 DEF ReadReturns, BitsAhead
<1>8. CASE UNCHANGED srVars
  BY <1>8 DEF srVars, BitsAhead
<1> QED
  BY <1>1, <1>2, <1>3, <1>4, <1>5, <1>6, <1>7, <1>8 DEF Next, Driver

LEMMA StoredStep ==
    ASSUME TypeOK, InLoops, BitsAhead, BitsStored, [Next]_srVars
    PROVE  BitsStored'
<1> USE ShiftRegisterAssumption
<1>1. CASE CupsMove
  BY <1>1 DEF CupsMove, BitsStored
<1>2. CASE LoadBegins
  BY <1>2 DEF LoadBegins, BitsStored
<1>3. CASE LoadEnds
  BY <1>3 DEF LoadEnds, BitsStored, Reg, Pin
<1>4. CASE ReadBit
  <2>1. reg \in Reg /\ BitsPerShiftReg - 1 - bit \in Pin /\ bit \in Nat
    BY <1>4 DEF ReadBit, TypeOK, Reg, Pin
  <2>2. QH = latched[reg][BitsPerShiftReg - 1 - bit]
    <3>1. 0 \in Reg /\ BitsPerShiftReg - 1 \in Pin /\ 0 + reg \in Reg
      BY <2>1 DEF Reg, Pin
    <3>2. BitsPerShiftReg - 1 >= bit
      BY <1>4 DEF ReadBit, TypeOK
    <3> QED
      BY <1>4, <2>1, <3>1, <3>2 DEF ReadBit, BitsAhead, QH, Reg, Pin
  <2>3. ASSUME NEW r \in Reg, NEW b \in Pin,
               r < reg \/ (r = reg /\ b >= BitsPerShiftReg - bit)
        PROVE  buffer[r][b] = latched[r][b]
    BY <1>4, <2>3 DEF ReadBit, BitsStored
  <2>4. ASSUME NEW r \in Reg, NEW b \in Pin
        PROVE  buffer'[r][b] = IF r = reg /\ b = BitsPerShiftReg - 1 - bit
                               THEN QH ELSE buffer[r][b]
    BY <1>4, <2>1 DEF ReadBit, TypeOK, Word
  <2>5. ASSUME NEW r \in Reg, NEW b \in Pin,
               r < reg \/ (r = reg /\ b >= BitsPerShiftReg - (bit + 1))
        PROVE  buffer'[r][b] = latched[r][b]
    BY <2>1, <2>2, <2>3, <2>4, <2>5 DEF Reg, Pin
  <2> QED
    BY <1>4, <2>5 DEF ReadBit, BitsStored
<1>5. CASE Pulse
  BY <1>5 DEF Pulse, BitsStored
<1>6. CASE NextByte
  <2>1. reg \in Nat
    BY DEF TypeOK
  <2>2. ASSUME NEW r \in Reg, NEW b \in Pin, r < reg + 1
        PROVE  buffer[r][b] = latched[r][b]
    BY <1>6, <2>1, <2>2 DEF NextByte, BitsStored, Reg, Pin
  <2>3. ASSUME NEW r \in Reg, NEW b \in Pin, r < reg + 1
        PROVE  buffer'[r][b] = buffer[r][b]
    BY <1>6, <2>1, <2>3 DEF NextByte, TypeOK, Word, Reg
  <2> QED
    BY <1>6, <2>1, <2>2, <2>3 DEF NextByte, BitsStored, Reg, Pin
<1>7. CASE ReadReturns
  BY <1>7 DEF ReadReturns, BitsStored
<1>8. CASE UNCHANGED srVars
  BY <1>8 DEF srVars, BitsStored
<1> QED
  BY <1>1, <1>2, <1>3, <1>4, <1>5, <1>6, <1>7, <1>8 DEF Next, Driver

\* The inductive invariant of the driver.
DriverInv == TypeOK /\ InLoops /\ Held /\ BitsInOrder

LEMMA DriverInvariant == Spec => []DriverInv
<1>1. Init => DriverInv
  <2>1. Init => Held /\ BitsInOrder
    BY ShiftRegisterAssumption
    DEF Init, Held, BitsInOrder, BitsAhead, BitsStored, Reg, Pin
  <2> QED
    BY <2>1, TypeInit DEF DriverInv
<1>2. DriverInv /\ [Next]_srVars => DriverInv'
  BY TypeStep, LoopsStep, HeldStep, AheadStep, StoredStep DEF DriverInv, BitsInOrder
<1> QED
  BY <1>1, <1>2, PTL DEF Spec

\* The clock, the registers and the buffer never get out of step: every bit
\* loaded is on its way to QH or in its place.
THEOREM BitsKeepOrder == Spec => []BitsInOrder
  BY DriverInvariant, PTL DEF DriverInv

------------------------------------------------------------------------------
(* The driver implements the snapshot                                      *)

\* When a call returns, all of its buffer is what was loaded for it.
LEMMA ReadIsWhole ==
    ASSUME DriverInv, ReadReturns
    PROVE  buffer = latched
<1>1. \A r \in Reg, b \in Pin : buffer[r][b] = latched[r][b]
  BY ShiftRegisterAssumption DEF ReadReturns, DriverInv, BitsInOrder, BitsStored, Reg
<1>2. buffer \in Word /\ latched \in Word
  BY DEF DriverInv, TypeOK
<1>3. \A r \in Reg : buffer[r] = latched[r]
  BY <1>1, <1>2 DEF Word
<1> QED
  BY <1>2, <1>3 DEF Word

LEMMA SnapshotStep ==
    ASSUME DriverInv, [Next]_srVars
    PROVE  [Snapshot!SnapshotNext]_(Snapshot!snapshotVars)
<1> USE ShiftRegisterAssumption DEF Snapshot!SnapshotNext, Snapshot!snapshotVars
<1>1. CASE CupsMove
  <2>1. inputs' \in Word
    BY <1>1 DEF CupsMove
  <2> QED
    BY <1>1, <2>1 DEF CupsMove, Snapshot!CupsMove
<1>2. CASE LoadBegins
  BY <1>2 DEF LoadBegins, Snapshot!Call
<1>3. CASE LoadEnds
  BY <1>3 DEF LoadEnds, Snapshot!Take
<1>4. CASE ReadBit
  BY <1>4 DEF ReadBit
<1>5. CASE Pulse
  BY <1>5 DEF Pulse
<1>6. CASE NextByte
  BY <1>6 DEF NextByte
<1>7. CASE ReadReturns
  <2>1. buffer = latched
    BY <1>7, ReadIsWhole
  <2>2. latched # NoReading
    BY DEF DriverInv, TypeOK
  <2> QED
    BY <1>7, <2>1, <2>2 DEF ReadReturns, Snapshot!Return
<1>8. CASE UNCHANGED srVars
  BY <1>8 DEF srVars
<1> QED
  BY <1>1, <1>2, <1>3, <1>4, <1>5, <1>6, <1>7, <1>8 DEF Next, Driver

\* A read of the sensors is one state of all of them, whatever the cups do
\* while the bits are clocked out.
THEOREM ReadsAreSnapshots == Spec => ImplementsSnapshot
<1>1. Init => Snapshot!SnapshotInit
  BY ShiftRegisterAssumption DEF Init, Snapshot!SnapshotInit
<1>2. DriverInv /\ [Next]_srVars => [Snapshot!SnapshotNext]_(Snapshot!snapshotVars)
  BY SnapshotStep
<1> QED
  BY <1>1, <1>2, DriverInvariant, PTL
  DEF Spec, ImplementsSnapshot, Snapshot!SnapshotSpec

=============================================================================
