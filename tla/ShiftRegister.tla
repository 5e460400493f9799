---------------------------- MODULE ShiftRegister ----------------------------
(***************************************************************************)
(* The driver of the sensors (src/EC/App, sn74hc165.cpp), called by        *)
(* SensorController::read(), and the chain of 74HC165 shift registers it   *)
(* drives through four pins.  Cups are put down and taken away while the   *)
(* driver clocks the bits out, one in 30 microseconds.                     *)
(*                                                                         *)
(* Sensor b of register r is bit b of byte r of the buffer.  The last bit  *)
(* of register 0 is at the pin QH; a clock pulse moves every bit one place *)
(* towards it.                                                             *)
(***************************************************************************)
EXTENDS Integers

CONSTANTS NumOfShiftReg,    \* NUM_OF_SHIFT_REG
          BitsPerShiftReg,  \* SHIFT_REG_BIT_RES
          Readings,         \* bound: the states of the sensors considered
          NoReading         \* no state of the sensors

Reg  == 0 .. NumOfShiftReg - 1
Pin  == 0 .. BitsPerShiftReg - 1
Bit  == {0, 1}
Word == [Reg -> [Pin -> Bit]]

ASSUME ShiftRegisterAssumption ==
    /\ NumOfShiftReg \in Nat \ {0}
    /\ BitsPerShiftReg \in Nat \ {0}
    /\ Readings \subseteq Word
    /\ Readings # {}
    /\ NoReading \notin Word

VARIABLES inputs,   \* the sensors, at the parallel inputs of the registers
          sdLd,     \* the shift/load pin: 0 while the inputs are loaded
          chain,    \* the bits in the registers
          spc,      \* where SN74HC165_Read is
          reg,      \* its ui8ShiftRegIdx
          bit,      \* its i8Bits
          buffer,   \* the caller's buffer
          latched   \* history: the inputs when they were last loaded

srVars == <<inputs, sdLd, chain, spc, reg, bit, buffer, latched>>

\* SN74HC165_Init leaves the registers loading.  The contents of the
\* caller's buffer before the first read are left open.
Init ==
    /\ inputs \in Readings
    /\ sdLd = 0
    /\ chain = inputs
    /\ spc = "idle"
    /\ reg = 0
    /\ bit = 0
    /\ buffer \in Readings
    /\ latched = inputs

TypeOK ==
    /\ inputs \in Word
    /\ sdLd \in Bit
    /\ chain \in Word
    /\ spc \in {"idle", "load", "read", "pulse"}
    /\ reg \in 0 .. NumOfShiftReg
    /\ bit \in 0 .. BitsPerShiftReg
    /\ buffer \in Word
    /\ latched \in Word

------------------------------------------------------------------------------
(* The registers                                                           *)

\* While the pin is low the inputs run through.
CupsMove ==
    /\ inputs' \in Readings
    /\ chain' = IF sdLd = 0 THEN inputs' ELSE chain
    /\ UNCHANGED <<sdLd, spc, reg, bit, buffer, latched>>

\* digitalRead(QH)
QH == chain[0][BitsPerShiftReg - 1]

\* A rising edge of the clock.  What comes in at the far end is not
\* connected.
Shifted(serialIn) ==
    [r \in Reg |-> [b \in Pin |->
        IF b > 0 THEN chain[r][b - 1]
        ELSE IF r + 1 \in Reg THEN chain[r + 1][BitsPerShiftReg - 1]
        ELSE serialIn]]

------------------------------------------------------------------------------
(* SN74HC165_Read                                                          *)

\* The pin is pulled low: the registers load.  The buffer is a new one, and
\* what it holds is left open.
LoadBegins ==
    /\ spc = "idle"
    /\ sdLd' = 0
    /\ chain' = inputs
    /\ spc' = "load"
    /\ buffer' \in Word
    /\ UNCHANGED <<inputs, reg, bit, latched>>

\* A driver that would leave the registers loading.
LoadStays ==
    /\ spc = "load"
    /\ latched' = inputs
    /\ spc' = "read"
    /\ reg' = 0
    /\ bit' = 0
    /\ buffer' = [buffer EXCEPT ![0] = [b \in Pin |-> 0]]
    /\ UNCHANGED <<inputs, sdLd, chain>>

\* 15 microseconds later it is set high; the first byte is cleared.
LoadEnds ==
    /\ spc = "load"
    /\ sdLd' = 1
    /\ latched' = inputs
    /\ spc' = "read"
    /\ reg' = 0
    /\ bit' = 0
    /\ buffer' = [buffer EXCEPT ![0] = [b \in Pin |-> 0]]
    /\ UNCHANGED <<inputs, chain>>

\* A driver that would store the lowest bit first.
ReadBitLowest ==
    /\ spc = "read"
    /\ reg < NumOfShiftReg
    /\ bit < BitsPerShiftReg
    /\ buffer' = [buffer EXCEPT ![reg][bit] = QH]
    /\ spc' = "pulse"
    /\ UNCHANGED <<inputs, sdLd, chain, reg, bit, latched>>

\* The bit at QH is stored, the highest of the byte first.
ReadBit ==
    /\ spc = "read"
    /\ reg < NumOfShiftReg
    /\ bit < BitsPerShiftReg
    /\ buffer' = [buffer EXCEPT ![reg][BitsPerShiftReg - 1 - bit] = QH]
    /\ spc' = "pulse"
    /\ UNCHANGED <<inputs, sdLd, chain, reg, bit, latched>>

\* vPulsePin(clock), and on to the next bit.
Pulse ==
    /\ spc = "pulse"
    /\ IF sdLd = 0 THEN chain' = inputs
                   ELSE \E serialIn \in Bit : chain' = Shifted(serialIn)
    /\ bit' = bit + 1
    /\ spc' = "read"
    /\ UNCHANGED <<inputs, sdLd, reg, buffer, latched>>

\* A driver that would not start the next byte at its first bit.
NextByteKeepsBit ==
    /\ spc = "read"
    /\ bit = BitsPerShiftReg
    /\ reg' = reg + 1
    /\ buffer' = IF reg + 1 \in Reg
                 THEN [buffer EXCEPT ![reg + 1] = [b \in Pin |-> 0]]
                 ELSE buffer
    /\ UNCHANGED <<inputs, sdLd, chain, spc, bit, latched>>

\* The next byte is cleared before its first bit.
NextByte ==
    /\ spc = "read"
    /\ bit = BitsPerShiftReg
    /\ reg' = reg + 1
    /\ bit' = 0
    /\ buffer' = IF reg + 1 \in Reg
                 THEN [buffer EXCEPT ![reg + 1] = [b \in Pin |-> 0]]
                 ELSE buffer
    /\ UNCHANGED <<inputs, sdLd, chain, spc, latched>>

ReadReturns ==
    /\ spc = "read"
    /\ reg = NumOfShiftReg
    /\ spc' = "idle"
    /\ UNCHANGED <<inputs, sdLd, chain, reg, bit, buffer, latched>>

Driver == LoadBegins \/ LoadEnds \/ ReadBit \/ Pulse \/ NextByte \/ ReadReturns

Next == CupsMove \/ Driver

Spec == Init /\ [][Next]_srVars

------------------------------------------------------------------------------
\* The bits still to come are in front of QH in the order in which the
\* registers loaded them.
BitsAhead ==
    spc \in {"read", "pulse"} =>
        \A r \in Reg, b \in Pin :
            /\ r + reg \in Reg /\ b >= bit =>
                 chain[r][b] = latched[r + reg][b - bit]
            /\ r + reg + 1 \in Reg /\ b < bit =>
                 chain[r][b] = latched[r + reg + 1][BitsPerShiftReg + b - bit]

\* The bits read are in their places in the buffer, and after a call all
\* of them are.
BitsStored ==
    LET stored == IF spc = "pulse" THEN bit + 1 ELSE bit
    IN  spc # "load" =>
          \A r \in Reg, b \in Pin :
              r < reg \/ (r = reg /\ b >= BitsPerShiftReg - stored) =>
                  buffer[r][b] = latched[r][b]

\* Every bit loaded is on its way or in its place, in step with the clock.
BitsInOrder == BitsAhead /\ BitsStored

\* The driver implements the snapshot: a call returns one state of the
\* sensors, never bits of one state next to bits of another.
Snapshot == INSTANCE SensorSnapshot
    WITH sample  <- IF spc \in {"read", "pulse"} \/ (spc = "idle" /\ reg = NumOfShiftReg)
                    THEN latched ELSE NoReading,
         reading <- IF spc = "idle" /\ reg = NumOfShiftReg THEN buffer ELSE NoReading
ImplementsSnapshot == Snapshot!SnapshotSpec

=============================================================================
