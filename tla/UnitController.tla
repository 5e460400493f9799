--------------------------- MODULE UnitController ---------------------------
(***************************************************************************)
(* The controller board (src/EC/App): setup() and loop() of the sketch,    *)
(* UnitController::run() and what it calls in SystemController and         *)
(* LightController.  One thread; the cups move and requests arrive at any  *)
(* point of it.  A read of the sensors is one step here: ShiftRegister     *)
(* implements that step.                                                   *)
(*                                                                         *)
(* Sensor s is bit s % BITS_PER_SHIFT_REG of byte s / BITS_PER_SHIFT_REG;  *)
(* the first NUM_OF_CUPS sensors have a cup.  A sensor that reads 1 has no *)
(* cup on it.                                                              *)
(***************************************************************************)
EXTENDS Integers

CONSTANTS NumOfCups,        \* NUM_OF_CUPS
          LedsPerCup,       \* LEDS_PER_CUP
          NumOfShiftReg,    \* NUM_OF_SHIFT_REG, and SHIFT_REG_REQUIRED
          BitsPerShiftReg,  \* BITS_PER_SHIFT_REG
          Request           \* what requests ask for

Cup    == 0 .. NumOfCups - 1
Led    == 0 .. LedsPerCup - 1
Reg    == 0 .. NumOfShiftReg - 1
Pin    == 0 .. BitsPerShiftReg - 1
Sensor == 0 .. NumOfShiftReg * BitsPerShiftReg - 1
Word   == [Reg -> [Pin -> {0, 1}]]

ControllerState == {"idle", "manual", "automatic", "sequence"}

\* What setPkgFromRawPayload takes for a package: PACKAGE_HEADER_SIZE + 1.  A
\* request to the system controller, with one byte of payload, is as long.
MinPackageSize == 14
RequestSize    == 14

\* Each cup takes 4 bytes of a payload whose size is a uint8_t.
ASSUME BoardAssumption ==
    /\ NumOfCups \in 1 .. 63
    /\ LedsPerCup \in Nat \ {0}
    /\ NumOfShiftReg \in Nat \ {0}
    /\ BitsPerShiftReg \in Nat \ {0}
    /\ NumOfCups <= NumOfShiftReg * BitsPerShiftReg
    /\ Request \subseteq ControllerState \cup {"invalid"}
    /\ Request # {}

VARIABLES inputs,       \* the sensors
          rx,           \* bytes in the serial receive buffer
          request       \* the request they belong to

VARIABLES bpc,          \* where run() is
          initRun,      \* its argument
          ctrlState,    \* SystemController::m_ctrlState
          shiftReg,     \* m_sensorValueShiftReg
          new,          \* the static sensorBinaryValues
          old,          \* m_sensorBinaryValues
          cupId,        \* the loop of setLightsFromSensorVals
          led,          \* the loop of runCupRemovedSequence
          lightBuf      \* m_tmpLightCtrlBuffer, a colour for each cup

VARIABLES cupLights,    \* LightController::m_cupLights; a cup has one colour
          shown         \* the pixels: each change of them is sent at once

worldVars == <<inputs, rx, request>>
unitVars  == <<initRun, ctrlState, shiftReg, new, old, cupId, led, lightBuf>>
lightVars == <<cupLights, shown>>
vars      == <<worldVars, bpc, unitVars, lightVars>>

\* Unset: the bytes of a cup that nothing has been written to.
Colour == {"red", "green", "blue", "unset"}

BoardPC == {"test", "sample", "update", "cups", "sequence", "input", "delay"}

Plain(colour) == [c \in Cup |-> [l \in Led |-> colour]]

\* After the constructors of setup(): every light is green, the members of
\* UnitController are 0, but for the light buffer, which nothing clears.
Init ==
    /\ inputs \in Word
    /\ rx = 0
    /\ request \in Request
    /\ bpc = "test"
    /\ initRun = TRUE
    /\ ctrlState = "automatic"
    /\ shiftReg = [r \in Reg |-> [b \in Pin |-> 0]]
    /\ new = [s \in Sensor |-> FALSE]
    /\ old = [s \in Sensor |-> FALSE]
    /\ cupId = 0
    /\ led = 0
    /\ lightBuf = [c \in Cup |-> "unset"]
    /\ cupLights = [c \in Cup |-> "green"]
    /\ shown = Plain("green")

TypeOK ==
    /\ inputs \in Word
    /\ rx \in 0 .. RequestSize
    /\ request \in Request
    /\ bpc \in BoardPC
    /\ initRun \in BOOLEAN
    /\ ctrlState \in ControllerState
    /\ shiftReg \in Word
    /\ new \in [Sensor -> BOOLEAN]
    /\ old \in [Sensor -> BOOLEAN]
    /\ cupId \in 0 .. NumOfCups
    /\ led \in 0 .. LedsPerCup
    /\ lightBuf \in [Cup -> Colour]
    /\ cupLights \in [Cup -> Colour]
    /\ shown \in [Cup -> [Led -> Colour]]

------------------------------------------------------------------------------
(* The world around the board                                              *)

CupMoves ==
    /\ \E r \in Reg, b \in Pin :
         inputs' = [inputs EXCEPT ![r][b] = 1 - @]
    /\ UNCHANGED <<rx, request, bpc, unitVars, lightVars>>

\* The gateway writes a request.  Bound: the next one only when the bytes of
\* the last have been read.
RequestArrives ==
    /\ rx = 0
    /\ request' \in Request
    /\ rx' = RequestSize
    /\ UNCHANGED <<inputs, bpc, unitVars, lightVars>>

------------------------------------------------------------------------------
(* setup() and run()                                                       *)

\* runLedTestProgram() ends with green everywhere.  It changes the pixels
\* only, not m_cupLights.
TestProgram ==
    /\ bpc = "test"
    /\ shown' = Plain("green")
    /\ bpc' = "sample"
    /\ UNCHANGED <<worldVars, unitVars, cupLights>>

\* A first run that would take the readings it starts with as shown.
SampleIgnoresInitRun ==
    /\ bpc = "sample"
    /\ shiftReg' = inputs
    /\ bpc' = IF inputs # shiftReg THEN "update" ELSE "input"
    /\ UNCHANGED <<worldVars, initRun, ctrlState, new, old, cupId, led, lightBuf, lightVars>>

\* readAndSetSensorInput().
Sample ==
    /\ bpc = "sample"
    /\ shiftReg' = inputs
    /\ bpc' = IF inputs # shiftReg \/ initRun THEN "update" ELSE "input"
    /\ UNCHANGED <<worldVars, initRun, ctrlState, new, old, cupId, led, lightBuf, lightVars>>

\* convertByteToBinary()
Binary(word) ==
    [s \in Sensor |-> word[s \div BitsPerShiftReg][s % BitsPerShiftReg] # 0]

\* An update that would clear the light buffer first.
UpdateClears ==
    /\ bpc = "update"
    /\ new' = Binary(shiftReg)
    /\ cupId' = 0
    /\ bpc' = "cups"
    /\ lightBuf' = [c \in Cup |-> "unset"]
    /\ UNCHANGED <<worldVars, initRun, ctrlState, shiftReg, old, led, lightVars>>

\* handleSensorUpdate(), which leaves the lights alone unless the state is
\* automatic, and setLightsFromSensorVals() up to its loop.
Update ==
    /\ bpc = "update"
    /\ IF ctrlState = "automatic"
       THEN /\ new' = Binary(shiftReg)
            /\ cupId' = 0
            /\ bpc' = "cups"
       ELSE /\ bpc' = "input"
            /\ UNCHANGED <<new, cupId>>
    /\ UNCHANGED <<worldVars, initRun, ctrlState, shiftReg, old, led, lightBuf, lightVars>>

\* A loop that would go one cup too far.
CupUnchangedPastEnd ==
    /\ bpc = "cups"
    /\ cupId \in 0 .. NumOfCups
    /\ cupId \in Cup => new[cupId] = old[cupId] /\ ~initRun
    /\ cupId' = cupId + 1
    /\ UNCHANGED <<worldVars, bpc, initRun, ctrlState, shiftReg, new, old, led, lightBuf, lightVars>>

\* The loop turns to a cup whose reading is what it was ...
CupUnchanged ==
    /\ bpc = "cups"
    /\ cupId \in Cup
    /\ new[cupId] = old[cupId]
    /\ ~initRun
    /\ cupId' = cupId + 1
    /\ UNCHANGED <<worldVars, bpc, initRun, ctrlState, shiftReg, new, old, led, lightBuf, lightVars>>

Turns(isAway) ==
    /\ bpc = "cups"
    /\ cupId \in Cup
    /\ new[cupId] = isAway
    /\ new[cupId] # old[cupId] \/ initRun

\* ... to a cup that was put down ...
CupPutDown ==
    /\ Turns(FALSE)
    /\ lightBuf' = [lightBuf EXCEPT ![cupId] = "red"]
    /\ cupId' = cupId + 1
    /\ UNCHANGED <<worldVars, bpc, initRun, ctrlState, shiftReg, new, old, led, lightVars>>

\* ... or to one that was taken away: runCupRemovedSequence().
CupTakenAway ==
    /\ Turns(TRUE)
    /\ led' = 0
    /\ bpc' = "sequence"
    /\ UNCHANGED <<worldVars, initRun, ctrlState, shiftReg, new, old, cupId, lightBuf, lightVars>>

\* One pixel every 50 ms, each shown at once; m_cupLights does not change.
SequencePixel ==
    /\ bpc = "sequence"
    /\ led \in Led
    /\ shown' = [shown EXCEPT ![cupId][led] = "blue"]
    /\ led' = led + 1
    /\ UNCHANGED <<worldVars, bpc, initRun, ctrlState, shiftReg, new, old, cupId, lightBuf, cupLights>>

SequenceEnds ==
    /\ bpc = "sequence"
    /\ led = LedsPerCup
    /\ lightBuf' = [lightBuf EXCEPT ![cupId] = "green"]
    /\ cupId' = cupId + 1
    /\ bpc' = "cups"
    /\ UNCHANGED <<worldVars, initRun, ctrlState, shiftReg, new, old, led, lightVars>>

\* A write that would take the colours of the first cup only.
WriteFirst ==
    /\ bpc = "cups"
    /\ cupId = NumOfCups
    /\ cupLights' = [cupLights EXCEPT ![0] = lightBuf[0]]
    /\ shown' = [shown EXCEPT ![0] = [l \in Led |-> lightBuf[0]]]
    /\ old' = new
    /\ bpc' = "input"
    /\ UNCHANGED <<worldVars, initRun, ctrlState, shiftReg, new, cupId, led, lightBuf>>

\* An update that would not keep the readings it has shown.
WriteForgets ==
    /\ bpc = "cups"
    /\ cupId = NumOfCups
    /\ cupLights' = lightBuf
    /\ shown' = [c \in Cup |-> [l \in Led |-> lightBuf[c]]]
    /\ bpc' = "input"
    /\ UNCHANGED <<worldVars, initRun, ctrlState, shiftReg, new, old, cupId, led, lightBuf>>

\* LightController::write() with the whole buffer, every cup of it, changed
\* or not.
WriteLights ==
    /\ bpc = "cups"
    /\ cupId = NumOfCups
    /\ cupLights' = lightBuf
    /\ shown' = [c \in Cup |-> [l \in Led |-> lightBuf[c]]]
    /\ old' = new
    /\ bpc' = "input"
    /\ UNCHANGED <<worldVars, initRun, ctrlState, shiftReg, new, cupId, led, lightBuf>>

\* dataAvailable() is Serial.available() turned into a bool, and checkInputData()
\* takes it for the number of bytes to read.
DataAvailable == IF rx > 0 THEN 1 ELSE 0

\* checkInputData(): what was read is dispatched if it is as long as a
\* package, or else an empty package is, which no controller answers to.
CheckInput ==
    /\ bpc = "input"
    /\ rx' = rx - DataAvailable
    /\ ctrlState' = IF DataAvailable >= MinPackageSize /\ request \in ControllerState
                    THEN request ELSE ctrlState
    /\ bpc' = "delay"
    /\ UNCHANGED <<inputs, request, initRun, shiftReg, new, old, cupId, led, lightBuf, lightVars>>

\* loop(): from now on run() is called with false.
Loop ==
    /\ bpc = "delay"
    /\ initRun' = FALSE
    /\ bpc' = "sample"
    /\ UNCHANGED <<worldVars, ctrlState, shiftReg, new, old, cupId, led, lightBuf, lightVars>>

------------------------------------------------------------------------------
Board ==
    \/ TestProgram
    \/ Sample \/ Update
    \/ CupUnchanged \/ CupPutDown \/ CupTakenAway \/ SequencePixel \/ SequenceEnds
    \/ WriteLights
    \/ CheckInput \/ Loop

Next == CupMoves \/ RequestArrives \/ Board

Spec == Init /\ [][Next]_vars

\* The board never waits: every call of its loop returns.
FairSpec == Spec /\ WF_vars(Board)

------------------------------------------------------------------------------
(* Properties                                                              *)

\* The colour of a cup whose sensor reads away or not.
LightOf(away) == IF away THEN "green" ELSE "red"

\* The light buffer outlives a run.  Once a run has gone past a cup, the
\* cup's entry is the colour of its reading, and is not what the memory held
\* when the board started.
BufferFollowsReadings ==
    /\ ~initRun => \A c \in Cup :
          lightBuf[c] = LightOf(IF bpc \in {"cups", "sequence"} /\ c < cupId
                                THEN new[c] ELSE old[c])
    /\ bpc = "cups" => \A c \in Cup : c < cupId => lightBuf[c] = LightOf(new[c])

\* Between two updates the controller's record and the pixels agree with
\* each other and with the last reading of every cup.
LightsMatchSample ==
    bpc \in {"input", "delay"} \/ (bpc = "sample" /\ ~initRun) =>
        \A c \in Cup :
            /\ cupLights[c] = LightOf(Binary(shiftReg)[c])
            /\ shown[c] = [l \in Led |-> cupLights[c]]

\* The whole strip is sent again and again during an update, yet a cup whose
\* reading did not change keeps its light: it never flickers.
OthersKeepTheirLight ==
    [][(~initRun /\ bpc \in {"cups", "sequence"}) =>
         \A c \in Cup : new[c] = old[c] => shown'[c] = shown[c]]_vars

\* If the cups are left alone for good, the lights come to show them and
\* stay so, however long a sequence they interrupted and whatever arrives on
\* the serial line.
LightsFollowCups ==
    \A word \in Word :
        <>[](inputs = word) =>
            <>[](\A c \in Cup : shown[c] = [l \in Led |-> LightOf(Binary(word)[c])])

\* BjDataPackageDefines.h:42 and :54, "System controller request", "Set
\* request": a request that has arrived in full, at a board that looks for
\* one, sets the state of the table.
RequestsAreServed ==
    [][(bpc = "input" /\ bpc' = "delay" /\ rx = RequestSize /\ request \in ControllerState)
          => ctrlState' = request]_vars

=============================================================================
