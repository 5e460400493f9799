------------------------- MODULE SensedBoard_proofs -------------------------
(***************************************************************************)
(* For any chain of registers and any number of cups and lights: the board *)
(* with its driver implements the board that reads its sensors in one      *)
(* step, and so shows the cups as they were at one moment.                 *)
(***************************************************************************)
EXTENDS SensedBoard, ShiftRegister_proofs

------------------------------------------------------------------------------
(* The driver in the board is the driver                                   *)

LEMMA RestLeavesInputs == RestOfLoop => UNCHANGED inputs
  BY DEF RestOfLoop, Unit!TestProgram, Unit!Update, Unit!CupUnchanged, Unit!CupPutDown,
     Unit!CupTakenAway, Unit!SequencePixel, Unit!SequenceEnds, Unit!WriteLights,
     Unit!CheckInput, Unit!Loop, Unit!Turns, Unit!worldVars

LEMMA DriverStep == [SensedNext]_sensedVars => [Next]_srVars
<1> SUFFICES ASSUME [SensedNext]_sensedVars PROVE [Next]_srVars
  OBVIOUS
<1>1. CASE CupMoves
  BY <1>1 DEF CupMoves, Next
<1>2. CASE RequestArrives
  BY <1>2 DEF RequestArrives, Unit!RequestArrives, driverVars, srVars
<1>3. CASE ReadBegins
  BY <1>3 DEF ReadBegins, Next, Driver
<1>4. CASE ReadGoesOn
  BY <1>4 DEF ReadGoesOn, Next, Driver
<1>5. CASE ReadEnds
  BY <1>5 DEF ReadEnds, Next, Driver
<1>6. CASE RestOfLoop
  BY <1>6, RestLeavesInputs DEF RestOfLoop, driverVars, srVars
<1>7. CASE UNCHANGED sensedVars
  BY <1>7 DEF sensedVars
<1> QED  BY <1>1, <1>2, <1>3, <1>4, <1>5, <1>6, <1>7 DEF SensedNext

\* Called by the loop, with a new array each time, the driver does what it
\* does on its own (SN74HC165_Read()).
THEOREM DriverInBoard == SensedSpec => Spec
<1>1. SensedInit => Init
  BY DEF SensedInit
<1> QED  BY <1>1, DriverStep, PTL DEF SensedSpec, Spec

\* So its invariants hold in the board.
THEOREM BitsKeepOrderInBoard == SensedSpec => []BitsInOrder
  BY DriverInBoard, BitsKeepOrder, PTL

------------------------------------------------------------------------------
(* The call                                                                *)

\* While a read is on its way the loop waits for it, and after it has ended the
\* loop works with what was loaded.
CallInv ==
    /\ spc # "idle" => bpc = "sample"
    /\ bpc \notin {"test", "sample"} => shiftReg = latched

LEMMA RestKeepsCall ==
    ASSUME CallInv, RestOfLoop
    PROVE  /\ bpc # "sample" /\ spc = "idle" /\ spc' = "idle"
           /\ UNCHANGED <<shiftReg, latched>>
           /\ bpc = "test" => bpc' = "sample"
<1>1. bpc # "sample" /\ UNCHANGED shiftReg /\ (bpc = "test" => bpc' = "sample")
  BY DEF RestOfLoop, Unit!TestProgram, Unit!Update, Unit!CupUnchanged, Unit!CupPutDown,
     Unit!CupTakenAway, Unit!SequencePixel, Unit!SequenceEnds, Unit!WriteLights,
     Unit!CheckInput, Unit!Loop, Unit!Turns, Unit!unitVars
<1> QED  BY <1>1 DEF CallInv, RestOfLoop, driverVars

LEMMA CallInit == SensedInit => CallInv
  BY DEF SensedInit, Init, Unit!Init, CallInv

LEMMA CallStep ==
    ASSUME DriverInv, CallInv, [SensedNext]_sensedVars
    PROVE  CallInv'
<1>1. CASE CupMoves
  BY <1>1 DEF CupMoves, CupsMove, Unit!CupMoves, Unit!unitVars, CallInv
<1>2. CASE RequestArrives
  BY <1>2 DEF RequestArrives, Unit!RequestArrives, Unit!unitVars, driverVars, CallInv
<1>3. CASE ReadBegins
  BY <1>3 DEF ReadBegins, LoadBegins, boardVars, CallInv
<1>4. CASE ReadGoesOn
  BY <1>4 DEF ReadGoesOn, LoadEnds, ReadBit, Pulse, NextByte, boardVars, CallInv
<1>5. CASE ReadEnds
  <2>1. shiftReg' = latched /\ latched' = latched /\ spc' = "idle"
    BY <1>5, ReadIsWhole DEF ReadEnds, ReadReturns, Caller!Sample
  <2> QED  BY <2>1 DEF CallInv
<1>6. CASE RestOfLoop
  BY <1>6, RestKeepsCall DEF CallInv
<1>7. CASE UNCHANGED sensedVars
  BY <1>7 DEF sensedVars, srVars, boardVars, CallInv
<1> QED  BY <1>1, <1>2, <1>3, <1>4, <1>5, <1>6, <1>7 DEF SensedNext

LEMMA CallInvariant == SensedSpec => [](DriverInv /\ CallInv)
<1>1. SensedSpec => []DriverInv
  BY DriverInBoard, DriverInvariant, PTL
<1>2. DriverInv /\ CallInv /\ [SensedNext]_sensedVars => CallInv'
  BY CallStep
<1> QED  BY <1>1, <1>2, CallInit, PTL DEF SensedSpec

------------------------------------------------------------------------------
(* The refinement                                                          *)

\* What the loop is taken to be at, and to have read.
seenPC == IF Latched THEN IF latched # shiftReg \/ initRun THEN "update" ELSE "input" ELSE bpc
seenReg == IF Latched THEN latched ELSE shiftReg

\* Steps of the loop that neither is, or is not, in a read.
LEMMA SameSeen ==
    ASSUME UNCHANGED <<spc, latched>>, ~Latched
    PROVE  /\ seenPC = bpc /\ seenPC' = bpc'
           /\ seenReg = shiftReg /\ seenReg' = shiftReg'
  BY DEF seenPC, seenReg, Latched

LEMMA SameWords ==
    /\ Board!Cup = Unit!Cup /\ Board!Led = Unit!Led /\ Board!Word = Unit!Word
    /\ Board!Sensor = Unit!Sensor
    /\ Board!ControllerState = Unit!ControllerState
    /\ \A colour : Board!Plain(colour) = Unit!Plain(colour)
    /\ \A word : Board!Binary(word) = Unit!Binary(word)
    /\ Board!DataAvailable = Unit!DataAvailable
    /\ Board!MinPackageSize = Unit!MinPackageSize /\ Board!RequestSize = Unit!RequestSize
  BY DEF Board!Cup, Board!Led, Board!Word, Board!Reg, Board!Pin, Board!Sensor,
     Board!ControllerState, Board!Plain, Board!Binary, Board!DataAvailable,
     Board!MinPackageSize, Board!RequestSize,
     Unit!Cup, Unit!Led, Unit!Word, Unit!Reg, Unit!Pin, Unit!Sensor,
     Unit!ControllerState, Unit!Plain, Unit!Binary, Unit!DataAvailable,
     Unit!MinPackageSize, Unit!RequestSize

\* Besides reading, the loop does what it does in the board that reads in one
\* step.
LEMMA RestStep ==
    ASSUME CallInv, RestOfLoop
    PROVE  Board!Board
<1> USE SameWords DEF Board!worldVars, Board!unitVars, Board!lightVars,
        Unit!worldVars, Unit!unitVars, Unit!lightVars
<1>1. UNCHANGED <<spc, latched>> /\ ~Latched
  BY RestKeepsCall DEF Latched
<1>2. /\ seenPC = bpc /\ seenPC' = bpc'
      /\ seenReg = shiftReg /\ seenReg' = shiftReg'
  BY <1>1, SameSeen
<1>3. CASE Unit!TestProgram
  BY <1>2, <1>3 DEF Unit!TestProgram, Board!TestProgram, seenPC, seenReg, Board!Board
<1>4. CASE Unit!Update
  BY <1>2, <1>4 DEF Unit!Update, Board!Update, seenPC, seenReg, Board!Board
<1>5. CASE Unit!CupUnchanged
  BY <1>2, <1>5 DEF Unit!CupUnchanged, Board!CupUnchanged, seenPC, seenReg, Board!Board
<1>6. CASE Unit!CupPutDown
  BY <1>2, <1>6 DEF Unit!CupPutDown, Unit!Turns, Board!CupPutDown, Board!Turns,
     seenPC, seenReg, Board!Board
<1>7. CASE Unit!CupTakenAway
  BY <1>2, <1>7 DEF Unit!CupTakenAway, Unit!Turns, Board!CupTakenAway, Board!Turns,
     seenPC, seenReg, Board!Board
<1>8. CASE Unit!SequencePixel
  BY <1>2, <1>8 DEF Unit!SequencePixel, Board!SequencePixel, seenPC, seenReg, Board!Board
<1>9. CASE Unit!SequenceEnds
  BY <1>2, <1>9 DEF Unit!SequenceEnds, Board!SequenceEnds, seenPC, seenReg, Board!Board
<1>10. CASE Unit!WriteLights
  BY <1>2, <1>10 DEF Unit!WriteLights, Board!WriteLights, seenPC, seenReg, Board!Board
<1>11. CASE Unit!CheckInput
  BY <1>2, <1>11 DEF Unit!CheckInput, Board!CheckInput, seenPC, seenReg, Board!Board
<1>12. CASE Unit!Loop
  BY <1>2, <1>12 DEF Unit!Loop, Board!Loop, seenPC, seenReg, Board!Board
<1> QED
  BY <1>3, <1>4, <1>5, <1>6, <1>7, <1>8, <1>9, <1>10, <1>11, <1>12 DEF RestOfLoop

\* A step of the board with its driver is a step of the board without, or none.
LEMMA BoardStep ==
    ASSUME DriverInv, CallInv, [SensedNext]_sensedVars
    PROVE  [Board!Next]_(Board!vars)
<1> USE DEF Board!vars, Board!worldVars, Board!unitVars, Board!lightVars
<1>1. CASE CupMoves
  <2>1. /\ UNCHANGED <<spc, latched, shiftReg, bpc, initRun>>
        /\ UNCHANGED <<rx, request, ctrlState, new, old, cupId, led, lightBuf,
                       cupLights, shown>>
    BY <1>1 DEF CupMoves, CupsMove, Unit!CupMoves, Unit!unitVars, Unit!lightVars
  <2>2. PICK r \in Reg, b \in Pin : inputs' = [inputs EXCEPT ![r][b] = 1 - @]
    BY <1>1 DEF CupMoves, Unit!CupMoves, Unit!Reg, Unit!Pin, Reg, Pin
  <2>3. r \in Board!Reg /\ b \in Board!Pin
    BY DEF Board!Reg, Board!Pin, Reg, Pin
  <2>4. seenPC' = seenPC /\ seenReg' = seenReg
    BY <2>1 DEF seenPC, seenReg, Latched
  <2>5. Board!CupMoves
    BY <2>1, <2>2, <2>3, <2>4 DEF Board!CupMoves, seenPC, seenReg
  <2> QED  BY <2>5 DEF Board!Next
<1>2. CASE RequestArrives
  <2>1. /\ UNCHANGED <<spc, latched, shiftReg, bpc, initRun>>
        /\ UNCHANGED <<inputs, ctrlState, new, old, cupId, led, lightBuf, cupLights, shown>>
        /\ rx = 0 /\ request' \in Request /\ rx' = Unit!RequestSize
    BY <1>2 DEF RequestArrives, driverVars, Unit!RequestArrives, Unit!unitVars,
       Unit!lightVars
  <2>2. seenPC' = seenPC /\ seenReg' = seenReg
    BY <2>1 DEF seenPC, seenReg, Latched
  <2>3. Board!RequestArrives
    BY <2>1, <2>2, SameWords DEF Board!RequestArrives, seenPC, seenReg
  <2> QED  BY <2>3 DEF Board!Next
<1>3. CASE ReadBegins \/ (ReadGoesOn /\ ~LoadEnds)
  <2>1. UNCHANGED <<inputs, latched, boardVars>> /\ Latched' = Latched
    BY <1>3 DEF ReadBegins, ReadGoesOn, LoadBegins, ReadBit, Pulse, NextByte, Latched
  <2> QED  BY <2>1 DEF boardVars
\* The moment at which all sensors are read.
<1>4. CASE ReadGoesOn /\ LoadEnds
  <2>1. /\ spc = "load" /\ spc' = "read" /\ latched' = inputs
        /\ UNCHANGED <<inputs, boardVars>>
    BY <1>4 DEF ReadGoesOn, LoadEnds
  <2>2. bpc = "sample" /\ ~Latched /\ Latched'
    BY <2>1 DEF CallInv, Latched
  <2>3. /\ seenPC = "sample" /\ seenReg = shiftReg
        /\ seenReg' = inputs
        /\ seenPC' = IF inputs # shiftReg \/ initRun THEN "update" ELSE "input"
    BY <2>1, <2>2 DEF seenPC, seenReg, boardVars
  <2>4. Board!Sample
    BY <2>1, <2>3 DEF Board!Sample, seenPC, seenReg, boardVars
  <2> QED  BY <2>4 DEF Board!Next, Board!Board
\* What the loop goes on with is what it was taken to have read.
<1>5. CASE ReadEnds
  <2>1. /\ spc = "read" /\ spc' = "idle" /\ UNCHANGED <<inputs, latched>>
        /\ shiftReg' = latched
        /\ bpc' = IF latched # shiftReg \/ initRun THEN "update" ELSE "input"
        /\ UNCHANGED <<rx, request, initRun, ctrlState, new, old, cupId, led, lightBuf,
                       cupLights, shown>>
    BY <1>5, ReadIsWhole DEF ReadEnds, ReadReturns, Caller!Sample, Caller!worldVars,
       Caller!lightVars
  <2>2. Latched /\ ~Latched'
    BY <2>1 DEF Latched
  <2>3. seenPC' = seenPC /\ seenReg' = seenReg
    BY <2>1, <2>2 DEF seenPC, seenReg
  <2> QED  BY <2>1, <2>3 DEF seenPC, seenReg
<1>6. CASE RestOfLoop
  BY <1>6, RestStep DEF Board!Next
<1>7. CASE UNCHANGED sensedVars
  BY <1>7 DEF sensedVars, srVars, boardVars, Latched
<1> QED  BY <1>1, <1>2, <1>3, <1>4, <1>5, <1>6, <1>7 DEF SensedNext

LEMMA BoardInit == SensedInit => Board!Init
<1> SUFFICES ASSUME SensedInit PROVE Board!Init
  OBVIOUS
<1>1. Unit!Init /\ ~Latched
  BY DEF SensedInit, Init, Latched
<1> QED
  BY <1>1, SameWords DEF Unit!Init, Board!Init, Board!Reg, Board!Pin, Unit!Reg, Unit!Pin

\* The board that clocks its bits out one by one, while cups move and requests
\* arrive, does nothing that the board with a read of one step would not do
\* (readAndSetSensorInput(), SensorController::read(), SN74HC165_Read()).
THEOREM SensedImplementsBoard == SensedSpec => ImplementsBoard
  BY BoardInit, BoardStep, CallInvariant, PTL DEF SensedSpec, ImplementsBoard, Board!Spec

------------------------------------------------------------------------------
(* The lights show one moment                                              *)

\* What is proved of the board that reads in one step, for this one.
Proved == INSTANCE UnitController_proofs
    WITH bpc      <- IF Latched THEN IF latched # shiftReg \/ initRun THEN "update" ELSE "input"
                     ELSE bpc,
         shiftReg <- IF Latched THEN latched ELSE shiftReg

\* The assumptions of that proof.
LEMMA BoardAssumed ==
    /\ NumOfCups \in 1 .. 63
    /\ LedsPerCup \in Nat \ {0}
    /\ NumOfShiftReg \in Nat \ {0}
    /\ BitsPerShiftReg \in Nat \ {0}
    /\ NumOfCups <= NumOfShiftReg * BitsPerShiftReg
    /\ Request \subseteq Proved!ControllerState \cup {"invalid"}
    /\ Request # {}
  BY SensedAssumption, ShiftRegisterAssumption DEF Proved!ControllerState

LEMMA SameBoard ==
    /\ Board!Init => Proved!Init
    /\ [Board!Next]_(Board!vars) => [Proved!Next]_(Proved!vars)
  BY DEF
     Board!Init, Board!Next, Board!vars, Board!worldVars, Board!unitVars,
     Board!lightVars, Board!Cup, Board!Led, Board!Reg, Board!Pin, Board!Sensor,
     Board!Word, Board!ControllerState, Board!Plain, Board!CupMoves,
     Board!RequestArrives, Board!RequestSize, Board!Board, Board!TestProgram,
     Board!Sample, Board!Update, Board!Binary, Board!CupUnchanged, Board!CupPutDown,
     Board!CupTakenAway, Board!Turns, Board!SequencePixel, Board!SequenceEnds,
     Board!WriteLights, Board!CheckInput, Board!DataAvailable, Board!MinPackageSize,
     Board!Loop, Proved!Init, Proved!Next, Proved!vars, Proved!worldVars,
     Proved!unitVars, Proved!lightVars, Proved!Cup, Proved!Led, Proved!Reg, Proved!Pin,
     Proved!Sensor, Proved!Word, Proved!ControllerState, Proved!Plain, Proved!CupMoves,
     Proved!RequestArrives, Proved!RequestSize, Proved!Board, Proved!TestProgram,
     Proved!Sample, Proved!Update, Proved!Binary, Proved!CupUnchanged, Proved!CupPutDown,
     Proved!CupTakenAway, Proved!Turns, Proved!SequencePixel, Proved!SequenceEnds,
     Proved!WriteLights, Proved!CheckInput, Proved!DataAvailable, Proved!MinPackageSize,
     Proved!Loop

\* When an update is complete, every cup shows what its sensor was when the load
\* of this pass ended: one moment for all cups, however they moved while their
\* bits were clocked out and their lights were set (run()).
THEOREM ShowsOneMoment == SensedSpec => []LightsShowOneMoment
<1>1. SensedSpec => Proved!Spec
  BY SensedImplementsBoard, SameBoard, PTL DEF ImplementsBoard, Board!Spec, Proved!Spec
<1>2. Proved!Spec => []Proved!LightsMatchSample
  BY BoardAssumed, Proved!LightsShowSample
<1>3. CallInv /\ Proved!LightsMatchSample => LightsShowOneMoment
  <2> SUFFICES ASSUME CallInv, Proved!LightsMatchSample, bpc \in {"input", "delay"},
                      NEW c \in Unit!Cup
               PROVE  shown[c] = [l \in Unit!Led |-> Unit!LightOf(Unit!Binary(latched)[c])]
    BY DEF LightsShowOneMoment
  <2>1. ~Latched /\ shiftReg = latched
    BY DEF CallInv, Latched
  <2>2. /\ Proved!Cup = Unit!Cup /\ Proved!Led = Unit!Led
        /\ \A away : Proved!LightOf(away) = Unit!LightOf(away)
        /\ \A word : Proved!Binary(word) = Unit!Binary(word)
    BY DEF Proved!Cup, Proved!Led, Proved!LightOf, Proved!Binary, Proved!Sensor,
       Unit!Cup, Unit!Led, Unit!LightOf, Unit!Binary, Unit!Sensor
  <2>3. /\ cupLights[c] = Unit!LightOf(Unit!Binary(latched)[c])
        /\ shown[c] = [l \in Unit!Led |-> cupLights[c]]
    BY <2>1, <2>2 DEF Proved!LightsMatchSample
  <2> QED  BY <2>3
<1> QED  BY <1>1, <1>2, <1>3, CallInvariant, PTL

=============================================================================
