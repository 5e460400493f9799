----------------------------- MODULE SensedBoard -----------------------------
(***************************************************************************)
(* The board (src/EC/App) with its sensor driver: UnitController calls     *)
(* SensorController::read(), which clocks the bits out of the chain one by *)
(* one, and goes on with what it finds in its buffer.  Cups move and       *)
(* requests arrive all the while.                                          *)
(*                                                                         *)
(* UnitController takes the read for one step; that the board behaves so   *)
(* although the read takes many is the refinement stated here.             *)
(***************************************************************************)
EXTENDS ShiftRegister

CONSTANTS NumOfCups, LedsPerCup, Request        \* as in UnitController

ASSUME SensedAssumption ==
    /\ NumOfCups \in 1 .. 63
    /\ LedsPerCup \in Nat \ {0}
    /\ NumOfCups <= NumOfShiftReg * BitsPerShiftReg
    /\ Request \subseteq {"idle", "manual", "automatic", "sequence", "invalid"}
    /\ Request # {}

VARIABLES rx, request, bpc, initRun, ctrlState, shiftReg, new, old, cupId, led,
          lightBuf, cupLights, shown            \* as in UnitController

Unit == INSTANCE UnitController

\* The board, as if the sensors were what the driver has left in the buffer.
Caller == INSTANCE UnitController WITH inputs <- buffer

driverVars == <<sdLd, chain, spc, reg, bit, buffer, latched>>
boardVars  == <<rx, request, bpc, initRun, ctrlState, shiftReg, new, old, cupId, led,
                lightBuf, cupLights, shown>>
sensedVars == <<srVars, boardVars>>

SensedInit == Init /\ Unit!Init

------------------------------------------------------------------------------
CupMoves == Unit!CupMoves /\ CupsMove

RequestArrives == Unit!RequestArrives /\ UNCHANGED driverVars

\* readAndSetSensorInput() calls the driver with an array of zeros ...
ReadBegins ==
    /\ bpc = "sample"
    /\ LoadBegins
    /\ buffer' = [r \in Reg |-> [b \in Pin |-> 0]]
    /\ UNCHANGED boardVars

ReadGoesOn ==
    /\ LoadEnds \/ ReadBit \/ Pulse \/ NextByte
    /\ UNCHANGED boardVars

\* A caller that would not keep what it has read where it is compared.
ReadEndsUnkept ==
    /\ ReadReturns
    /\ bpc' = IF buffer # shiftReg \/ initRun THEN "update" ELSE "input"
    /\ UNCHANGED <<rx, request, initRun, ctrlState, shiftReg, new, old, cupId, led,
                   lightBuf, cupLights, shown>>

\* ... and compares what it finds in it with the last readings.
ReadEnds == ReadReturns /\ Caller!Sample

\* What run() does besides reading.
RestOfLoop ==
    /\ \/ Unit!TestProgram \/ Unit!Update
       \/ Unit!CupUnchanged \/ Unit!CupPutDown \/ Unit!CupTakenAway
       \/ Unit!SequencePixel \/ Unit!SequenceEnds \/ Unit!WriteLights
       \/ Unit!CheckInput \/ Unit!Loop
    /\ UNCHANGED driverVars

SensedNext ==
    \/ CupMoves \/ RequestArrives
    \/ ReadBegins \/ ReadGoesOn \/ ReadEnds
    \/ RestOfLoop

SensedSpec == SensedInit /\ [][SensedNext]_sensedVars

------------------------------------------------------------------------------
(* Properties                                                              *)

\* Once run() has updated the lights, every cup shows what its sensor was at
\* one and the same moment, in the same pass of the loop: the moment at which
\* the driver ended the load, whatever the cups did while their bits were
\* clocked out, and whatever the lights showed on the way.
LightsShowOneMoment ==
    bpc \in {"input", "delay"} =>
        \A c \in Unit!Cup :
            shown[c] = [l \in Unit!Led |-> Unit!LightOf(Unit!Binary(latched)[c])]

\* What has been sampled before the call returns.
Latched == spc \in {"read", "pulse"}

\* The board with its driver implements the board that reads all its sensors
\* in one step: that step is the end of the load, and nothing the board does
\* depends on how long it takes to get the bits out.
Board == INSTANCE UnitController
    WITH bpc      <- IF Latched THEN IF latched # shiftReg \/ initRun THEN "update" ELSE "input"
                     ELSE bpc,
         shiftReg <- IF Latched THEN latched ELSE shiftReg

ImplementsBoard == Board!Spec

=============================================================================
