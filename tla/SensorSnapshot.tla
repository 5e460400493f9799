--------------------------- MODULE SensorSnapshot ---------------------------
(***************************************************************************)
(* What SensorController::read() promises the rest of the board: the       *)
(* buffer it fills is the state all cups had at one and the same moment    *)
(* between the call and the return, whatever the cups do meanwhile.        *)
(***************************************************************************)
CONSTANTS Word,       \* readings of all the sensors
          NoReading

VARIABLES inputs,     \* the state of the sensors
          sample,       \* the state taken for this call, or NoReading
          reading     \* what the last call returned, NoReading during a call

snapshotVars == <<inputs, sample, reading>>

SnapshotInit ==
    /\ inputs \in Word
    /\ sample = NoReading
    /\ reading = NoReading

CupsMove ==
    /\ inputs' \in Word
    /\ UNCHANGED <<sample, reading>>

Call ==
    /\ reading' = NoReading
    /\ sample' = NoReading
    /\ UNCHANGED inputs

Take ==
    /\ sample = NoReading
    /\ sample' = inputs
    /\ UNCHANGED <<inputs, reading>>

Return ==
    /\ sample # NoReading
    /\ reading' = sample
    /\ UNCHANGED <<inputs, sample>>

SnapshotNext == CupsMove \/ Call \/ Take \/ Return

SnapshotSpec == SnapshotInit /\ [][SnapshotNext]_snapshotVars

=============================================================================
