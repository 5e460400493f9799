------------------------ MODULE UnitController_proofs ------------------------
(* For any number of cups, lights and sensors: the lights show the cups.   *)
EXTENDS UnitController, TLAPS

------------------------------------------------------------------------------
(* Types                                                                   *)

LEMMA BinaryType == ASSUME NEW word PROVE Binary(word) \in [Sensor -> BOOLEAN]
  BY Zenon DEF Binary

LEMMA CupsAreSensors == Cup \subseteq Sensor
  BY BoardAssumption DEF Cup, Sensor

LEMMA ZeroWord == [r \in Reg |-> [b \in Pin |-> 0]] \in Word
  BY DEF Word

\* The loop is on a cup while its sequence runs.
SequenceCup == bpc = "sequence" => cupId \in Cup

LEMMA BoardTypeInit == Init => TypeOK /\ SequenceCup
  BY BoardAssumption, ZeroWord
  DEF Init, TypeOK, SequenceCup, ControllerState, BoardPC, Colour, Plain, RequestSize

LEMMA BoardTypeStep ==
    ASSUME TypeOK, SequenceCup, [Next]_vars
    PROVE  TypeOK' /\ SequenceCup'
<1> USE BoardAssumption
<1>1. CASE CupMoves
  <2>1. PICK r \in Reg, b \in Pin : inputs' = [inputs EXCEPT ![r][b] = 1 - @]
    BY <1>1 DEF CupMoves
  <2>2. inputs[r][b] \in {0, 1}
    BY DEF TypeOK, Word
  <2>3. 1 - inputs[r][b] \in {0, 1}
    BY <2>2
  <2>4. inputs' \in Word
    BY <2>1, <2>3 DEF TypeOK, Word
  <2> QED
    BY <1>1, <2>4 DEF CupMoves, TypeOK, SequenceCup, unitVars, lightVars
<1>2. CASE RequestArrives
  BY <1>2 DEF RequestArrives, TypeOK, SequenceCup, unitVars, lightVars, RequestSize
<1>3. CASE TestProgram
  BY <1>3 DEF TestProgram, TypeOK, SequenceCup, worldVars, unitVars, Plain, Colour, BoardPC
<1>4. CASE Sample
  BY <1>4 DEF Sample, TypeOK, SequenceCup, worldVars, lightVars, BoardPC
<1>5. CASE Update
  <2>1. new' \in [Sensor -> BOOLEAN]
    BY <1>5, BinaryType DEF Update, TypeOK
  <2> QED
    BY <1>5, <2>1 DEF Update, TypeOK, SequenceCup, worldVars, lightVars, BoardPC
<1>6. CASE CupUnchanged
  BY <1>6 DEF CupUnchanged, TypeOK, SequenceCup, worldVars, lightVars, Cup
<1>7. CASE CupPutDown
  BY <1>7 DEF CupPutDown, Turns, TypeOK, SequenceCup, worldVars, lightVars, Cup, Colour
<1>8. CASE CupTakenAway
  BY <1>8 DEF CupTakenAway, Turns, TypeOK, SequenceCup, worldVars, lightVars, BoardPC
<1>9. CASE SequencePixel
  BY <1>9 DEF SequencePixel, TypeOK, SequenceCup, worldVars, Led, Colour
<1>10. CASE SequenceEnds
  BY <1>10 DEF SequenceEnds, TypeOK, SequenceCup, worldVars, lightVars, Cup, Colour, BoardPC
<1>11. CASE WriteLights
  BY <1>11 DEF WriteLights, TypeOK, SequenceCup, worldVars, BoardPC
<1>12. CASE CheckInput
  BY <1>12 DEF CheckInput, DataAvailable, MinPackageSize, RequestSize, TypeOK,
               SequenceCup, lightVars, BoardPC
<1>13. CASE Loop
  <2>1. initRun' \in BOOLEAN
    BY <1>13, Zenon DEF Loop
  <2> QED
    BY <1>13, <2>1 DEF Loop, TypeOK, SequenceCup, worldVars, lightVars, BoardPC
<1>14. CASE UNCHANGED vars
  BY <1>14 DEF vars, worldVars, unitVars, lightVars, TypeOK, SequenceCup
<1> QED
  BY <1>1, <1>2, <1>3, <1>4, <1>5, <1>6, <1>7, <1>8, <1>9, <1>10, <1>11, <1>12,
     <1>13, <1>14 DEF Next, Board

\* Every variable of the board keeps its type: no loop runs past its cups or
\* its pixels.
THEOREM BoardTypeCorrect == Spec => []TypeOK
<1>1. Init => TypeOK /\ SequenceCup
  BY BoardTypeInit
<1>2. TypeOK /\ SequenceCup /\ [Next]_vars => (TypeOK /\ SequenceCup)'
  BY BoardTypeStep
<1> QED
  BY <1>1, <1>2, PTL DEF Spec

------------------------------------------------------------------------------
(* The lights show the cups                                                *)

\* The last update is complete, and it was not the first one that is missing.
Settled ==
    \/ bpc \in {"input", "delay"}
    \/ bpc \in {"sample", "update"} /\ ~initRun

Updating == bpc \in {"cups", "sequence"}

\* Which reading the controller's copies stand for.
ReadingsInv ==
    /\ ctrlState = "automatic"
    /\ bpc = "test" => initRun
    /\ Updating => new = Binary(shiftReg)
    /\ Settled /\ bpc # "update" => old = Binary(shiftReg)
    /\ bpc = "sequence" => new[cupId] /\ (new[cupId] # old[cupId] \/ initRun)

\* What the light buffer holds for each cup.
BufferInv ==
    /\ Settled => \A c \in Cup : lightBuf[c] = LightOf(old[c])
    /\ Updating => \A c \in Cup :
          /\ c < cupId => lightBuf[c] = LightOf(new[c])
          /\ c >= cupId /\ ~initRun => lightBuf[c] = LightOf(old[c])

Lit(c, away) == shown[c] = [l \in Led |-> LightOf(away)]

\* What the pixels and the controller's record of them show.
LightsInv ==
    /\ Settled => \A c \in Cup : Lit(c, old[c]) /\ cupLights[c] = LightOf(old[c])
    /\ Updating /\ ~initRun => \A c \in Cup : new[c] = old[c] => Lit(c, old[c])

BoardInv == TypeOK /\ SequenceCup /\ ReadingsInv /\ BufferInv /\ LightsInv

LEMMA BoardInvInit == Init => BoardInv
  BY BoardTypeInit
  DEF Init, BoardInv, ReadingsInv, BufferInv, LightsInv, Settled, Updating

LEMMA ReadingsStep ==
    ASSUME BoardInv, [Next]_vars
    PROVE  ReadingsInv'
<1> USE BoardAssumption DEF BoardInv, ReadingsInv, Settled, Updating
<1>1. CASE CupMoves \/ RequestArrives
  BY <1>1 DEF CupMoves, RequestArrives, unitVars, lightVars
<1>2. CASE TestProgram \/ Sample
  BY <1>2 DEF TestProgram, Sample, worldVars, unitVars, lightVars, Binary
<1>3. CASE Update
  BY <1>3 DEF Update, worldVars, lightVars
<1>4. CASE CupUnchanged \/ CupPutDown
  BY <1>4 DEF CupUnchanged, CupPutDown, Turns, worldVars, lightVars
<1>5. CASE CupTakenAway
  BY <1>5 DEF CupTakenAway, Turns, worldVars, lightVars
<1>6. CASE SequencePixel \/ SequenceEnds
  BY <1>6 DEF SequencePixel, SequenceEnds, worldVars, lightVars
<1>7. CASE WriteLights
  BY <1>7 DEF WriteLights, worldVars
<1>8. CASE CheckInput
  BY <1>8 DEF CheckInput, DataAvailable, MinPackageSize, lightVars
<1>9. CASE Loop
  BY <1>9 DEF Loop, worldVars, lightVars
<1>10. CASE UNCHANGED vars
  BY <1>10 DEF vars, worldVars, unitVars, lightVars
<1> QED
  BY <1>1, <1>2, <1>3, <1>4, <1>5, <1>6, <1>7, <1>8, <1>9, <1>10 DEF Next, Board

LEMMA BufferStep ==
    ASSUME BoardInv, [Next]_vars
    PROVE  BufferInv'
<1> USE BoardAssumption DEF BoardInv, BufferInv, Settled, Updating
<1>1. CASE CupMoves \/ RequestArrives
  BY <1>1 DEF CupMoves, RequestArrives, unitVars, lightVars
<1>2. CASE TestProgram \/ Sample
  BY <1>2 DEF TestProgram, Sample, ReadingsInv, worldVars, unitVars, lightVars
<1>3. CASE Update
  BY <1>3 DEF Update, ReadingsInv, worldVars, lightVars, Cup
<1>4. CASE CupUnchanged
  BY <1>4 DEF CupUnchanged, worldVars, lightVars, Cup
<1>5. CASE CupPutDown
  BY <1>5 DEF CupPutDown, Turns, worldVars, lightVars, TypeOK, Cup, LightOf
<1>6. CASE CupTakenAway
  BY <1>6 DEF CupTakenAway, Turns, worldVars, lightVars
<1>7. CASE SequencePixel
  BY <1>7 DEF SequencePixel, worldVars
<1>8. CASE SequenceEnds
  BY <1>8 DEF SequenceEnds, SequenceCup, ReadingsInv, worldVars, lightVars, TypeOK, Cup, LightOf
<1>9. CASE WriteLights
  BY <1>9 DEF WriteLights, worldVars, Cup
<1>10. CASE CheckInput \/ Loop
  BY <1>10 DEF CheckInput, Loop, worldVars, lightVars
<1>11. CASE UNCHANGED vars
  BY <1>11 DEF vars, worldVars, unitVars, lightVars
<1> QED
  BY <1>1, <1>2, <1>3, <1>4, <1>5, <1>6, <1>7, <1>8, <1>9, <1>10, <1>11 DEF Next, Board

\* Each cup is given the colour of its new reading.
LEMMA WrittenLights ==
    ASSUME BoardInv, WriteLights, NEW c \in Cup
    PROVE  /\ shown'[c] = [l \in Led |-> LightOf(new[c])]
           /\ cupLights'[c] = LightOf(new[c])
           /\ old'[c] = new[c]
<1>1. lightBuf[c] = LightOf(new[c])
  BY BoardAssumption DEF WriteLights, BoardInv, BufferInv, Updating, Cup
<1>2. shown'[c] = [l \in Led |-> lightBuf[c]]
  BY DEF WriteLights
<1> QED
  BY <1>1, <1>2 DEF WriteLights

LEMMA LightsStep ==
    ASSUME BoardInv, [Next]_vars
    PROVE  LightsInv'
<1> USE BoardAssumption DEF BoardInv, LightsInv, Lit, Settled, Updating
<1>1. CASE CupMoves \/ RequestArrives
  BY <1>1 DEF CupMoves, RequestArrives, unitVars, lightVars
<1>2. CASE TestProgram \/ Sample
  BY <1>2 DEF TestProgram, Sample, ReadingsInv, worldVars, unitVars, lightVars
<1>3. CASE Update
  BY <1>3 DEF Update, ReadingsInv, worldVars, lightVars
<1>4. CASE CupUnchanged \/ CupPutDown
  BY <1>4 DEF CupUnchanged, CupPutDown, Turns, worldVars, lightVars
<1>5. CASE CupTakenAway
  BY <1>5 DEF CupTakenAway, Turns, worldVars, lightVars
<1>6. CASE SequencePixel
  <2>1. ASSUME NEW c \in Cup, ~initRun, new[c] = old[c]
        PROVE  shown'[c] = shown[c]
    BY <1>6, <2>1 DEF SequencePixel, ReadingsInv, TypeOK
  <2> QED
    BY <1>6, <2>1 DEF SequencePixel, worldVars
<1>7. CASE SequenceEnds
  BY <1>7 DEF SequenceEnds, worldVars, lightVars
<1>8. CASE WriteLights
  <2>1. ASSUME NEW c \in Cup
        PROVE  Lit(c, new[c])' /\ cupLights'[c] = LightOf(new[c])
    BY <1>8, WrittenLights DEF WriteLights
  <2> QED
    BY <1>8, <2>1 DEF WriteLights
<1>9. CASE CheckInput \/ Loop
  BY <1>9 DEF CheckInput, Loop, worldVars, lightVars
<1>10. CASE UNCHANGED vars
  BY <1>10 DEF vars, worldVars, unitVars, lightVars
<1> QED
  BY <1>1, <1>2, <1>3, <1>4, <1>5, <1>6, <1>7, <1>8, <1>9, <1>10 DEF Next, Board

LEMMA BoardInvariant == Spec => []BoardInv
<1>1. BoardInv /\ [Next]_vars => BoardInv'
  BY BoardTypeStep, ReadingsStep, BufferStep, LightsStep DEF BoardInv
<1> QED
  BY <1>1, BoardInvInit, PTL DEF Spec

\* The light buffer, which nothing initialises, is never sent before it has
\* been filled, and keeps the colour of every cup between updates.
THEOREM BufferIsFilled == Spec => []BufferFollowsReadings
<1>1. ASSUME BoardInv, ~initRun PROVE Settled \/ Updating
  BY <1>1 DEF BoardInv, ReadingsInv, Settled, Updating, TypeOK, BoardPC
<1>2. BoardInv => cupId \in Int /\ Cup \subseteq Int
  BY BoardAssumption DEF BoardInv, TypeOK, Cup
<1>3. ASSUME BoardInv, ~initRun, NEW c \in Cup
      PROVE  lightBuf[c] = LightOf(IF Updating /\ c < cupId THEN new[c] ELSE old[c])
  <2>1. CASE Updating
    <3>1. c < cupId \/ c >= cupId
      BY <1>2, <1>3
    <3> QED
      BY <1>2, <1>3, <2>1, <3>1 DEF BoardInv, BufferInv
  <2>2. CASE ~Updating
    BY <1>1, <1>3, <2>2 DEF BoardInv, BufferInv
  <2> QED
    BY <2>1, <2>2
<1>4. ASSUME BoardInv, bpc = "cups", NEW c \in Cup, c < cupId
      PROVE  lightBuf[c] = LightOf(new[c])
  BY <1>4 DEF BoardInv, BufferInv, Updating
<1>5. BoardInv => BufferFollowsReadings
  BY <1>3, <1>4 DEF BufferFollowsReadings, Updating
<1> QED
  BY <1>5, BoardInvariant, PTL

\* Between two updates the lights show the last reading of every cup.
THEOREM LightsShowSample == Spec => []LightsMatchSample
<1>1. BoardInv => LightsMatchSample
  BY DEF BoardInv, ReadingsInv, LightsInv, Lit, Settled, LightsMatchSample
<1> QED
  BY <1>1, BoardInvariant, PTL

\* No update touches the light of a cup whose reading has not changed.
THEOREM LightsDoNotFlicker == Spec => OthersKeepTheirLight
<1>1. ASSUME BoardInv, [Next]_vars, ~initRun, Updating, NEW c \in Cup, new[c] = old[c]
      PROVE  shown'[c] = shown[c]
  <2> USE <1>1 DEF BoardInv, Updating
  <2>1. CASE CupMoves \/ RequestArrives
    BY <2>1 DEF CupMoves, RequestArrives, lightVars
  <2>2. CASE TestProgram \/ Sample \/ Update \/ CheckInput \/ Loop
    BY <2>2 DEF TestProgram, Sample, Update, CheckInput, Loop
  <2>3. CASE CupUnchanged \/ CupPutDown \/ CupTakenAway \/ SequenceEnds
    BY <2>3 DEF CupUnchanged, CupPutDown, CupTakenAway, SequenceEnds, lightVars
  <2>4. CASE SequencePixel
    BY <2>4 DEF SequencePixel, ReadingsInv, TypeOK
  <2>5. CASE WriteLights
    <3>1. shown'[c] = [l \in Led |-> LightOf(new[c])]
      BY <2>5, WrittenLights
    <3>2. shown[c] = [l \in Led |-> LightOf(old[c])]
      BY <1>1 DEF LightsInv, Lit
    <3> QED
      BY <1>1, <3>1, <3>2
  <2>6. CASE UNCHANGED vars
    BY <2>6 DEF vars, lightVars
  <2> QED
    BY <2>1, <2>2, <2>3, <2>4, <2>5, <2>6 DEF Next, Board
<1>2. BoardInv /\ [Next]_vars =>
        [(~initRun /\ bpc \in {"cups", "sequence"}) =>
           \A c \in Cup : new[c] = old[c] => shown'[c] = shown[c]]_vars
  BY <1>1 DEF Updating
<1> QED
  BY <1>2, BoardInvariant, PTL DEF Spec, OthersKeepTheirLight

\* Nothing that arrives on the serial line changes the state of the table,
\* however long the board runs and whatever is requested: what checkInputData()
\* reads at a time is never as long as a package.
THEOREM NoRequestIsServed == Spec => [](ctrlState = "automatic")
<1>1. BoardInv => ctrlState = "automatic"
  BY DEF BoardInv, ReadingsInv
<1> QED
  BY <1>1, BoardInvariant, PTL

=============================================================================
