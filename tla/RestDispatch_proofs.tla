------------------------ MODULE RestDispatch_proofs ------------------------
(***************************************************************************)
(* What RestDispatch keeps, for any number of cups, edge lights, sensors,  *)
(* system controllers and table slots, and for any payloads.               *)
(***************************************************************************)
EXTENDS RestDispatch, TLAPS

\* A byte of a payload, or past its end, is a byte.
LEMMA ByteIsByte ==
    ASSUME NEW p \in Seq(Byte), NEW k \in Nat
    PROVE  ByteAt(p, k) \in Byte
<1>1. CASE k < Len(p)
  <2>1. k + 1 \in 1 .. Len(p)  BY <1>1
  <2>2. p[k + 1] \in Byte  BY <2>1
  <2> QED  BY <1>1, <2>2 DEF ByteAt
<1>2. CASE ~(k < Len(p))
  BY <1>2 DEF ByteAt, Byte
<1> QED  BY <1>1, <1>2

\* An entry of a payload holds an id and a colour.
LEMMA EntryIsColour ==
    ASSUME NEW p \in Seq(Byte), NEW i \in Nat
    PROVE  /\ IdAt(p, i) \in Byte
           /\ RgbAt(p, i) \in Rgb
<1>1. \A k \in 0 .. 3 : EntrySize * i + k \in Nat  BY DEF EntrySize
<1>2. \A k \in 0 .. 3 : ByteAt(p, EntrySize * i + k) \in Byte
  BY <1>1, ByteIsByte
<1>3. IdAt(p, i) \in Byte
  <2>1. EntrySize * i \in Nat  BY DEF EntrySize
  <2> QED  BY <2>1, ByteIsByte DEF IdAt
<1>4. RgbAt(p, i) \in Rgb
  BY <1>2 DEF RgbAt, Rgb
<1> QED  BY <1>3, <1>4

\* No on time exceeds the resolution of the driver, so that setPwm() never
\* refuses one and the off time is not negative.
LEMMA PwmInRange ==
    ASSUME NEW value \in Byte
    PROVE  Pwm(CalcPwmOnTime(value)) \in [on : PwmTime, off : PwmTime]
<1>1. CalcPwmOnTime(value) \in 0 .. 4096
  BY DEF CalcPwmOnTime, PwmMaxResolution, Byte
<1>2. PICK t \in 0 .. 4096 : t = CalcPwmOnTime(value)  BY <1>1
<1>3. t \in PwmTime /\ PwmMaxResolution - t \in PwmTime
  BY DEF PwmTime, PwmMaxResolution
<1>4. [on |-> t, off |-> PwmMaxResolution - t] \in [on : PwmTime, off : PwmTime]
  BY <1>3
<1>5. Pwm(CalcPwmOnTime(value)) = [on |-> t, off |-> PwmMaxResolution - t]
  BY <1>2, Zenon DEF Pwm
<1> QED  BY <1>4, <1>5

LEMMA ColourIsRgb ==
    ASSUME NEW r \in Byte, NEW g \in Byte, NEW b \in Byte
    PROVE  Colour(r, g, b) \in Rgb
BY DEF Colour, Rgb

LEMMA LampIsRgb == Green \in Rgb /\ Red \in Rgb /\ Blue \in Rgb
<1>1. 0 \in Byte /\ 255 \in Byte  BY DEF Byte
<1>2. Green \in Rgb  BY <1>1, ColourIsRgb DEF Green
<1>3. Red \in Rgb  BY <1>1, ColourIsRgb DEF Red
<1>4. Blue \in Rgb  BY <1>1, ColourIsRgb DEF Blue
<1> QED  BY <1>2, <1>3, <1>4

\* Colours for the cups make a strip.
LEMMA PlainIsStrip ==
    ASSUME NEW colours \in [Cup -> Rgb]
    PROVE  Plain(colours) \in [Cup -> [Led -> Rgb]]
BY DEF Plain

\* The size a PUT passes is a byte, whatever the payload.
LEMMA SizeIsByte ==
    ASSUME NEW p \in Payload
    PROVE  /\ p \in Seq(Byte)
           /\ Len(p) \in 0 .. 254
           /\ SizePassed(p) \in 0 .. 255
<1>1. p \in Seq(Byte) /\ Len(p) < 255
  BY DispatchAssumption DEF Payloads, MaxPayloadSize
<1>2. Len(p) \in Nat  BY <1>1
<1>3. \A n \in Nat : (n + 13) % 256 \in 0 .. 255  OBVIOUS
<1>4. SizePassed(p) \in 0 .. 255  BY <1>2, <1>3 DEF SizePassed, RawSize, PackageHeaderSize
<1>5. \A n \in Nat : n < 255 => n \in 0 .. 254  OBVIOUS
<1>6. Len(p) \in 0 .. 254  BY <1>1, <1>2, <1>5
<1> QED  BY <1>1, <1>4, <1>6

------------------------------------------------------------------------------
(* Types                                                                   *)

LEMMA BeginKeepsType ==
    ASSUME WriteTypeOK, NEW who \in {"light", "edge"}, NEW p \in Seq(Byte),
           NEW size \in 0 .. 255, NEW accepts \in BOOLEAN,
           Begin(who, p, size, accepts)
    PROVE  WriteTypeOK'
<1>1. size \div EntrySize \in 0 .. 63  BY DEF EntrySize
<1>2. entries' \in 0 .. 63  BY <1>1 DEF Begin
<1>3. entry' \in 0 .. entries'  BY <1>2 DEF Begin
<1>4. writing' \in {"none", "refused", "light", "edge"}  BY DEF Begin
<1> QED  BY <1>2, <1>3, <1>4 DEF WriteTypeOK, Begin

LEMMA StepsKeepType ==
    ASSUME WriteTypeOK, Return \/ Stray \/ (NextEntry /\ entry < entries)
    PROVE  WriteTypeOK'
<1>1. CASE Return
  BY <1>1 DEF WriteTypeOK, Return
<1>2. CASE Stray
  BY <1>2 DEF WriteTypeOK, Stray
<1>3. CASE NextEntry /\ entry < entries
  BY <1>3 DEF WriteTypeOK, NextEntry
<1> QED  BY <1>1, <1>2, <1>3

LEMMA LightKeepsType ==
    ASSUME WriteTypeOK, LightTypeOK, LightStep
    PROVE  WriteTypeOK' /\ LightTypeOK'
<1>1. entry \in Nat /\ payload \in Seq(Byte)  BY DEF WriteTypeOK
<1>2. CASE LightSet
  <2>1. WriteTypeOK'  BY <1>2, StepsKeepType DEF LightSet, At
  <2>2. RgbAt(payload, entry) \in Rgb  BY <1>1, EntryIsColour
  <2> QED  BY <1>2, <2>1, <2>2 DEF LightSet, LightTypeOK
<1>3. CASE LightRefusesEntry
  <2>1. WriteTypeOK'  BY <1>3, StepsKeepType DEF LightRefusesEntry, At
  <2> QED  BY <1>3, <2>1 DEF LightRefusesEntry, LightTypeOK, lightVars
<1>4. CASE LightStrays
  <2>1. WriteTypeOK'  BY <1>4, StepsKeepType DEF LightStrays
  <2> QED  BY <1>4, <2>1 DEF LightStrays, LightTypeOK, lightVars
<1>5. CASE LightShow
  <2>1. WriteTypeOK'  BY <1>5, StepsKeepType DEF LightShow
  <2>2. shown' \in [Cup -> [Led -> Rgb]]
    BY <1>5, PlainIsStrip DEF LightShow, LightTypeOK
  <2> QED  BY <1>5, <2>1, <2>2 DEF LightShow, LightTypeOK
<1> QED  BY <1>2, <1>3, <1>4, <1>5 DEF LightStep

LEMMA EdgeKeepsType ==
    ASSUME WriteTypeOK, EdgeTypeOK, EdgeStep
    PROVE  WriteTypeOK' /\ EdgeTypeOK'
<1>1. entry \in Nat /\ payload \in Seq(Byte)  BY DEF WriteTypeOK
<1>2. CASE EdgeSet
  <2> DEFINE e == IdAt(payload, entry)
  <2>1. WriteTypeOK'  BY <1>2, StepsKeepType DEF EdgeSet, At
  <2>2. RgbAt(payload, entry) \in Rgb  BY <1>1, EntryIsColour
  <2>3. e \in Edge /\ edge' = [edge EXCEPT ![e] = RgbAt(payload, entry)]
    BY <1>2 DEF EdgeSet
  <2>4. edge' \in [Edge -> Rgb]  BY <2>2, <2>3 DEF EdgeTypeOK
  <2>5. ASSUME NEW ch \in Channel, ch - e \in 0 .. 2
        PROVE  Pwm(CalcPwmOnTime(edge'[e][ch - e + 1])) \in [on : PwmTime, off : PwmTime]
    <3>1. ch - e + 1 \in 1 .. 3  BY <2>5, <2>3 DEF Edge, Channel
    <3>2. edge'[e][ch - e + 1] \in Byte  BY <3>1, <2>3, <2>4 DEF Rgb
    <3> QED  BY <3>2, PwmInRange
  <2>6. pwm' \in [Channel -> [on : PwmTime, off : PwmTime]]
    BY <1>2, <2>5 DEF EdgeSet, EdgeTypeOK
  <2>7. writer' \in [Channel -> Edge \cup {Nobody}]
    BY <1>2, <2>3 DEF EdgeSet, EdgeTypeOK
  <2> QED  BY <2>1, <2>4, <2>6, <2>7 DEF EdgeTypeOK
<1>3. CASE EdgeStrays
  <2>1. WriteTypeOK'  BY <1>3, StepsKeepType DEF EdgeStrays
  <2> QED  BY <1>3, <2>1 DEF EdgeStrays, EdgeTypeOK, edgeVars
<1>4. CASE EdgeRefusesRest
  <2>1. WriteTypeOK'  BY <1>4, StepsKeepType DEF EdgeRefusesRest
  <2> QED  BY <1>4, <2>1 DEF EdgeRefusesRest, EdgeTypeOK, edgeVars
<1>5. CASE EdgeReturn
  <2>1. WriteTypeOK'  BY <1>5, StepsKeepType DEF EdgeReturn
  <2> QED  BY <1>5, <2>1 DEF EdgeReturn, EdgeTypeOK, edgeVars
<1> QED  BY <1>2, <1>3, <1>4, <1>5 DEF EdgeStep

LEMMA InitTyped == Init => RestTypeOK
<1> SUFFICES ASSUME Init PROVE RestTypeOK  OBVIOUS
<1>1. WriteTypeOK
  <2>1. entry \in 0 .. entries  BY DEF Init, WriteInit
  <2>2. payload \in Seq(Byte)  BY DEF Init, WriteInit
  <2>3. writing \in {"none", "refused", "light", "edge"}  BY DEF Init, WriteInit
  <2>4. entries \in 0 .. 63  BY DEF Init, WriteInit
  <2>5. lost \in BOOLEAN  BY Zenon DEF Init, WriteInit
  <2> QED  BY <2>1, <2>2, <2>3, <2>4, <2>5 DEF WriteTypeOK
<1>2. LightTypeOK
  BY LampIsRgb, PlainIsStrip DEF Init, LightInit, LightTypeOK
<1>3. EdgeTypeOK
  <2>1. Colour(255, 0, 0) \in Rgb  BY LampIsRgb DEF Red
  <2> QED  BY <2>1 DEF Init, EdgeInit, EdgeTypeOK, PwmTime, PwmMaxResolution
<1>4. table \in Seq(Controller)  BY DEF Init
<1>5. ctrlState \in [SystemObject -> ControllerState]
  BY DEF Init, ControllerState, Automatic
<1>6. shiftReg \in [Sensor -> BOOLEAN] /\ binaries \in [Cup -> BOOLEAN]  BY DEF Init
<1>7. cupId \in {NoUpdate} \cup 0 .. NumOfCups /\ led \in 0 .. LedsPerCup
  BY CupAssumption DEF Init
<1> QED  BY <1>1, <1>2, <1>3, <1>4, <1>5, <1>6, <1>7 DEF Init, RestTypeOK

LEMMA NextTyped == RestTypeOK /\ [Next]_vars => RestTypeOK'
<1> SUFFICES ASSUME RestTypeOK, [Next]_vars PROVE RestTypeOK'  OBVIOUS
<1> USE DEF RestTypeOK
<1>1. ASSUME NEW ctrl \in Controller, AddController(ctrl) PROVE RestTypeOK'
  <2>1. WriteTypeOK' /\ LightTypeOK' /\ EdgeTypeOK'
    BY <1>1 DEF AddController, writeVars, lightVars, edgeVars, WriteTypeOK, LightTypeOK, EdgeTypeOK
  <2> QED  BY <1>1, <2>1 DEF AddController, stateVars, sensorVars
<1>2. ASSUME NEW word \in [Sensor -> BOOLEAN], Run(word) PROVE RestTypeOK'
  <2> DEFINE readings == IF Serves("sensor", "sensor") THEN word ELSE shiftReg
  <2>1. readings \in [Sensor -> BOOLEAN]  OBVIOUS
  <2>2. WriteTypeOK' /\ EdgeTypeOK'
    BY <1>2 DEF Run, writeVars, edgeVars, WriteTypeOK, EdgeTypeOK
  <2>3. LightTypeOK'
    BY <1>2 DEF Run, LightTypeOK, lightVars
  <2>4. shiftReg' = readings /\ missed' \in BOOLEAN /\ started' \in BOOLEAN
    BY <1>2 DEF Run
  <2>5. cupId' \in {NoUpdate} \cup 0 .. NumOfCups
    BY <1>2, CupAssumption DEF Run
  <2>6. UNCHANGED <<table, ctrlState, binaries, led>>  BY <1>2 DEF Run, stateVars
  <2> QED  BY <2>1, <2>2, <2>3, <2>4, <2>5, <2>6
<1>3. ASSUME NEW p \in Payload, PutLight(p) \/ WriteLights(p) PROVE RestTypeOK'
  <2>1. PICK size \in 0 .. 255 : LightWrite(p, size)
    <3>1. Len(p) \in 0 .. 255 /\ SizePassed(p) \in 0 .. 255  BY SizeIsByte
    <3> QED  BY <1>3, <3>1 DEF PutLight, WriteLights
  <2>2. WriteTypeOK'
    BY <2>1, SizeIsByte, BeginKeepsType DEF LightWrite
  <2>3. LightTypeOK'  BY <2>1 DEF LightWrite, lightVars, LightTypeOK
  <2>4. UNCHANGED <<edgeVars, tableVars, stateVars, sensorVars>>
    BY <1>3 DEF PutLight, WriteLights
  <2>5. EdgeTypeOK'  BY <2>4 DEF edgeVars, EdgeTypeOK
  <2> QED  BY <2>2, <2>3, <2>4, <2>5 DEF tableVars, stateVars, sensorVars
<1>4. ASSUME NEW p \in Payload, PutEdge(p) \/ WriteEdges(p) PROVE RestTypeOK'
  <2>1. PICK size \in 0 .. 255 : EdgeWrite(p, size)
    <3>1. Len(p) \in 0 .. 255 /\ SizePassed(p) \in 0 .. 255  BY SizeIsByte
    <3> QED  BY <1>4, <3>1 DEF PutEdge, WriteEdges
  <2>2. WriteTypeOK'
    BY <2>1, SizeIsByte, BeginKeepsType DEF EdgeWrite
  <2>3. EdgeTypeOK'  BY <2>1 DEF EdgeWrite, edgeVars, EdgeTypeOK
  <2>4. UNCHANGED <<lightVars, tableVars, stateVars, sensorVars>>
    BY <1>4 DEF PutEdge, WriteEdges
  <2>5. LightTypeOK'  BY <2>4 DEF lightVars, LightTypeOK
  <2> QED  BY <2>2, <2>3, <2>4, <2>5 DEF tableVars, stateVars, sensorVars
<1>5. ASSUME NEW p \in Payload, NEW s \in SystemObject, PutSystem(s, p) PROVE RestTypeOK'
  <2>1. WriteTypeOK' /\ LightTypeOK' /\ EdgeTypeOK'
    BY <1>5 DEF PutSystem, writeVars, lightVars, edgeVars, WriteTypeOK, LightTypeOK, EdgeTypeOK
  <2> QED  BY <1>5, <2>1 DEF PutSystem, tableVars, sensorVars
<1>6. CASE GetEdgeStrays
  <2>1. WriteTypeOK'  BY <1>6, StepsKeepType DEF GetEdgeStrays
  <2>2. LightTypeOK' /\ EdgeTypeOK'
    BY <1>6 DEF GetEdgeStrays, lightVars, edgeVars, LightTypeOK, EdgeTypeOK
  <2> QED  BY <1>6, <2>1, <2>2 DEF GetEdgeStrays, tableVars, stateVars, sensorVars
<1>7. CASE LightStep /\ UNCHANGED <<edgeVars, tableVars, stateVars, sensorVars>>
  <2>1. WriteTypeOK' /\ LightTypeOK'  BY <1>7, LightKeepsType
  <2>2. EdgeTypeOK'  BY <1>7 DEF edgeVars, EdgeTypeOK
  <2> QED  BY <1>7, <2>1, <2>2 DEF tableVars, stateVars, sensorVars
<1>8. CASE EdgeStep /\ UNCHANGED <<lightVars, tableVars, stateVars, sensorVars>>
  <2>1. WriteTypeOK' /\ EdgeTypeOK'  BY <1>8, EdgeKeepsType
  <2>2. LightTypeOK'  BY <1>8 DEF lightVars, LightTypeOK
  <2> QED  BY <1>8, <2>1, <2>2 DEF tableVars, stateVars, sensorVars
<1>9. CASE WriteRefused
  <2>1. WriteTypeOK'  BY <1>9, StepsKeepType DEF WriteRefused
  <2>2. LightTypeOK' /\ EdgeTypeOK'
    BY <1>9 DEF WriteRefused, lightVars, edgeVars, LightTypeOK, EdgeTypeOK
  <2> QED  BY <1>9, <2>1, <2>2 DEF WriteRefused, tableVars, stateVars, sensorVars
<1>10. CASE SequencePixel
  <2>1. WriteTypeOK' /\ EdgeTypeOK'
    BY <1>10 DEF SequencePixel, writeVars, edgeVars, WriteTypeOK, EdgeTypeOK
  <2>2. shown' \in [Cup -> [Led -> Rgb]]
    BY <1>10, LampIsRgb DEF SequencePixel, LightTypeOK
  <2>3. LightTypeOK'  BY <1>10, <2>2 DEF SequencePixel, LightTypeOK
  <2>4. led' \in 0 .. LedsPerCup
    BY <1>10, CupAssumption DEF SequencePixel, Led
  <2> QED  BY <1>10, <2>1, <2>3, <2>4 DEF SequencePixel, tableVars, stateVars
<1>11. CASE NextCup
  <2>1. WriteTypeOK' /\ LightTypeOK' /\ EdgeTypeOK'
    BY <1>11 DEF NextCup, writeVars, lightVars, edgeVars, WriteTypeOK, LightTypeOK, EdgeTypeOK
  <2>2. cupId' \in 0 .. NumOfCups /\ led' \in 0 .. LedsPerCup
    BY <1>11, CupAssumption DEF NextCup, Cup
  <2> QED  BY <1>11, <2>1, <2>2 DEF NextCup, tableVars, stateVars
<1>12. CASE UpdateEnds
  <2>1. WriteTypeOK' /\ EdgeTypeOK'
    BY <1>12 DEF UpdateEnds, writeVars, edgeVars, WriteTypeOK, EdgeTypeOK
  <2>2. Cup \subseteq Sensor
    BY CupAssumption, DispatchAssumption DEF Cup, Sensor
  <2>3. cupLights' \in [Cup -> Rgb]
    BY <1>12, LampIsRgb DEF UpdateEnds, LightOf
  <2>4. LightTypeOK'
    BY <1>12, <2>3, PlainIsStrip DEF UpdateEnds, LightTypeOK
  <2>5. binaries' \in [Cup -> BOOLEAN]
    BY <1>12, <2>2 DEF UpdateEnds
  <2> QED  BY <1>12, <2>1, <2>4, <2>5 DEF UpdateEnds, stateVars
<1>13. CASE UNCHANGED vars
  <2>1. WriteTypeOK' /\ LightTypeOK' /\ EdgeTypeOK'
    BY <1>13 DEF vars, writeVars, lightVars, edgeVars, WriteTypeOK, LightTypeOK, EdgeTypeOK
  <2> QED  BY <1>13, <2>1 DEF vars, tableVars, stateVars, sensorVars
<1> QED
  BY <1>1, <1>2, <1>3, <1>4, <1>5, <1>6, <1>7, <1>8, <1>9, <1>13, <1>10, <1>11, <1>12
  DEF Next, WriteStep

\* Whatever is asked of the board, its state stays within its types: the loop
\* counters within the payload, ids within the lights, PWM times within the
\* resolution.
THEOREM DispatchTypeCorrect == Spec => []RestTypeOK
BY InitTyped, NextTyped, PTL DEF Spec

------------------------------------------------------------------------------
(* Channels                                                                *)

LEMMA ChannelsNext ==
    RestTypeOK /\ ChannelsShowWriter /\ [Next]_vars => ChannelsShowWriter'
<1> SUFFICES ASSUME RestTypeOK, ChannelsShowWriter, [Next]_vars
             PROVE  ChannelsShowWriter'
  OBVIOUS
<1>1. CASE EdgeSet
  <2> DEFINE e == IdAt(payload, entry)
  <2>1. /\ e \in Edge
        /\ edge' = [edge EXCEPT ![e] = RgbAt(payload, entry)]
        /\ ~lost
    BY <1>1 DEF EdgeSet, At
  <2>2. SUFFICES ASSUME NEW ch \in Channel, writer'[ch] # Nobody
                 PROVE  /\ ch - writer'[ch] \in 0 .. 2
                        /\ pwm'[ch] = Pwm(CalcPwmOnTime(edge'[writer'[ch]][ch - writer'[ch] + 1]))
    BY DEF ChannelsShowWriter
  <2>3. CASE ch - e \in 0 .. 2
    <3>1. writer'[ch] = e
      BY <1>1, <2>3 DEF EdgeSet
    <3>2. pwm'[ch] = Pwm(CalcPwmOnTime(edge'[e][ch - e + 1]))
      BY <1>1, <2>3 DEF EdgeSet
    <3> QED  BY <2>3, <3>1, <3>2
  <2>4. CASE ch - e \notin 0 .. 2
    <3>1. writer'[ch] = writer[ch] /\ pwm'[ch] = pwm[ch]
      BY <1>1, <2>4 DEF EdgeSet
    <3>2. /\ ch - writer[ch] \in 0 .. 2
          /\ pwm[ch] = Pwm(CalcPwmOnTime(edge[writer[ch]][ch - writer[ch] + 1]))
      BY <2>1, <2>2, <3>1 DEF ChannelsShowWriter
    <3>3. writer[ch] \in Edge /\ writer[ch] # e
      BY <2>2, <2>4, <3>1, <3>2 DEF RestTypeOK, EdgeTypeOK
    <3>4. edge'[writer[ch]] = edge[writer[ch]]
      BY <2>1, <3>3 DEF RestTypeOK, EdgeTypeOK
    <3> QED  BY <3>1, <3>2, <3>4
  <2> QED  BY <2>3, <2>4
<1>2. CASE lost'
  BY <1>2 DEF ChannelsShowWriter
<1>3. CASE UNCHANGED edgeVars /\ ~lost
  BY <1>3 DEF edgeVars, ChannelsShowWriter
<1>4. ASSUME NEW ctrl \in Controller, AddController(ctrl)
      PROVE  UNCHANGED <<edgeVars, lost>>
  BY <1>4 DEF AddController, writeVars
<1>5. ASSUME NEW word \in [Sensor -> BOOLEAN], Run(word)
      PROVE  UNCHANGED <<edgeVars, lost>>
  BY <1>5 DEF Run, writeVars
<1>6. ASSUME SequencePixel \/ NextCup \/ UpdateEnds
       PROVE  UNCHANGED <<edgeVars, lost>>
  BY <1>6 DEF SequencePixel, NextCup, UpdateEnds, writeVars
<1>7. ASSUME NEW p \in Payload, PutLight(p) \/ PutEdge(p) \/ WriteLights(p) \/ WriteEdges(p)
      PROVE  UNCHANGED <<edgeVars, lost>>
  BY <1>7 DEF PutLight, PutEdge, WriteLights, WriteEdges, LightWrite, EdgeWrite, Begin
<1>8. ASSUME NEW p \in Payload, NEW s \in SystemObject, PutSystem(s, p)
      PROVE  UNCHANGED <<edgeVars, lost>>
  BY <1>8 DEF PutSystem, writeVars
<1>9. CASE GetEdgeStrays \/ EdgeStrays \/ LightStrays
  <2>1. lost'  BY <1>9 DEF GetEdgeStrays, EdgeStrays, LightStrays, Stray
  <2> QED  BY <1>2, <2>1
<1>10. ASSUME EdgeRefusesRest \/ EdgeReturn
      PROVE  UNCHANGED <<edgeVars, lost>>
  BY <1>10 DEF EdgeRefusesRest, EdgeReturn, Return
<1>11. ASSUME LightSet \/ LightRefusesEntry \/ LightShow
       PROVE  UNCHANGED lost
  BY <1>11 DEF LightSet, LightRefusesEntry, LightShow, NextEntry, Return
<1>12. ASSUME WriteRefused PROVE UNCHANGED <<edgeVars, lost>>
  BY <1>12 DEF WriteRefused, Return
<1>13. UNCHANGED vars => UNCHANGED <<edgeVars, lost>>
  BY DEF vars, writeVars
<1>14. UNCHANGED <<edgeVars, lost>> => ChannelsShowWriter'
  BY DEF edgeVars, ChannelsShowWriter
<1>15. CASE WriteStep
  BY <1>1, <1>9, <1>10, <1>11, <1>14, <1>15 DEF WriteStep, LightStep, EdgeStep
<1> QED
  BY <1>4, <1>5, <1>7, <1>8, <1>9, <1>12, <1>13, <1>14, <1>15, <1>6 DEF Next

\* Edge lights share channels, and a channel always carries its last writer's
\* colour as recorded, after writes that fail half way too.
THEOREM ChannelsAgree == Spec => []ChannelsShowWriter
<1>1. Init => ChannelsShowWriter
  BY DEF Init, EdgeInit, ChannelsShowWriter
<1> QED
  BY <1>1, InitTyped, NextTyped, ChannelsNext, PTL DEF Spec

------------------------------------------------------------------------------
(* The lights follow the readings                                          *)

\* Before the first run() every system controller is as it was constructed.
Fresh == ~started => \A s \in SystemObject : ctrlState[s] = Automatic

LightsInv == Fresh /\ LightsFollowUnlessAsked

LEMMA FreshNext == RestTypeOK /\ Fresh /\ [Next]_vars => Fresh'
<1> SUFFICES ASSUME RestTypeOK, Fresh, [Next]_vars PROVE Fresh'  OBVIOUS
<1>1. ASSUME NEW p \in Payload, NEW s \in SystemObject, PutSystem(s, p) PROVE Fresh'
  BY <1>1 DEF PutSystem, tableVars, Fresh
<1>2. ASSUME NEW word \in [Sensor -> BOOLEAN], Run(word) PROVE Fresh'
  BY <1>2 DEF Run, Fresh, stateVars
<1>3. CASE SequencePixel \/ NextCup \/ UpdateEnds
  BY <1>3 DEF SequencePixel, NextCup, UpdateEnds, Fresh, tableVars, stateVars
<1>4. UNCHANGED <<started, ctrlState>> => Fresh'
  BY DEF Fresh
<1>5. ASSUME NEW ctrl \in Controller, AddController(ctrl) PROVE UNCHANGED <<started, ctrlState>>
  BY <1>5 DEF AddController, stateVars
<1>6. ASSUME NEW p \in Payload, PutLight(p) \/ PutEdge(p) \/ WriteLights(p) \/ WriteEdges(p)
      PROVE  UNCHANGED <<started, ctrlState>>
  BY <1>6 DEF PutLight, PutEdge, WriteLights, WriteEdges, tableVars, stateVars
<1>7. ASSUME GetEdgeStrays \/ WriteStep \/ WriteRefused
      PROVE  UNCHANGED <<started, ctrlState>>
  BY <1>7 DEF GetEdgeStrays, WriteStep, WriteRefused, tableVars, stateVars
<1>8. UNCHANGED vars => UNCHANGED <<started, ctrlState>>
  BY DEF vars, tableVars, stateVars
<1> QED
  BY <1>1, <1>2, <1>4, <1>5, <1>6, <1>7, <1>8, <1>3 DEF Next

\* The two halves of LightsFollowUnlessAsked.
Sent == writing # "light" => shown = Plain(cupLights)

Followed ==
    started /\ ~missed
      /\ Serves("light", "light") /\ (\E s \in SystemObject : Serves(s, "system"))
      => \A c \in Cup \ touched : cupLights[c] = LightOf(shiftReg[c])

LEMMA Halves == LightsFollowUnlessAsked <=> (~lost /\ cupId = NoUpdate => Sent /\ Followed)
BY DEF LightsFollowUnlessAsked, Sent, Followed

\* A run() that is not an update, or the end of an update.
LEMMA RunFollows ==
    ASSUME RestTypeOK, Fresh, ~lost, Sent, Followed,
           NEW word \in [Sensor -> BOOLEAN], Run(word), cupId' = NoUpdate
    PROVE  Sent' /\ Followed'
<1> DEFINE readings == IF Serves("sensor", "sensor") THEN word ELSE shiftReg
           update   == Follows /\ (readings # shiftReg \/ ~started)
<1>1. /\ writing = "none" /\ UNCHANGED <<writing, table, ctrlState>>
      /\ shiftReg' = readings
      /\ UNCHANGED lightVars
  BY DEF Run, Free, Idle, writeVars, stateVars
<1>2. ~update /\ missed' = (missed \/ readings # shiftReg)
  BY DEF Run, NoUpdate
<1>3. Sent'  BY <1>1 DEF Sent, lightVars
<1>4. SUFFICES ASSUME ~missed', Serves("light", "light")',
                      NEW s \in SystemObject, Serves(s, "system")'
               PROVE  \A c \in Cup \ touched' : cupLights'[c] = LightOf(shiftReg'[c])
  BY <1>3 DEF Followed
<1>5. Serves("light", "light") /\ Serves(s, "system")
  BY <1>1, <1>4 DEF Serves
<1>6. ~missed /\ shiftReg' = shiftReg
  BY <1>1, <1>2, <1>4
<1>7. started
  BY <1>2, <1>5 DEF Fresh, Follows
<1> QED
  BY <1>1, <1>4, <1>5, <1>6, <1>7 DEF Followed, lightVars

LEMMA UpdateFollows == UpdateEnds => Sent' /\ Followed'
BY DEF UpdateEnds, Sent, Followed

LEMMA LightStepFollows ==
    ASSUME RestTypeOK, ~lost, Sent, Followed, LightStep,
           UNCHANGED <<edgeVars, tableVars, stateVars, sensorVars>>
    PROVE  ~lost' => Sent' /\ Followed'
<1>1. Serves("light", "light")' <=> Serves("light", "light")
  BY DEF Serves, tableVars
<1>2. \A s \in SystemObject : Serves(s, "system")' <=> Serves(s, "system")
  BY DEF Serves, tableVars
<1>3. CASE LightSet
  <2>1. writing' = "light"
    BY <1>3 DEF LightSet, At, NextEntry
  <2>2. \A c \in Cup \ touched' : c \in Cup \ touched /\ cupLights'[c] = cupLights[c]
    BY <1>3 DEF LightSet, RestTypeOK, LightTypeOK
  <2> QED
    BY <1>1, <1>2, <2>1, <2>2 DEF Sent, Followed, tableVars, sensorVars
<1>4. CASE LightRefusesEntry
  <2>1. writing' = "light" /\ UNCHANGED lightVars
    BY <1>4 DEF LightRefusesEntry, At, NextEntry
  <2> QED
    BY <1>1, <1>2, <2>1 DEF Sent, Followed, lightVars, tableVars, sensorVars
<1>5. CASE LightStrays
  BY <1>5 DEF LightStrays, Stray
<1>6. CASE LightShow
  <2>1. shown' = Plain(cupLights') /\ UNCHANGED <<cupLights, touched>>
    BY <1>6 DEF LightShow
  <2> QED
    BY <1>1, <1>2, <2>1 DEF Sent, Followed, tableVars, sensorVars
<1> QED  BY <1>3, <1>4, <1>5, <1>6 DEF LightStep

LEMMA LightsNext ==
    RestTypeOK /\ LightsInv /\ [Next]_vars => LightsInv'
<1> SUFFICES ASSUME RestTypeOK, Fresh, ~lost /\ cupId = NoUpdate => Sent /\ Followed,
                    [Next]_vars, ~lost', cupId' = NoUpdate
             PROVE  Sent' /\ Followed'
  BY FreshNext, Halves DEF LightsInv, LightsFollowUnlessAsked, Sent, Followed
<1> DEFINE Kept == /\ UNCHANGED <<lightVars, started, sensorVars, lost>>
                   /\ table' = table
                   /\ writing' # "light" => writing # "light"
<1>1. ASSUME Kept PROVE Sent' /\ Followed'
  <2>1. Serves("light", "light")' <=> Serves("light", "light")
    BY <1>1 DEF Serves
  <2>2. \A s \in SystemObject : Serves(s, "system")' <=> Serves(s, "system")
    BY <1>1 DEF Serves
  <2> QED
    BY <1>1, <2>1, <2>2 DEF Sent, Followed, lightVars, sensorVars
<1>2. ASSUME NEW ctrl \in Controller, AddController(ctrl) PROVE Sent' /\ Followed'
  BY <1>2 DEF AddController, Free, writeVars, lightVars, sensorVars, Sent, Followed
<1>3. ASSUME NEW word \in [Sensor -> BOOLEAN], Run(word) PROVE Sent' /\ Followed'
  <2>1. ~lost /\ cupId = NoUpdate  BY <1>3 DEF Run, Free, Idle
  <2> QED  BY <1>3, <2>1, RunFollows
<1>4. ~SequencePixel /\ ~NextCup
  BY DEF SequencePixel, NextCup, NoUpdate, Cup
<1>5. ASSUME NEW p \in Payload, PutLight(p) \/ WriteLights(p) PROVE Kept
  BY <1>5 DEF PutLight, WriteLights, LightWrite, Begin, Free, Idle, tableVars
<1>6. ASSUME NEW p \in Payload, PutEdge(p) \/ WriteEdges(p) PROVE Kept
  BY <1>6 DEF PutEdge, WriteEdges, EdgeWrite, Begin, Free, Idle, tableVars
<1>7. ASSUME NEW p \in Payload, NEW s \in SystemObject, PutSystem(s, p) PROVE Kept
  BY <1>7 DEF PutSystem, writeVars, tableVars
<1>8. ~GetEdgeStrays /\ ~EdgeStrays
  BY DEF GetEdgeStrays, EdgeStrays, Stray
<1>9. CASE LightStep /\ UNCHANGED <<edgeVars, tableVars, stateVars, sensorVars>>
  <2>1. ~lost
    BY <1>9 DEF LightStep, LightSet, LightRefusesEntry, LightStrays, LightShow, At
  <2>2. cupId = NoUpdate
    BY <1>9 DEF sensorVars
  <2> QED  BY <1>9, <2>1, <2>2, LightStepFollows
<1>10. ASSUME EdgeStep /\ UNCHANGED <<lightVars, tableVars, stateVars, sensorVars>>
      PROVE  Kept
  <2>1. writing = "edge" /\ UNCHANGED lost
    BY <1>8, <1>10 DEF EdgeStep, EdgeSet, EdgeRefusesRest, EdgeReturn, At, NextEntry, Return
  <2> QED  BY <1>10, <2>1 DEF tableVars
<1>11. ASSUME WriteRefused PROVE Kept
  BY <1>11 DEF WriteRefused, Return, tableVars
<1>12. ASSUME UNCHANGED vars PROVE Kept
  BY <1>12 DEF vars, writeVars, tableVars
<1> QED
  BY <1>1, <1>2, <1>3, <1>5, <1>6, <1>7, <1>8, <1>9, <1>10, <1>11, <1>12, <1>4,
     UpdateFollows DEF Next, WriteStep

\* After every write and update the strip shows the record, and in the automatic state the
\* lights show the readings but for what requests set since.
THEOREM LightsFollow == Spec => []LightsFollowUnlessAsked
<1>1. Init => LightsInv
  BY DEF Init, LightInit, LightsInv, Fresh, LightsFollowUnlessAsked
<1>2. LightsInv => LightsFollowUnlessAsked
  BY DEF LightsInv
<1> QED
  BY <1>1, <1>2, InitTyped, NextTyped, LightsNext, PTL DEF Spec

------------------------------------------------------------------------------
(* The strip changes as a whole                                            *)

LEMMA SameEntries ==
    /\ Strip!Cup = Cup /\ Strip!EntrySize = EntrySize /\ Strip!GetAll = GetAll
    /\ Strip!Green = Green /\ Strip!Red = Red /\ Strip!Blue = Blue /\ Strip!Led = Led
    /\ \A p, i : Strip!IdAt(p, i) = IdAt(p, i) /\ Strip!RgbAt(p, i) = RgbAt(p, i)
    /\ \A p : Strip!Sizes(p) = {Len(p), SizePassed(p)}
BY DEF Strip!Cup, Strip!EntrySize, Strip!GetAll, Strip!Green, Strip!Red, Strip!Blue,
   Strip!Colour, Strip!Led, Led, Blue,
   Strip!IdAt, Strip!RgbAt, Strip!ByteAt, Strip!Sizes, Strip!RawSize,
   Strip!PackageHeaderSize, Cup, EntrySize, GetAll, Green, Red, Colour, IdAt, RgbAt, ByteAt,
   SizePassed, RawSize, PackageHeaderSize

\* Of the first n + 1 entries the last decides for the cup it names, and for
\* another cup the entry that decided before it.
LEMMA LastDecides ==
    ASSUME NEW p, NEW n \in Nat, NEW c
    PROVE  /\ IdAt(p, n) = c => Strip!Deciding(p, n + 1, c) = {n}
           /\ IdAt(p, n) # c => Strip!Deciding(p, n + 1, c) = Strip!Deciding(p, n, c)
<1> DEFINE Named(m) == {i \in 0 .. m - 1 : IdAt(p, i) = c
                                           /\ \A j \in i + 1 .. m - 1 : IdAt(p, j) # c}
<1>1. \A m : Strip!Deciding(p, m, c) = Named(m)
  BY SameEntries DEF Strip!Deciding
<1>2. 0 .. (n + 1) - 1 = 0 .. n /\ (n + 1) - 1 = n
  OBVIOUS
<1>3. ASSUME IdAt(p, n) = c PROVE Named(n + 1) = {n}
  <2>1. n \in Named(n + 1)
    BY <1>2, <1>3
  <2>2. ASSUME NEW i \in Named(n + 1) PROVE i = n
    <3>1. i \in 0 .. n /\ \A j \in i + 1 .. n : IdAt(p, j) # c
      BY <1>2, <2>2
    <3>2. ~(n \in i + 1 .. n)
      BY <1>3, <3>1
    <3> QED  BY <3>1, <3>2
  <2> HIDE DEF Named
  <2> QED  BY <2>1, <2>2
<1>4. ASSUME IdAt(p, n) # c PROVE Named(n + 1) = Named(n)
  <2>1. ASSUME NEW i \in Named(n + 1) PROVE i \in Named(n)
    <3>1. i \in 0 .. n /\ IdAt(p, i) = c /\ \A j \in i + 1 .. n : IdAt(p, j) # c
      BY <1>2, <2>1
    <3>2. i \in 0 .. n - 1
      BY <1>4, <3>1
    <3>3. \A j \in i + 1 .. n - 1 : j \in i + 1 .. n
      BY <3>2
    <3> QED  BY <3>1, <3>2, <3>3
  <2>2. ASSUME NEW i \in Named(n) PROVE i \in Named(n + 1)
    <3>1. i \in 0 .. n - 1 /\ IdAt(p, i) = c /\ \A j \in i + 1 .. n - 1 : IdAt(p, j) # c
      BY <2>2
    <3>2. \A j \in i + 1 .. n : j = n \/ j \in i + 1 .. n - 1
      BY <3>1
    <3>3. \A j \in i + 1 .. n : IdAt(p, j) # c
      BY <1>4, <3>1, <3>2
    <3> QED  BY <1>2, <3>1, <3>3
  <2> HIDE DEF Named
  <2> QED  BY <2>1, <2>2
<1> QED  BY <1>1, <1>3, <1>4

\* What cup c shows after the entries that decide for it.
Decided(S, p, before) ==
    IF S = {} THEN before ELSE [l \in Led |-> RgbAt(p, CHOOSE i \in S : TRUE)]

LEMMA AfterDecides ==
    \A old, p, n : Strip!After(old, p, n) =
        [c \in Cup |-> Decided(Strip!Deciding(p, n, c), p, old[c])]
BY SameEntries DEF Strip!After, Decided

\* What the lights are after one entry more, for a cup or for none.
LEMMA AfterEntry ==
    ASSUME NEW p, NEW n \in Nat, NEW old, IdAt(p, n) \in Cup
    PROVE  Strip!After(old, p, n + 1) =
               [Strip!After(old, p, n) EXCEPT ![IdAt(p, n)] = [l \in Led |-> RgbAt(p, n)]]
<1>1. ASSUME NEW c, IdAt(p, n) = c
      PROVE  Decided(Strip!Deciding(p, n + 1, c), p, old[c]) = [l \in Led |-> RgbAt(p, n)]
  <2>1. Strip!Deciding(p, n + 1, c) = {n}
    BY <1>1, LastDecides
  <2>2. (CHOOSE i \in {n} : TRUE) = n
    OBVIOUS
  <2> QED  BY <2>1, <2>2 DEF Decided
<1>2. ASSUME NEW c, IdAt(p, n) # c
      PROVE  Strip!Deciding(p, n + 1, c) = Strip!Deciding(p, n, c)
  BY <1>2, LastDecides
<1> QED  BY <1>1, <1>2, AfterDecides

LEMMA AfterNoEntry ==
    ASSUME NEW p, NEW n \in Nat, NEW old, IdAt(p, n) \notin Cup
    PROVE  Strip!After(old, p, n + 1) = Strip!After(old, p, n)
<1>1. ASSUME NEW c \in Cup
      PROVE  Strip!Deciding(p, n + 1, c) = Strip!Deciding(p, n, c)
  BY LastDecides
<1> QED  BY <1>1, AfterDecides

LEMMA AfterNone ==
    ASSUME NEW p, NEW old \in [Cup -> [Led -> Rgb]]
    PROVE  Strip!After(old, p, 0) = old
<1>1. \A c : Strip!Deciding(p, 0, c) = {}
  BY DEF Strip!Deciding
<1> QED  BY <1>1, SameEntries DEF Strip!After

\* A write of the lights stands for one whole payload with a size that its
\* caller may give, and has brought the record as far as its entries go.
Underway ==
    /\ payload \in Payload
    /\ \E size \in {Len(payload), SizePassed(payload)} :
           size # 0 /\ size % EntrySize = 0 /\ entries = size \div EntrySize
    /\ \A i \in 0 .. entry - 1 : IdAt(payload, i) \in Cup \cup {GetAll}
    /\ Plain(cupLights) = Strip!After(shown, payload, entry)

OneColour(c) == \A k, l \in Led : shown[c][k] = shown[c][l]

\* An update has drawn the ring of the cup it is at as far as led, and every
\* other cup has one colour.
Drawn ==
    /\ \A c \in Cup : c # cupId \/ led = 0 => OneColour(c)
    /\ cupId \in Cup => \A k \in 0 .. led - 1 : shown[cupId][k] = Blue

StripInv ==
    /\ cupId # NoUpdate => Idle /\ Drawn
    /\ ~(cupId \in Cup /\ Removed(cupId)) => led = 0
    /\ ~lost /\ writing = "light" => Underway
    /\ ~lost /\ writing # "light" /\ cupId = NoUpdate => shown = Plain(cupLights)

\* What the strip sees of a step.
Seen == [Strip!StripNext]_<<shown, [c \in Cup |-> shiftReg[c]], cupId # NoUpdate>>

\* Most steps leave the readings and the update alone.
Elsewhere == UNCHANGED <<started, sensorVars>>

LEMMA ElsewhereKeeps ==
    ASSUME Elsewhere
    PROVE  /\ cupId' = cupId /\ led' = led /\ shiftReg' = shiftReg
           /\ \A c : Removed(c)' <=> Removed(c)
           /\ shown' = shown => Seen
BY DEF Elsewhere, sensorVars, Removed, Seen

LEMMA WriteBegins ==
    ASSUME RestTypeOK, StripInv, Free, Elsewhere,
           NEW p \in Payload, NEW size \in {Len(p), SizePassed(p)},
           LightWrite(p, size)
    PROVE  StripInv' /\ Seen
<1>1. /\ payload' = p /\ entry' = 0
      /\ writing' = "light" => /\ size # 0 /\ size % EntrySize = 0
                               /\ entries' = size \div EntrySize
      /\ UNCHANGED lightVars
  BY DEF LightWrite, Begin
<1>2. shown = Plain(cupLights) /\ cupId = NoUpdate
  BY DEF StripInv, Free, Idle
<1>3. Plain(cupLights)' = Plain(cupLights)
  BY <1>1 DEF lightVars, Plain
<1>4. Strip!After(shown', payload', 0) = shown
  BY <1>1, AfterNone DEF lightVars, RestTypeOK, LightTypeOK
<1>5. \A i \in 0 .. entry' - 1 : FALSE
  BY <1>1
<1>6. (\E n \in {Len(p), SizePassed(p)} :
           n # 0 /\ n % EntrySize = 0 /\ entries' = n \div EntrySize)
         <=> (\E n \in {Len(payload'), SizePassed(payload')} :
                  n # 0 /\ n % EntrySize = 0 /\ entries' = n \div EntrySize)
  BY <1>1
<1>7. writing' = "light" => Underway'
  BY <1>1, <1>2, <1>3, <1>4, <1>5, <1>6 DEF Underway
<1>8. cupId' = NoUpdate /\ led' = 0 /\ shown' = shown
  BY <1>1, <1>2, ElsewhereKeeps DEF StripInv, lightVars, NoUpdate, Cup
<1> QED  BY <1>2, <1>3, <1>7, <1>8, ElsewhereKeeps DEF StripInv

\* An entry brings the record one entry on, and the last shows the whole.
LEMMA EntryStep ==
    ASSUME RestTypeOK, StripInv, LightStep, Elsewhere
    PROVE  StripInv' /\ Seen
<1>1. writing = "light" /\ ~lost /\ Underway /\ cupId = NoUpdate
  BY DEF LightStep, LightSet, LightRefusesEntry, LightStrays, LightShow, At, StripInv, Idle
<1>2. entry \in Nat /\ entries \in Nat
  BY DEF RestTypeOK, WriteTypeOK
<1>3. cupId' = NoUpdate /\ led' = 0
  BY <1>1, ElsewhereKeeps DEF StripInv, NoUpdate, Cup
<1>4. CASE LightSet \/ LightRefusesEntry
  <2>1. /\ shown' = shown /\ entry' = entry + 1
        /\ UNCHANGED <<writing, payload, entries, lost>>
    BY <1>4 DEF LightSet, LightRefusesEntry, NextEntry, lightVars
  <2>2. /\ IdAt(payload, entry) \in Cup \cup {GetAll}
        /\ Plain(cupLights') = Strip!After(shown, payload, entry + 1)
    <3>1. GetAll \notin Cup
      BY CupAssumption DEF GetAll, Cup
    <3>2. Plain(cupLights) = Strip!After(shown, payload, entry)
      BY <1>1 DEF Underway
    <3>3. CASE LightSet
      <4>1. /\ IdAt(payload, entry) \in Cup
            /\ cupLights' = [cupLights EXCEPT ![IdAt(payload, entry)] = RgbAt(payload, entry)]
        BY <3>3 DEF LightSet
      <4>2. Plain(cupLights') =
                [Plain(cupLights) EXCEPT
                    ![IdAt(payload, entry)] = [l \in Led |-> RgbAt(payload, entry)]]
        <5>1. cupLights \in [Cup -> Rgb]
          BY DEF RestTypeOK, LightTypeOK
        <5>2. Plain([cupLights EXCEPT ![IdAt(payload, entry)] = RgbAt(payload, entry)]) =
                [Plain(cupLights) EXCEPT
                    ![IdAt(payload, entry)] = [l \in Led |-> RgbAt(payload, entry)]]
          BY <4>1, <5>1 DEF Plain
        <5> QED  BY <4>1, <5>2
      <4>3. Strip!After(shown, payload, entry + 1) =
                [Strip!After(shown, payload, entry) EXCEPT
                    ![IdAt(payload, entry)] = [l \in Led |-> RgbAt(payload, entry)]]
        BY <1>2, <4>1, AfterEntry
      <4> QED  BY <3>2, <4>1, <4>2, <4>3, Zenon
    <3>4. CASE LightRefusesEntry
      <4>1. IdAt(payload, entry) = GetAll /\ cupLights' = cupLights
        BY <3>4 DEF LightRefusesEntry, lightVars
      <4>2. IdAt(payload, entry) \notin Cup
        BY <3>1, <4>1
      <4>3. Strip!After(shown, payload, entry + 1) = Strip!After(shown, payload, entry)
        BY <1>2, <4>2, AfterNoEntry
      <4> QED  BY <3>2, <4>1, <4>3, Zenon
    <3> QED  BY <1>4, <3>3, <3>4
  <2>3. \A i \in 0 .. (entry + 1) - 1 : i = entry \/ i \in 0 .. entry - 1
    BY <1>2
  <2>4. \A i \in 0 .. entry' - 1 : IdAt(payload', i) \in Cup \cup {GetAll}
    BY <1>1, <2>1, <2>2, <2>3 DEF Underway
  <2>5. Plain(cupLights)' = Strip!After(shown', payload', entry')
    BY <2>1, <2>2 DEF Plain
  <2>6. \E size \in {Len(payload'), SizePassed(payload')} :
            size # 0 /\ size % EntrySize = 0 /\ entries' = size \div EntrySize
    BY <1>1, <2>1 DEF Underway
  <2>7. Underway'
    BY <1>1, <2>1, <2>4, <2>5, <2>6 DEF Underway
  <2>8. StripInv'
    BY <1>1, <1>3, <2>1, <2>7 DEF StripInv
  <2> QED  BY <2>1, <2>8, ElsewhereKeeps
<1>5. CASE LightStrays
  <2>1. lost' /\ shown' = shown
    BY <1>5 DEF LightStrays, Stray, lightVars
  <2>2. StripInv'
    BY <1>3, <2>1 DEF StripInv
  <2> QED  BY <2>1, <2>2, ElsewhereKeeps
<1>6. CASE LightShow
  <2>1. /\ entry = entries /\ shown' = Plain(cupLights) /\ cupLights' = cupLights
        /\ writing' = "none"
    BY <1>6 DEF LightShow, Return
  <2>2. PICK size \in {Len(payload), SizePassed(payload)} :
          size # 0 /\ size % EntrySize = 0 /\ entries = size \div EntrySize
    BY <1>1 DEF Underway
  <2>3. /\ \A i \in 0 .. size \div EntrySize - 1 : IdAt(payload, i) \in Cup \cup {GetAll}
        /\ shown' = Strip!After(shown, payload, size \div EntrySize)
    BY <1>1, <2>1, <2>2 DEF Underway
  <2>4. Strip!Put(payload)
    BY <1>1, <1>3, <2>2, <2>3, SameEntries, ElsewhereKeeps DEF Strip!Put
  <2>5. payload \in Payload
    BY <1>1 DEF Underway
  <2>6. Seen
    BY <2>4, <2>5 DEF Strip!StripNext, Seen
  <2>7. shown' = Plain(cupLights)'
    BY <2>1 DEF Plain
  <2> QED  BY <1>3, <2>1, <2>6, <2>7 DEF StripInv
<1> QED  BY <1>4, <1>5, <1>6 DEF LightStep

LEMMA CupsHaveSensors == Cup \subseteq Sensor
BY CupAssumption, DispatchAssumption DEF Cup, Sensor

\* New readings start an update, at a strip of whole cups, or do not.
LEMMA RunStep ==
    ASSUME RestTypeOK, StripInv, NEW word \in [Sensor -> BOOLEAN], Run(word)
    PROVE  StripInv' /\ Seen
<1>1. /\ Idle /\ Idle' /\ cupId = NoUpdate /\ shown = Plain(cupLights)
      /\ UNCHANGED <<lightVars, writeVars, led, binaries>>
  BY DEF Run, Free, Idle, writeVars, StripInv
<1>2. led = 0
  BY <1>1 DEF StripInv, NoUpdate, Cup
<1>3. shiftReg' \in [Sensor -> BOOLEAN]
  BY DEF Run, RestTypeOK
<1>4. \A c \in Cup : OneColour(c)'
  BY <1>1 DEF OneColour, lightVars, Plain
<1>5. shown' = Plain(cupLights)'
  BY <1>1 DEF lightVars, Plain
<1>6. Drawn'
  BY <1>1, <1>2, <1>4 DEF Drawn
<1>7. StripInv'
  BY <1>1, <1>2, <1>5, <1>6 DEF StripInv, Idle
<1>8. [c \in Cup |-> shiftReg'[c]] \in [Cup -> BOOLEAN]
  BY <1>3, CupsHaveSensors
<1>9. Strip!Read
  BY <1>1, <1>8, SameEntries DEF Strip!Read, lightVars
<1> QED  BY <1>7, <1>9 DEF Seen, Strip!StripNext

\* The ring of a removed cup turns blue pixel by pixel.
LEMMA PixelStep ==
    ASSUME RestTypeOK, StripInv, SequencePixel
    PROVE  StripInv' /\ Seen
<1>1. /\ cupId \in Cup /\ Removed(cupId) /\ led \in Led
      /\ shown' = [shown EXCEPT ![cupId][led] = Blue] /\ led' = led + 1
      /\ UNCHANGED <<writeVars, started, shiftReg, binaries, cupId>>
  BY DEF SequencePixel, tableVars
<1>2. cupId # NoUpdate
  BY <1>1 DEF Cup, NoUpdate
<1>3. Idle /\ Drawn /\ Idle'
  BY <1>1, <1>2 DEF StripInv, Idle, writeVars
<1>4. Removed(cupId)' <=> Removed(cupId)
  BY <1>1 DEF Removed
<1>5. shown \in [Cup -> [Led -> Rgb]]
  BY DEF RestTypeOK, LightTypeOK
<1>6. \A c \in Cup \ {cupId} : shown'[c] = shown[c] /\ OneColour(c)
  BY <1>1, <1>3, <1>5 DEF Drawn
<1>7. \A k \in 0 .. led' - 1 : shown'[cupId][k] = Blue
  <2>1. \A k \in 0 .. led - 1 : shown[cupId][k] = Blue
    BY <1>1, <1>3 DEF Drawn
  <2>2. \A k \in Led : shown'[cupId][k] = IF k = led THEN Blue ELSE shown[cupId][k]
    BY <1>1, <1>5
  <2>3. \A k \in 0 .. led' - 1 : k \in Led /\ (k = led \/ k \in 0 .. led - 1)
    <3>1. led \in Nat /\ led < LedsPerCup /\ led' = led + 1
      BY <1>1, CupAssumption DEF Led
    <3> QED  BY <3>1, CupAssumption DEF Led
  <2> QED  BY <2>1, <2>2, <2>3
<1>8. led' # 0
  BY <1>1 DEF Led
<1>9. Drawn'
  BY <1>1, <1>6, <1>7, <1>8 DEF Drawn, OneColour
<1>10. StripInv'
  BY <1>1, <1>2, <1>3, <1>4, <1>9 DEF StripInv, Idle
<1>11. shiftReg[cupId]
  BY <1>1 DEF Removed
<1>12. Strip!RemovePixel(cupId, led)
  <2>1. \A k \in 0 .. led - 1 : shown[cupId][k] = Strip!Blue
    BY <1>1, <1>3, SameEntries DEF Drawn
  <2>2. \A d \in Cup \ {cupId} : Strip!OneColour(d)
    BY <1>6, SameEntries DEF OneColour, Strip!OneColour
  <2> QED
    BY <1>1, <1>2, <1>11, <2>1, <2>2, SameEntries DEF Strip!RemovePixel
<1>13. Strip!StripNext
  BY <1>1, <1>12, SameEntries DEF Strip!StripNext
<1> QED  BY <1>10, <1>13 DEF Seen

\* The loop goes on from a cup whose ring is of one colour: all blue, or as it
\* was.
LEMMA CupStep ==
    ASSUME RestTypeOK, StripInv, NextCup
    PROVE  StripInv' /\ Seen
<1>1. /\ cupId \in Cup /\ (Removed(cupId) => led = LedsPerCup)
      /\ cupId' = cupId + 1 /\ led' = 0
      /\ UNCHANGED <<writeVars, shown, shiftReg>>
  BY DEF NextCup, lightVars
<1>2. cupId # NoUpdate /\ cupId' # NoUpdate
  BY <1>1 DEF Cup, NoUpdate
<1>3. Idle /\ Drawn /\ Idle'
  BY <1>1, <1>2 DEF StripInv, Idle, writeVars
<1>4. OneColour(cupId)
  <2>1. CASE led = 0
    BY <1>1, <1>3, <2>1 DEF Drawn
  <2>2. CASE led # 0
    <3>1. led = LedsPerCup
      BY <1>1, <2>2 DEF StripInv
    <3>2. \A k \in Led : shown[cupId][k] = Blue
      BY <1>1, <1>3, <3>1 DEF Drawn, Led
    <3> QED  BY <3>2 DEF OneColour
  <2> QED  BY <2>1, <2>2
<1>5. \A c \in Cup : OneColour(c)'
  BY <1>1, <1>3, <1>4 DEF Drawn, OneColour
<1>6. \A k \in 0 .. led' - 1 : FALSE
  BY <1>1
<1>7. Drawn'
  BY <1>5, <1>6 DEF Drawn
<1>8. StripInv'
  BY <1>1, <1>2, <1>3, <1>7 DEF StripInv, Idle
<1> QED  BY <1>1, <1>2, <1>8 DEF Seen

\* The update ends with the readings of all cups.
LEMMA UpdateStep ==
    ASSUME RestTypeOK, StripInv, UpdateEnds
    PROVE  StripInv' /\ Seen
<1>1. /\ cupId = NumOfCups /\ cupId' = NoUpdate /\ led' = led
      /\ cupLights' = [c \in Cup |-> LightOf(shiftReg[c])] /\ shown' = Plain(cupLights')
      /\ UNCHANGED <<writeVars, shiftReg>>
  BY DEF UpdateEnds
<1>2. cupId # NoUpdate /\ cupId \notin Cup
  BY <1>1, CupAssumption DEF Cup, NoUpdate
<1>3. Idle /\ Idle' /\ led' = 0
  BY <1>1, <1>2 DEF StripInv, Idle, writeVars
<1>4. shown' = Plain(cupLights)'
  BY <1>1 DEF Plain
<1>5. StripInv'
  BY <1>1, <1>3, <1>4 DEF StripInv, Idle
<1>6. shown' = [c \in Cup |-> [l \in Led |-> IF shiftReg[c] THEN Green ELSE Red]]
  BY <1>1 DEF Plain, LightOf
<1>7. Strip!Follow
  BY <1>1, <1>2, <1>6, SameEntries DEF Strip!Follow
<1> QED  BY <1>5, <1>7 DEF Seen, Strip!StripNext

LEMMA StripStep ==
    RestTypeOK /\ StripInv /\ [Next]_vars => StripInv' /\ Seen
<1> SUFFICES ASSUME RestTypeOK, StripInv, [Next]_vars
             PROVE  StripInv' /\ Seen
  OBVIOUS
\* A step that is none of the lights' and begins no write of them.
<1> DEFINE Kept == /\ UNCHANGED lightVars /\ Elsewhere
                   /\ cupId # NoUpdate => UNCHANGED writeVars
                   /\ ~lost' => ~lost /\ writing # "light" /\ writing' # "light"
<1>1. ASSUME Kept PROVE StripInv' /\ Seen
  <2>1. /\ UNCHANGED <<cupLights, shown, cupId, led>>
        /\ \A c : Removed(c)' <=> Removed(c)
        /\ Seen
    BY <1>1, ElsewhereKeeps DEF lightVars
  <2>2. Drawn => Drawn'
    BY <2>1 DEF Drawn, OneColour
  <2>3. cupId # NoUpdate /\ Idle => Idle'
    BY <1>1 DEF Idle, writeVars
  <2>4. Plain(cupLights)' = Plain(cupLights)
    BY <2>1 DEF Plain
  <2>5. ~lost' => ~lost /\ writing # "light" /\ writing' # "light"
    BY <1>1
  <2> HIDE DEF Kept
  <2> QED  BY <2>1, <2>2, <2>3, <2>4, <2>5 DEF StripInv
<1>2. ASSUME UNCHANGED <<writeVars, lightVars>>, Elsewhere PROVE StripInv' /\ Seen
  <2>1. /\ UNCHANGED <<cupLights, shown, cupId, led>>
        /\ \A c : Removed(c)' <=> Removed(c)
        /\ Seen
    BY <1>2, ElsewhereKeeps DEF lightVars
  <2>2. Drawn => Drawn'
    BY <2>1 DEF Drawn, OneColour
  <2>3. Plain(cupLights)' = Plain(cupLights)
    BY <2>1 DEF Plain
  <2>4. Underway => Underway'
    BY <1>2, <2>1, <2>3 DEF Underway, writeVars
  <2> QED  BY <1>2, <2>1, <2>2, <2>3, <2>4 DEF StripInv, Idle, writeVars
<1>3. ASSUME NEW ctrl \in Controller, AddController(ctrl)
      PROVE  UNCHANGED <<writeVars, lightVars>> /\ Elsewhere
  BY <1>3 DEF AddController, Elsewhere
<1>4. ASSUME NEW word \in [Sensor -> BOOLEAN], Run(word) PROVE StripInv' /\ Seen
  BY <1>4, RunStep
<1>5. ASSUME NEW p \in Payload, PutLight(p) \/ WriteLights(p) PROVE StripInv' /\ Seen
  <2>1. Free /\ Elsewhere
    BY <1>5 DEF PutLight, WriteLights, Elsewhere, tableVars
  <2>2. PICK size \in {Len(p), SizePassed(p)} : LightWrite(p, size)
    BY <1>5 DEF PutLight, WriteLights
  <2> QED  BY <2>1, <2>2, WriteBegins
<1>6. ASSUME NEW p \in Payload, PutEdge(p) \/ WriteEdges(p) PROVE Kept
  BY <1>6 DEF PutEdge, WriteEdges, EdgeWrite, Begin, Free, Idle, Elsewhere, tableVars
<1>7. ASSUME NEW p \in Payload, NEW s \in SystemObject, PutSystem(s, p)
      PROVE  UNCHANGED <<writeVars, lightVars>> /\ Elsewhere
  BY <1>7 DEF PutSystem, Elsewhere, tableVars
<1>8. ASSUME GetEdgeStrays PROVE Kept
  BY <1>8 DEF GetEdgeStrays, Stray, Free, Elsewhere, tableVars
<1>9. ASSUME LightStep /\ UNCHANGED <<edgeVars, tableVars, stateVars, sensorVars>>
      PROVE  StripInv' /\ Seen
  <2>1. Elsewhere
    BY <1>9 DEF Elsewhere, tableVars
  <2> QED  BY <1>9, <2>1, EntryStep
<1>10. ASSUME EdgeStep /\ UNCHANGED <<lightVars, tableVars, stateVars, sensorVars>>
       PROVE  Kept
  <2>1. writing = "edge"
    BY <1>10 DEF EdgeStep, EdgeSet, EdgeStrays, EdgeRefusesRest, EdgeReturn, At
  <2>2. cupId = NoUpdate
    BY <2>1 DEF StripInv, Idle
  <2>3. ~lost' => ~lost /\ writing' # "light"
    BY <1>10, <2>1 DEF EdgeStep, EdgeSet, EdgeStrays, EdgeRefusesRest, EdgeReturn, At,
       NextEntry, Stray, Return
  <2> QED  BY <1>10, <2>1, <2>2, <2>3 DEF Elsewhere, tableVars
<1>11. ASSUME WriteRefused PROVE Kept
  <2>1. writing = "refused" /\ cupId = NoUpdate
    BY <1>11 DEF WriteRefused, StripInv, Idle
  <2> QED  BY <1>11, <2>1 DEF WriteRefused, Return, Elsewhere, tableVars
<1>12. ASSUME UNCHANGED vars PROVE UNCHANGED <<writeVars, lightVars>> /\ Elsewhere
  BY <1>12 DEF vars, Elsewhere, tableVars
<1> HIDE DEF Kept
<1>13. CASE WriteStep
  BY <1>1, <1>9, <1>10, <1>13 DEF WriteStep
<1>14. CASE SequencePixel \/ NextCup \/ UpdateEnds
  BY <1>14, PixelStep, CupStep, UpdateStep
<1> QED
  BY <1>1, <1>2, <1>3, <1>4, <1>5, <1>6, <1>7, <1>8, <1>11, <1>12, <1>13, <1>14 DEF Next

\* The strip changes only by one whole payload, or in an update: pixel by pixel
\* round the ring of a removed cup, and at the end to one reading of all cups;
\* although write() changes the record entry by entry, goes on after a request
\* for all, and may leave the array (write(), runCupRemovedSequence(),
\* setLightsFromSensorVals()).
THEOREM StripChangesWhole == Spec => ImplementsStrip
<1>1. Init => StripInv /\ Strip!StripInit
  <2> SUFFICES ASSUME Init PROVE StripInv /\ Strip!StripInit
    OBVIOUS
  <2>1. /\ cupLights = [c \in Cup |-> Green] /\ shown = Plain(cupLights)
        /\ writing = "none" /\ cupId = NoUpdate /\ led = 0
        /\ shiftReg = [s \in Sensor |-> FALSE]
    BY DEF Init, LightInit, WriteInit
  <2>2. StripInv
    BY <2>1 DEF StripInv
  <2>3. shown = [c \in Cup |-> [l \in Led |-> Green]]
    BY <2>1 DEF Plain
  <2>4. [c \in Cup |-> shiftReg[c]] = [c \in Cup |-> FALSE]
    BY <2>1, CupsHaveSensors
  <2> QED  BY <2>1, <2>2, <2>3, <2>4, SameEntries DEF Strip!StripInit
<1>2. Seen => [Strip!StripNext]_Strip!stripVars
  BY DEF Seen, Strip!stripVars
<1> QED
  BY <1>1, <1>2, InitTyped, NextTyped, StripStep, PTL DEF Spec, ImplementsStrip, Strip!Spec

------------------------------------------------------------------------------
(* Which requests are taken up                                             *)

LEMMA SizeOfPut ==
    ASSUME NEW p \in Payload
    PROVE  /\ SizePassed(p) % EntrySize = 0 <=> Len(p) % EntrySize = EntrySize - 1
           /\ SizePassed(p) # 0 <=> Len(p) # 243
<1>1. PICK n \in 0 .. 254 : n = Len(p)
  BY SizeIsByte
<1>2. SizePassed(p) = (n + 13) % 256
  BY <1>1 DEF SizePassed, RawSize, PackageHeaderSize
<1>3. \A k \in 0 .. 254 : ((k + 13) % 256) % 4 = 0 <=> k % 4 = 3
  OBVIOUS
<1>4. \A k \in 0 .. 254 : (k + 13) % 256 # 0 <=> k # 243
  OBVIOUS
<1>5. SizePassed(p) % 4 = 0 <=> Len(p) % 4 = 3
  BY <1>1, <1>2, <1>3
<1>6. SizePassed(p) # 0 <=> Len(p) # 243
  BY <1>1, <1>2, <1>4
<1>7. EntrySize = 4 /\ EntrySize - 1 = 3
  BY DEF EntrySize
<1> QED  BY <1>5, <1>6, <1>7

\* A PUT is taken up only if its payload is one byte short of whole entries:
\* of every PUT of whole entries, whatever their number, the write() returns at
\* once (sendPkgContentToController(), which passes the size of the package).
THEOREM PutsTakenUp ==
    Spec => [][\A p \in Payload :
                 /\ PutLight(p) =>
                        (writing' = "light" <=>
                            Len(p) % EntrySize = EntrySize - 1 /\ Len(p) # 243)
                 /\ PutEdge(p) =>
                        (writing' = "edge" <=> Len(p) % EntrySize = EntrySize - 1)]_vars
<1>1. \A p \in Payload :
        /\ PutLight(p) =>
               (writing' = "light" <=> Len(p) % EntrySize = EntrySize - 1 /\ Len(p) # 243)
        /\ PutEdge(p) =>
               (writing' = "edge" <=> Len(p) % EntrySize = EntrySize - 1)
  BY SizeOfPut DEF PutLight, PutEdge, LightWrite, EdgeWrite, Begin
<1> QED  BY <1>1, PTL

=============================================================================
