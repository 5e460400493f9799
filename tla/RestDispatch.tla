---------------------------- MODULE RestDispatch ----------------------------
(***************************************************************************)
(* The dispatch of the board (src/EC/App, UnitController): the table of    *)
(* controllers, the requests sent to them, and the lights that follow the  *)
(* readings.  The calls are those of setup(), of loop() and of the unit    *)
(* tests: controllers are added, some twice or not at all, then run() and  *)
(* requests follow in any order, and the light controllers are also called *)
(* directly.  Nothing here is concurrent: a call begins when the last has  *)
(* returned.  An update of the lights shows many strips on its way and has *)
(* a step for each; what of run() shows nothing is one step, which         *)
(* UnitController models in detail.                                        *)
(***************************************************************************)
EXTENDS LightController, EdgeLightController

CONSTANTS NumOfSensors,        \* NUM_OF_SENSORS
          SystemObject,        \* the SystemControllers there are
          MaxNumControllers,   \* MAX_NUM_CONTROLLERS
          Payload              \* bound: what requests carry

ASSUME DispatchAssumption ==
    /\ NumOfSensors \in Nat
    /\ NumOfCups <= NumOfSensors
    /\ MaxNumControllers \in Nat
    /\ Payload \subseteq Payloads
    /\ SystemObject \cap {"light", "edge", "sensor"} = {}

Sensor     == 0 .. NumOfSensors - 1
Controller == {"light", "edge", "sensor"} \cup SystemObject

ModuleOf(ctrl) == IF ctrl \in SystemObject THEN "system" ELSE ctrl

ControllerState == 0 .. 3
Automatic == 2

VARIABLES table,       \* m_controllerObjs, its slots that are filled
          started,     \* run(true) has been called
          ctrlState,   \* m_ctrlState of each SystemController
          shiftReg,    \* m_sensorValueShiftReg, sensor by sensor
          binaries,    \* m_sensorBinaryValues, of the sensors with a cup
          missed,      \* history: readings changed, and the lights did not
          cupId,       \* the loop of setLightsFromSensorVals, when it runs
          led          \* the loop of runCupRemovedSequence

tableVars   == <<table, started>>
stateVars   == <<ctrlState>>
sensorVars  == <<shiftReg, binaries, missed, cupId, led>>
vars == <<writeVars, lightVars, edgeVars, tableVars, stateVars, sensorVars>>

NoUpdate == -1

Init ==
    /\ WriteInit /\ LightInit /\ EdgeInit
    /\ table = << >>
    /\ started = FALSE
    /\ ctrlState = [s \in SystemObject |-> Automatic]
    /\ shiftReg = [s \in Sensor |-> FALSE]
    /\ binaries = [c \in Cup |-> FALSE]
    /\ missed = FALSE
    /\ cupId = NoUpdate
    /\ led = 0

RestTypeOK ==
    /\ WriteTypeOK /\ LightTypeOK /\ EdgeTypeOK
    /\ table \in Seq(Controller)
    /\ started \in BOOLEAN
    /\ ctrlState \in [SystemObject -> ControllerState]
    /\ shiftReg \in [Sensor -> BOOLEAN]
    /\ binaries \in [Cup -> BOOLEAN]
    /\ missed \in BOOLEAN
    /\ cupId \in {NoUpdate} \cup 0 .. NumOfCups
    /\ led \in 0 .. LedsPerCup

\* The last call has returned.
Free == Idle /\ cupId = NoUpdate

------------------------------------------------------------------------------
(* The table                                                               *)

\* Slots are filled from the front and never emptied.  Each object is added
\* once.  A full table refuses: nothing changes.
AddController(ctrl) ==
    /\ Free /\ ~started
    /\ Len(table) < MaxNumControllers
    /\ \A i \in 1 .. Len(table) : table[i] # ctrl
    /\ table' = Append(table, ctrl)
    /\ UNCHANGED <<writeVars, lightVars, edgeVars, started, stateVars, sensorVars>>

\* getRestCtrlRef(): the first slot with the module.
Serves(ctrl, module) ==
    \E i \in 1 .. Len(table) :
        /\ table[i] = ctrl
        /\ ModuleOf(ctrl) = module
        /\ \A j \in 1 .. i - 1 : ModuleOf(table[j]) # module

------------------------------------------------------------------------------
(* run()                                                                   *)

\* A sensor that reads 1 has no cup on it.
LightOf(away) == IF away THEN Green ELSE Red

\* handleSensorUpdate() calls setLightsFromSensorVals().
Follows ==
    /\ \E s \in SystemObject : Serves(s, "system") /\ ctrlState[s] = Automatic
    /\ Serves("light", "light")

\* The first call is run(true).  Without an update the call ends here.
Run(word) ==
    LET readings == IF Serves("sensor", "sensor") THEN word ELSE shiftReg
        changed  == readings # shiftReg
        update   == Follows /\ (changed \/ ~started)
    IN  /\ Free
        /\ shiftReg' = readings
        /\ IF update
           THEN /\ cupId' = 0
                /\ UNCHANGED <<started, missed>>
           ELSE /\ started' = TRUE
                /\ missed' = (missed \/ changed)
                /\ UNCHANGED cupId
        /\ UNCHANGED <<writeVars, lightVars, edgeVars, table, stateVars, binaries, led>>

\* runCupRemovedSequence() is called for a cup that was there at the last
\* update; in run(true), for every cup that is not there.
Removed(c) == shiftReg[c] /\ (~binaries[c] \/ ~started)

\* A sequence that would colour the ring of the next cup.
SequencePixelBeside ==
    /\ cupId \in Cup /\ Removed(cupId)
    /\ led \in Led
    /\ shown' = [shown EXCEPT ![(cupId + 1) % NumOfCups][led] = Blue]
    /\ led' = led + 1
    /\ UNCHANGED <<writeVars, cupLights, touched, edgeVars, tableVars, stateVars>>
    /\ UNCHANGED <<shiftReg, binaries, missed, cupId>>

\* It colours one pixel and shows the strip.
SequencePixel ==
    /\ cupId \in Cup /\ Removed(cupId)
    /\ led \in Led
    /\ shown' = [shown EXCEPT ![cupId][led] = Blue]
    /\ led' = led + 1
    /\ UNCHANGED <<writeVars, cupLights, touched, edgeVars, tableVars, stateVars>>
    /\ UNCHANGED <<shiftReg, binaries, missed, cupId>>

NextCup ==
    /\ cupId \in Cup
    /\ Removed(cupId) => led = LedsPerCup
    /\ cupId' = cupId + 1
    /\ led' = 0
    /\ UNCHANGED <<writeVars, lightVars, edgeVars, tableVars, stateVars>>
    /\ UNCHANGED <<shiftReg, binaries, missed>>

\* A write of only the cups whose reading changed since the last update.
UpdateEndsChanged ==
    /\ cupId = NumOfCups
    /\ cupLights' = [c \in Cup |-> IF shiftReg[c] # binaries[c] \/ ~started
                                   THEN LightOf(shiftReg[c]) ELSE cupLights[c]]
    /\ shown' = Plain(cupLights')
    /\ touched' = {}
    /\ binaries' = [c \in Cup |-> shiftReg[c]]
    /\ missed' = FALSE
    /\ started' = TRUE
    /\ cupId' = NoUpdate
    /\ UNCHANGED <<writeVars, edgeVars, table, stateVars, shiftReg, led>>

\* The call of write() with every cup: the buffer holds the colours of the
\* readings last shown where nothing changed since then.
UpdateEnds ==
    /\ cupId = NumOfCups
    /\ cupLights' = [c \in Cup |-> LightOf(shiftReg[c])]
    /\ shown' = Plain(cupLights')
    /\ touched' = {}
    /\ binaries' = [c \in Cup |-> shiftReg[c]]
    /\ missed' = FALSE
    /\ started' = TRUE
    /\ cupId' = NoUpdate
    /\ UNCHANGED <<writeVars, edgeVars, table, stateVars, shiftReg, led>>

------------------------------------------------------------------------------
(* sendPkgContentToController().  What write() returns is dropped.         *)

\* getRawPayloadSize(), passed as a uint8_t for the size of the payload.
SizePassed(p) == RawSize([payload |-> p]) % 256

PutLight(p) ==
    /\ Free /\ started
    /\ Serves("light", "light")
    /\ LightWrite(p, SizePassed(p))
    /\ UNCHANGED <<edgeVars, tableVars, stateVars, sensorVars>>

PutEdge(p) ==
    /\ Free /\ started
    /\ Serves("edge", "edge")
    /\ EdgeWrite(p, SizePassed(p))
    /\ UNCHANGED <<lightVars, tableVars, stateVars, sensorVars>>

\* SystemController::write() looks at no size.
PutSystem(s, p) ==
    /\ Free /\ started
    /\ Serves(s, "system")
    /\ ByteAt(p, 0) \in ControllerState
    /\ ctrlState' = [ctrlState EXCEPT ![s] = ByteAt(p, 0)]
    /\ UNCHANGED <<writeVars, lightVars, edgeVars, tableVars, sensorVars>>

\* A GET of the edge light that is not there; the others change nothing.
GetEdgeStrays ==
    /\ Free /\ started
    /\ Serves("edge", "edge")
    /\ \E p \in Payload : ByteAt(p, 0) = NumEdgeLeds
    /\ Stray
    /\ UNCHANGED <<lightVars, edgeVars, tableVars, stateVars, sensorVars>>

------------------------------------------------------------------------------
(* The controllers called directly, with the size of the payload           *)

WriteLights(p) ==
    /\ Free /\ started
    /\ LightWrite(p, Len(p))
    /\ UNCHANGED <<edgeVars, tableVars, stateVars, sensorVars>>

WriteEdges(p) ==
    /\ Free /\ started
    /\ EdgeWrite(p, Len(p))
    /\ UNCHANGED <<lightVars, tableVars, stateVars, sensorVars>>

WriteStep ==
    \/ LightStep /\ UNCHANGED <<edgeVars, tableVars, stateVars, sensorVars>>
    \/ EdgeStep /\ UNCHANGED <<lightVars, tableVars, stateVars, sensorVars>>

WriteRefused ==
    /\ writing = "refused"
    /\ Return
    /\ UNCHANGED <<lightVars, edgeVars, tableVars, stateVars, sensorVars>>

Next ==
    \/ \E ctrl \in Controller : AddController(ctrl)
    \/ \E word \in [Sensor -> BOOLEAN] : Run(word)
    \/ SequencePixel \/ NextCup \/ UpdateEnds
    \/ \E p \in Payload :
         \/ PutLight(p) \/ PutEdge(p)
         \/ \E s \in SystemObject : PutSystem(s, p)
         \/ WriteLights(p) \/ WriteEdges(p)
    \/ GetEdgeStrays
    \/ WriteStep \/ WriteRefused

Spec == Init /\ [][Next]_vars

------------------------------------------------------------------------------
(* Properties                                                              *)

\* The pixels are the record whenever no write or update is on the way.  And a cup
\* that no request has set since the last update has the light of its reading,
\* unless readings came while the state was not automatic: they are stored
\* without being shown, but the next update shows every cup, theirs too,
\* whatever the requests before it set.
LightsFollowUnlessAsked ==
    ~lost /\ cupId = NoUpdate =>
        /\ writing # "light" => shown = Plain(cupLights)
        /\ started /\ ~missed
             /\ Serves("light", "light") /\ (\E s \in SystemObject : Serves(s, "system"))
             => \A c \in Cup \ touched : cupLights[c] = LightOf(shiftReg[c])

\* However writes follow each other, and whether or not they fail half way,
\* each channel carries the colour that its last writer has in the record: a
\* light never shows an older colour of its own, only a later one of a
\* neighbour.  That light i has the channels i to i + 2, and shares them, is
\* what setPwm() does; ChannelsAreItsOwn is what the comment on write() says.
ChannelsShowWriter ==
    ~lost => \A ch \in Channel : writer[ch] # Nobody =>
        /\ ch - writer[ch] \in 0 .. 2
        /\ pwm[ch] = Pwm(CalcPwmOnTime(edge[writer[ch]][ch - writer[ch] + 1]))

\* EdgeLightController.cpp:125, "Each ID includes 4 PWM channels on the PCA
\* 9685 driver": the channels of one id are not those of another, so what one
\* light sent is not overwritten by what is sent to its neighbour.
ChannelsAreItsOwn ==
    ~lost => \A e \in Edge :
        (\E ch \in Channel : writer[ch] = e) =>
            \A k \in 0 .. 2 : writer[e + k] = e

\* However writes, direct or by requests, and updates follow each other, and
\* whatever a write meets on its way: the strip changes only by one whole
\* payload, or in an update: pixel by pixel round the ring of one removed cup
\* after the other, and in the end to the readings of all cups at once.
Strip == INSTANCE CupStrip WITH
    lights   <- shown,
    away     <- [c \in Cup |-> shiftReg[c]],
    updating <- cupId # NoUpdate

ImplementsStrip == Strip!Spec

=============================================================================
