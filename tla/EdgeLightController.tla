------------------------ MODULE EdgeLightController ------------------------
(***************************************************************************)
(* The edge lights of the board (src/EC/App, EdgeLightController): the     *)
(* record of each light's colour, and the channels of the PWM driver that  *)
(* carry it.  The colours of light i go to the channels i to i + 2, so     *)
(* that lights side by side share channels.                                *)
(***************************************************************************)
EXTENDS LightPayload

CONSTANT NumEdgeLeds        \* NUM_EDGE_LEDS

ASSUME EdgeAssumption == NumEdgeLeds \in Nat \ {0} /\ NumEdgeLeds < 255

Edge    == 0 .. NumEdgeLeds - 1
Channel == 0 .. NumEdgeLeds + 1

Nobody == -1

VARIABLES edge,     \* m_rgbLeds
          pwm,      \* the on and off times of the channels
          writer    \* history: the light that set a channel last

edgeVars == <<edge, pwm, writer>>

PwmMaxResolution == 4096

\* calcPwmOnTime().  The quotient in single precision, rounded down, is the
\* whole quotient for each of the 256 values.
CalcPwmOnTime(value) == (value * PwmMaxResolution) \div 255

Pwm(on) == [on |-> on, off |-> PwmMaxResolution - on]

\* Each light is red in the record; nothing is sent to the driver.
EdgeInit ==
    /\ edge = [e \in Edge |-> Colour(255, 0, 0)]
    /\ pwm = [ch \in Channel |-> [on |-> 0, off |-> 0]]
    /\ writer = [ch \in Channel |-> Nobody]

PwmTime == 0 .. PwmMaxResolution

EdgeTypeOK ==
    /\ edge \in [Edge -> Rgb]
    /\ pwm \in [Channel -> [on : PwmTime, off : PwmTime]]
    /\ writer \in [Channel -> Edge \cup {Nobody}]

EdgeWrite(p, size) ==
    /\ Begin("edge", p, size, size % EntrySize = 0)
    /\ UNCHANGED edgeVars

\* An entry that would send the colours of a light before they are set.
EdgeSetSendsOld ==
    /\ At("edge")
    /\ LET e == IdAt(payload, entry) IN
         /\ e \in Edge
         /\ edge' = [edge EXCEPT ![e] = RgbAt(payload, entry)]
         /\ pwm' = [ch \in Channel |->
                IF ch - e \in 0 .. 2 THEN Pwm(CalcPwmOnTime(edge[e][ch - e + 1])) ELSE pwm[ch]]
         /\ writer' = [ch \in Channel |-> IF ch - e \in 0 .. 2 THEN e ELSE writer[ch]]
    /\ NextEntry

\* setRgbValues(), setRgbLight() and setPwm().  No on time is above the
\* resolution, so none of them fails.
EdgeSet ==
    /\ At("edge")
    /\ LET e == IdAt(payload, entry) IN
         /\ e \in Edge
         /\ edge' = [edge EXCEPT ![e] = RgbAt(payload, entry)]
         /\ pwm' = [ch \in Channel |->
                IF ch - e \in 0 .. 2 THEN Pwm(CalcPwmOnTime(edge'[e][ch - e + 1])) ELSE pwm[ch]]
         /\ writer' = [ch \in Channel |-> IF ch - e \in 0 .. 2 THEN e ELSE writer[ch]]
    /\ NextEntry

\* The id that is one too large passes the check.
EdgeStrays ==
    /\ At("edge")
    /\ IdAt(payload, entry) = NumEdgeLeds
    /\ Stray
    /\ UNCHANGED edgeVars

\* An invalid id ends the call; what the entries before it set stays set.
EdgeRefusesRest ==
    /\ At("edge")
    /\ IdAt(payload, entry) > NumEdgeLeds
    /\ Return
    /\ UNCHANGED edgeVars

EdgeReturn ==
    /\ writing = "edge" /\ ~lost
    /\ entry = entries
    /\ Return
    /\ UNCHANGED edgeVars

EdgeStep == EdgeSet \/ EdgeStrays \/ EdgeRefusesRest \/ EdgeReturn

=============================================================================
