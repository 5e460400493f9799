-------------------------- MODULE LightController --------------------------
(***************************************************************************)
(* The cup lights of the board (src/EC/App, LightController): the record   *)
(* of each cup's colour, the strip of pixels, and write(), which gives all *)
(* pixels of a cup one colour.  UnitController models the test program.    *)
(***************************************************************************)
EXTENDS LightPayload

CONSTANTS NumOfCups,        \* NUM_OF_CUPS
          LedsPerCup        \* LEDS_PER_CUP

ASSUME CupAssumption == NumOfCups \in 1 .. 63 /\ LedsPerCup \in Nat \ {0}

Cup == 0 .. NumOfCups - 1
Led == 0 .. LedsPerCup - 1

VARIABLES cupLights,   \* m_cupLights
          shown,       \* what show() sent last, pixel by pixel
          touched      \* history: the cups written since the readings were shown

lightVars == <<cupLights, shown, touched>>

Green == Colour(0, 255, 0)
Red   == Colour(255, 0, 0)
Blue  == Colour(0, 0, 255)

\* A strip where each cup has one colour.
Plain(colours) == [c \in Cup |-> [l \in Led |-> colours[c]]]

LightInit ==
    /\ cupLights = [c \in Cup |-> Green]
    /\ shown = Plain(cupLights)
    /\ touched = {}

LightTypeOK ==
    /\ cupLights \in [Cup -> Rgb]
    /\ shown \in [Cup -> [Led -> Rgb]]
    /\ touched \subseteq Cup

LightWrite(p, size) ==
    /\ Begin("light", p, size, size # 0 /\ size % EntrySize = 0)
    /\ UNCHANGED lightVars

\* An entry whose id is compared with the number of cups, one too many.
LightSetOneMore ==
    /\ At("light")
    /\ IdAt(payload, entry) <= NumOfCups
    /\ cupLights' = [cupLights EXCEPT ![IdAt(payload, entry)] = RgbAt(payload, entry)]
    /\ touched' = touched \cup {IdAt(payload, entry)}
    /\ NextEntry
    /\ UNCHANGED shown

\* An entry whose place in the payload is not counted in when its colour is read.
LightSetFirstColour ==
    /\ At("light")
    /\ IdAt(payload, entry) \in Cup
    /\ cupLights' = [cupLights EXCEPT ![IdAt(payload, entry)] = RgbAt(payload, 0)]
    /\ touched' = touched \cup {IdAt(payload, entry)}
    /\ NextEntry
    /\ UNCHANGED shown

LightSet ==
    /\ At("light")
    /\ IdAt(payload, entry) \in Cup
    /\ cupLights' = [cupLights EXCEPT ![IdAt(payload, entry)] = RgbAt(payload, entry)]
    /\ touched' = touched \cup {IdAt(payload, entry)}
    /\ NextEntry
    /\ UNCHANGED shown

\* The call fails, and goes on with the entries after this one.
LightRefusesEntry ==
    /\ At("light")
    /\ IdAt(payload, entry) = GetAll
    /\ NextEntry
    /\ UNCHANGED lightVars

\* No other id is checked.
LightStrays ==
    /\ At("light")
    /\ IdAt(payload, entry) \notin Cup \cup {GetAll}
    /\ Stray
    /\ UNCHANGED lightVars

LightShow ==
    /\ writing = "light" /\ ~lost
    /\ entry = entries
    /\ shown' = Plain(cupLights)
    /\ Return
    /\ UNCHANGED <<cupLights, touched>>

LightStep == LightSet \/ LightRefusesEntry \/ LightStrays \/ LightShow

=============================================================================
