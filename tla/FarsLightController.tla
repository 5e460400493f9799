------------------------ MODULE FarsLightController ------------------------
(***************************************************************************)
(* What a package does to the cup lights of FarsUnoTest (src/EC/main): the *)
(* dispatch of UnitController, whose table has the light controller in its *)
(* only slot, and LightController::handlePut().  A cup has one pixel.      *)
(***************************************************************************)
EXTENDS RgbEntries

CONSTANTS NumOfCups,     \* NUM_OF_CUPS
          LightModule,   \* E_MODULE_LIGHT
          PutRequest     \* E_PUT_REQUEST

ASSUME FarsLightAssumption == NumOfCups \in 1 .. 63

Cup    == 0 .. NumOfCups - 1
Lights == [Cup -> Rgb]

\* The entries handlePut() turns to.
Entries(pkg) ==
    IF /\ pkg.module = LightModule
       /\ pkg.rest = PutRequest
       /\ Len(pkg.payload) % EntrySize = 0
    THEN 0 .. Len(pkg.payload) \div EntrySize - 1
    ELSE {}

\* An id that is no cup's and is not refused: past the array of lights.
Strays(pkg) ==
    \E i \in Entries(pkg) : IdAt(pkg.payload, i) \notin Cup \cup {GetAll}

\* The last entry that names the cup.
LastNaming(pkg, c) ==
    {i \in Entries(pkg) :
        /\ IdAt(pkg.payload, i) = c
        /\ \A j \in Entries(pkg) : j > i => IdAt(pkg.payload, j) # c}

\* A strip that is one cup too long.
LightsOneMore(lights, pkg) ==
    [c \in 0 .. NumOfCups |->
        IF LastNaming(pkg, c) = {} /\ c \in Cup THEN lights[c]
        ELSE RgbAt(pkg.payload, CHOOSE i \in LastNaming(pkg, c) \cup {0} : TRUE)]

LightsAfter(lights, pkg) ==
    [c \in Cup |->
        IF LastNaming(pkg, c) = {} THEN lights[c]
        ELSE RgbAt(pkg.payload, CHOOSE i \in LastNaming(pkg, c) : TRUE)]

=============================================================================
