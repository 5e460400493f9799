----------------------------- MODULE RgbEntries -----------------------------
(***************************************************************************)
(* The payload of a request to set lights: entries of four bytes, each a   *)
(* light's id followed by its red, green and blue (LightController.h and   *)
(* EdgeLightController.cpp of src/EC/App, LightController.cpp of           *)
(* FarsUnoTest).                                                           *)
(***************************************************************************)
EXTENDS BjDataPackage

Rgb == [1 .. 3 -> Byte]

EntrySize == 4          \* RGB_WS_LED_SIZE, RGB_PWM_LED_PKG_SIZE
GetAll    == 255        \* RGB_GET_ALL_VALUES_REQ

Colour(r, g, b) == [k \in 1 .. 3 |-> IF k = 1 THEN r ELSE IF k = 2 THEN g ELSE b]

IdAt(p, i)  == ByteAt(p, EntrySize * i)
RgbAt(p, i) == [k \in 1 .. 3 |-> ByteAt(p, EntrySize * i + k)]

=============================================================================
