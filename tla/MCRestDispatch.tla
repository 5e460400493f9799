--------------------------- MODULE MCRestDispatch ---------------------------
(***************************************************************************)
(* Two cups of two pixels, two edge lights, two system controllers and a   *)
(* table of three slots.                                                   *)
(***************************************************************************)
EXTENDS RestDispatch, TLC

CONSTANTS s1, s2

MCSystemObject == {s1, s2}

\* The two are constructed alike.
Alike == Permutations(MCSystemObject)

\* A colour for light 0, 1 or 2; two colours, the second for light 1 or for an
\* id that is no light; a state that is not automatic; a payload of three
\* bytes, which with the header counts for four entries.
MCPayload == {
    <<0, 9, 80, 255>>,
    <<0, 0, 0, 9, 1, 50, 120, 156>>,
    <<1, 9, 9, 9, 255, 7, 7, 7>>,
    <<2, 9, 9, 9>>,
    <<1, 9, 9>>,
    <<3, 1>> }

=============================================================================
