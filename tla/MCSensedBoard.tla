---------------------------- MODULE MCSensedBoard ----------------------------
(***************************************************************************)
(* Two registers of three bits; cups on the first two sensors, and two     *)
(* sensors of the other register that change as well.                      *)
(***************************************************************************)
EXTENDS SensedBoard

AllBut(r, b) == [q \in 0 .. 1 |-> [c \in 0 .. 2 |-> IF <<q, c>> = <<r, b>> THEN 0 ELSE 1]]

\* One sensor covered, each of the four in turn, or none.
OneAtATime ==
    {AllBut(0, 0), AllBut(0, 1), AllBut(1, 0), AllBut(1, 2)}
        \cup {[q \in 0 .. 1 |-> [c \in 0 .. 2 |-> 1]]}

=============================================================================
