----------------------------- MODULE MCUnoBoard -----------------------------
(***************************************************************************)
(* Two cups; a package for the first, a package for both, one that is      *)
(* shorter than the board accepts, and one for a cup that is not there.    *)
(***************************************************************************)
EXTENDS UnoBoard

Address == [i \in 1 .. 4 |-> i]

Put(payload) == [rest |-> 2, module |-> 1, ip |-> Address, payload |-> payload]
Get(payload) == [rest |-> 1, module |-> 1, ip |-> Address, payload |-> payload]

MCMessage == {
    [pkg |-> Put(<<0, 9, 0, 0>>), pad |-> 0],
    [pkg |-> Put(<<0, 0, 0, 9, 1, 7, 7, 7>>), pad |-> 4],
    [pkg |-> Get(<<255>>), pad |-> 0],
    [pkg |-> Put(<<2, 9, 9, 9>>), pad |-> 0] }

=============================================================================
