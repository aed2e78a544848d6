---------------------------- MODULE MCFleetStore ----------------------------
(***************************************************************************)
(* An instance of FleetStore for TLC: minutes of two units, a look back    *)
(* over two minutes, gaps of which three units are estimated.              *)
(***************************************************************************)
EXTENDS FleetStore

TwoInterfaces == {1, 2}

=============================================================================
