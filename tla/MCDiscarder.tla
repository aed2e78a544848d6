---------------------------- MODULE MCDiscarder -----------------------------
(***************************************************************************)
(* Instances of Discarder for TLC.                                         *)
(***************************************************************************)
EXTENDS Discarder

MCURLs == {"a", "b"}
TwoSourceList == {<<"a", "b">>}
SwitchedLists == {<<"a">>, <<"b">>}

\* All delays are one unit: time still passes, but the delays only order events.
UnitRetryDelay == [n \in 1..2 |-> 1]
UnitQuarantineDelay == [n \in 1..3 |-> 1]

=============================================================================
