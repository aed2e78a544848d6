------------------------------- MODULE MCFleet ------------------------------
(***************************************************************************)
(* An instance of Fleet for TLC: two accounts, whose ports change with the *)
(* second list; a day like that of the code, with room for few lines, all, *)
(* few and none.                                                           *)
(***************************************************************************)
EXTENDS Fleet, TLC

TwoAccounts == {"a", "b"}
TwoPorts    == {1, 2}
TwoLists    == {("a" :> 1) @@ ("b" :> 2), "a" :> 2}
FourSlots   == <<1, 2, 1, 0>>

=============================================================================
