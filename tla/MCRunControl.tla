---------------------------- MODULE MCRunControl ----------------------------
(***************************************************************************)
(* Instances of RunControl for TLC.                                        *)
(***************************************************************************)
EXTENDS RunControl

OneBase  == {1}
AnyBase  == {1, 2}
LowRate  == {"low"}
AnyRate  == {"low", "fit", "high", "unknown"}

=============================================================================
