---------------------------- MODULE MCProbePool -----------------------------
(***************************************************************************)
(* Instance of ProbePool for TLC.                                          *)
(***************************************************************************)
EXTENDS ProbePool

TwoThenOne == <<2, 1>>

=============================================================================
