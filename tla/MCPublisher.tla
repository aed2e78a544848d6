---------------------------- MODULE MCPublisher ----------------------------
(***************************************************************************)
(* Instances of Publisher for TLC.                                         *)
(***************************************************************************)
EXTENDS Publisher

\* The shortest delays that tell the three retries apart.
MCRetrySeconds == <<1, 2, 3>>

=============================================================================
