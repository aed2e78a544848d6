--------------------------- MODULE MCRemoteSource ---------------------------
(***************************************************************************)
(* Instances of RemoteSource for TLC.                                      *)
(***************************************************************************)
EXTENDS RemoteSource

\* The third revision repeats the list of the second.
MCListOf == [r \in 0..MaxRevision |-> IF r = 3 THEN 2 ELSE r]

=============================================================================
