--------------------------- MODULE MCSourceReload ---------------------------
(***************************************************************************)
(* Instances of SourceReload for TLC.                                      *)
(***************************************************************************)
EXTENDS SourceReload

\* The list changes with every revision but the last, which repeats the list of
\* the revision before it.
MCListOf == [r \in 0..MaxRevision |-> IF r = 3 THEN 2 ELSE r]

=============================================================================
