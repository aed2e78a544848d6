---------------------------- MODULE SourceHealth ----------------------------
(***************************************************************************)
(* The circuit breaker of cmd/discarder/main.go: what one call under       *)
(* sourceHealth.mu does to the record of one source.                       *)
(*                                                                         *)
(* A record exists in health.states exactly from the first failure to the  *)
(* next success, so "no entry" is the record NoState, the only one with    *)
(* failures = 0.  retryAfter is kept as the time left until it (wait), and *)
(* consecutiveFailures saturates at Strikes: the code only ever compares   *)
(* it with 3.                                                              *)
(***************************************************************************)
EXTENDS Integers

CONSTANTS RetryDelay,      \* retryDelay: 1st and 2nd consecutive failure -> time
          QuarantineDelay  \* quarantineDelay: level 1..3 -> time

Strikes  == 3              \* consecutive failures that quarantine a source
MaxLevel == 3              \* the longest quarantine

ASSUME DelayAssumption ==
    /\ RetryDelay \in [1..(Strikes - 1) -> Nat \ {0}]
    /\ QuarantineDelay \in [1..MaxLevel -> Nat \ {0}]

SourceState == [failures : 0..Strikes, level : 0..MaxLevel,
                wait : Nat, probe : BOOLEAN]

NoState == [failures |-> 0, level |-> 0, wait |-> 0, probe |-> FALSE]

Saturated(n, top) == IF n >= top THEN top ELSE n + 1

-----------------------------------------------------------------------------
\* claimCurrent, for a source that is in activeEpoch.
Allowed(st) == st.wait = 0 /\ (st.level = 0 \/ ~st.probe)

\* What an allowed caller gets: the recovery probe, or an ordinary download.
ClaimsProbe(st) == st.level > 0

Claimed(st) == IF ClaimsProbe(st) THEN [st EXCEPT !.probe = TRUE] ELSE st

-----------------------------------------------------------------------------
\* failedLocked when wasProbe: back into quarantine, one level up.
ProbeFailed(st) ==
    LET level == Saturated(st.level, MaxLevel)
    IN  [failures |-> Saturated(st.failures, Strikes), level |-> level,
         wait |-> QuarantineDelay[level], probe |-> FALSE]

\* Mutant: every further failure of a quarantined source arms its timer again.
DownloadFailedRearming(st) ==
    LET failures == Saturated(st.failures, Strikes)
    IN  IF failures < Strikes
        THEN [st EXCEPT !.failures = failures, !.wait = RetryDelay[failures]]
        ELSE [st EXCEPT !.failures = failures, !.level = 1,
                        !.wait = QuarantineDelay[1]]

\* failedLocked otherwise: short back-off, or the third strike.  A source
\* that is already quarantined keeps its level and its time.
DownloadFailed(st) ==
    LET failures == Saturated(st.failures, Strikes)
    IN  IF failures < Strikes
        THEN [st EXCEPT !.failures = failures, !.wait = RetryDelay[failures]]
        ELSE IF st.level = 0
             THEN [st EXCEPT !.failures = failures, !.level = 1,
                             !.wait = QuarantineDelay[1]]
             ELSE [st EXCEPT !.failures = failures]

Failed(st, wasProbe) == IF wasProbe THEN ProbeFailed(st) ELSE DownloadFailed(st)

\* releaseProbeCurrent: the quarantine stays, the probe is free again.
Released(st) == [st EXCEPT !.probe = FALSE]

\* Time passes.
Elapsed(st) == [st EXCEPT !.wait = IF st.wait > 0 THEN st.wait - 1 ELSE 0]

\* snapshotFor: the state a source has in a status event.
Status(st) ==
    CASE st.failures = 0                              -> "healthy"
      [] st.failures > 0 /\ st.probe                  -> "probing"
      [] st.failures > 0 /\ ~st.probe /\ st.level > 0 -> "quarantined"
      [] st.failures > 0 /\ ~st.probe /\ st.level = 0 -> "degraded"

=============================================================================
