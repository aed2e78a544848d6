---------------------------- MODULE SourceBreaker ---------------------------
(***************************************************************************)
(* What the circuit breaker of one helper promises about a source,         *)
(* whatever the workers do: the state machine of sourceState in            *)
(* cmd/discarder/main.go without failure counts, clocks, epochs and        *)
(* workers.  A quarantine is left only through a probe or by a complete    *)
(* download; a probe starts only from quarantine, and its failure goes     *)
(* back one level up; a source that leaves the list leaves its history.    *)
(***************************************************************************)
EXTENDS Integers

CONSTANTS URLs

VARIABLE breaker           \* per URL its mode and, out of health, its level

Modes  == {"absent", "healthy", "degraded", "quarantined", "probing"}
Phase(mode, level) == [mode |-> mode, level |-> level]
Absent  == Phase("absent", 0)
Healthy == Phase("healthy", 0)

Above(level) == IF level >= 3 THEN 3 ELSE level + 1

Init == \E listed \in SUBSET URLs :
            breaker = [url \in URLs |-> IF url \in listed THEN Healthy ELSE Absent]

Become(url, phase) == breaker' = [breaker EXCEPT ![url] = phase]

\* An ordinary download fails.
Strike(url) ==
    \/ breaker[url] = Healthy /\ Become(url, Phase("degraded", 0))
    \/ breaker[url].mode = "degraded" /\ Become(url, Phase("quarantined", 1))

\* A worker takes the probe.
Probe(url) ==
    /\ breaker[url].mode = "quarantined"
    /\ Become(url, Phase("probing", breaker[url].level))

\* The probe fails.
ProbeFails(url) ==
    /\ breaker[url].mode = "probing"
    /\ Become(url, Phase("quarantined", Above(breaker[url].level)))

\* The probing worker is cancelled: the source waits for another probe.
ProbeAborts(url) ==
    /\ breaker[url].mode = "probing"
    /\ Become(url, Phase("quarantined", breaker[url].level))

\* A probe that a successful download has overtaken fails after all.
OvertakenProbeFails(url) ==
    /\ breaker[url].mode \in {"healthy", "degraded", "quarantined"}
    /\ Become(url, Phase("quarantined", Above(breaker[url].level)))

\* A complete download clears the history of its source.
Recover(url) ==
    /\ breaker[url].mode # "absent"
    /\ Become(url, Healthy)

\* A new list: history is kept for the sources that stay, and for no other.
Relist(listed) ==
    breaker' = [url \in URLs |->
                  IF url \notin listed THEN Absent
                  ELSE IF breaker[url] = Absent THEN Healthy ELSE breaker[url]]

Next == \/ \E url \in URLs : \/ Strike(url) \/ Probe(url) \/ ProbeFails(url)
                             \/ ProbeAborts(url) \/ OvertakenProbeFails(url)
                             \/ Recover(url)
        \/ \E listed \in SUBSET URLs : Relist(listed)

Spec == Init /\ [][Next]_breaker

=============================================================================
