----------------------------- MODULE Discarder ------------------------------
(***************************************************************************)
(* One discarder helper process (cmd/discarder/main.go): the select loop   *)
(* of run(), which resizes the worker pool on SIGUSR1 / SIGUSR2 and        *)
(* reloads the source list on SIGHUP, and the worker goroutines, which     *)
(* share the source list and the circuit breaker.                          *)
(*                                                                         *)
(* Every call that takes sourceHealth.mu, and every load or store of the   *)
(* source list, is one step; whatever the code does between two of them    *)
(* may be interleaved with the other goroutines.                           *)
(***************************************************************************)
EXTENDS SourceHealth, Sequences, FiniteSets

CONSTANTS URLs,            \* the source URLs that ever appear in a list
          SourceLists,     \* the lists a sources file may hold
          IndexPeriod,     \* a common multiple of their lengths
          MaxConnections,  \* -max-connections
          MaxSignals       \* bound: control signals delivered in a behaviour

Slots == 1..MaxConnections \* worker ids

ASSUME DiscarderAssumption ==
    /\ IsFiniteSet(URLs)
    /\ SourceLists \subseteq Seq(URLs) \ {<< >>}
    /\ SourceLists # {}
    /\ IndexPeriod \in Nat \ {0}
    /\ \A list \in SourceLists : IndexPeriod % Len(list) = 0
    /\ MaxConnections \in Nat \ {0}
    /\ MaxSignals \in Nat

VARIABLES
    states,        \* health.states
    activeEpoch,   \* health.activeEpoch; 0 for a URL that is not in the map
    nextEpoch,     \* health.nextEpoch
    sourceSet,     \* the list in the shared sourceSet
    mainPc,        \* where the select loop is: "select", "retain" or "cancel"
    config,        \* the list a reload in progress has read
    target,        \* targetConnections
    signals,       \* control signals delivered so far
    pc,            \* where each worker is
    stopping,      \* its stopping flag, set with the cancellation of its context
    list,          \* the list it read at the top of its loop
    urlIndex,      \* its urlIndex, modulo IndexPeriod
    checked,       \* candidates it has checked in this pass
    job            \* the download it claimed: url, probe and sourceEpoch

healthVars == <<states, activeEpoch, nextEpoch>>
mainVars   == <<sourceSet, mainPc, config, target, signals>>
workerVars == <<pc, stopping, list, urlIndex, checked, job>>
vars       == <<healthVars, mainVars, workerVars>>

NoJob  == [url |-> CHOOSE url \in URLs : TRUE, probe |-> FALSE, epoch |-> 0]
NoList == << >>
Jobs   == [url : URLs, probe : BOOLEAN, epoch : Nat]

\* "absent": not in the workers map.  "exited": returned, its result is in the
\* results channel and the select loop has not received it yet.
WorkerPcs == {"absent", "top", "pick", "download", "failing", "aborting",
              "sleep", "exited"}

TypeOK ==
    /\ states \in [URLs -> SourceState]
    /\ activeEpoch \in [URLs -> Nat]
    /\ nextEpoch \in Nat
    /\ sourceSet \in SourceLists
    /\ mainPc \in {"select", "retain", "cancel"}
    /\ config \in SourceLists
    /\ target \in Slots
    /\ signals \in 0..MaxSignals
    /\ pc \in [Slots -> WorkerPcs]
    /\ stopping \in [Slots -> BOOLEAN]
    /\ list \in [Slots -> SourceLists \cup {NoList}]
    /\ urlIndex \in [Slots -> 0..(IndexPeriod - 1)]
    /\ checked \in [Slots -> Nat]
    /\ job \in [Slots -> Jobs]

Listed(sources) == {sources[i] : i \in 1..Len(sources)}

\* The workers map, and the workers that have not been told to stop.
Present == {w \in Slots : pc[w] # "absent"}
Staying == {w \in Present : ~stopping[w]}

-----------------------------------------------------------------------------
\* retain numbers the URLs that are new in the order of a map iteration.
Numbering(new, after) ==
    {f \in [new -> (after + 1)..(after + Cardinality(new))] :
        \A a, b \in new : a # b => f[a] # f[b]}

\* Mutant: the loop runs while len(workers) <= targetConnections.
ReconciledOneMore(present, wanted, result) ==
    /\ present \subseteq result
    /\ Cardinality(result) = IF Cardinality(present) > wanted
                             THEN Cardinality(present) ELSE wanted + 1
    /\ \A w \in result \ present : \A free \in Slots \ result : w < free

\* reconcileWorkers: the lowest free ids are started until the map has as many
\* workers as targetConnections asks for; started' is the resulting map.
Reconciled(present, wanted, result) ==
    /\ present \subseteq result
    /\ Cardinality(result) = IF Cardinality(present) >= wanted
                             THEN Cardinality(present) ELSE wanted
    /\ \A w \in result \ present : \A free \in Slots \ result : w < free

\* startWorker for each id in starting; its urlIndex begins at connectionID - 1.
Start(starting, before, flags) ==
    /\ pc' = [w \in Slots |-> IF w \in starting THEN "top" ELSE before[w]]
    /\ stopping' = [w \in Slots |-> IF w \in starting THEN FALSE ELSE flags[w]]
    /\ urlIndex' = [w \in Slots |-> IF w \in starting THEN (w - 1) % IndexPeriod
                                    ELSE urlIndex[w]]

Reconcile(before, flags, wanted) ==
    LET present == {w \in Slots : before[w] # "absent"}
    IN  \E result \in SUBSET Slots :
            /\ Reconciled(present, wanted, result)
            /\ Start(result \ present, before, flags)

Init ==
    /\ sourceSet \in SourceLists
    /\ config = sourceSet
    /\ target \in Slots
    /\ states = [url \in URLs |-> NoState]
    /\ \E f \in Numbering(Listed(sourceSet), 0) :
          activeEpoch = [url \in URLs |-> IF url \in Listed(sourceSet)
                                          THEN f[url] ELSE 0]
    /\ nextEpoch = Cardinality(Listed(sourceSet))
    /\ mainPc = "select"
    /\ signals = 0
    /\ pc = [w \in Slots |-> IF w <= target THEN "top" ELSE "absent"]
    /\ stopping = [w \in Slots |-> FALSE]
    /\ list = [w \in Slots |-> NoList]
    /\ urlIndex = [w \in Slots |-> (w - 1) % IndexPeriod]
    /\ checked = [w \in Slots |-> 0]
    /\ job = [w \in Slots |-> NoJob]

-----------------------------------------------------------------------------
(* The worker goroutine: runWorker.                                        *)

\* The head of the loop: the ctx.Done check, then the list is read.
ReadSources(w) ==
    /\ pc[w] = "top"
    /\ IF stopping[w]
       THEN /\ pc' = [pc EXCEPT ![w] = "exited"]
            /\ UNCHANGED <<list, checked>>
       ELSE /\ pc' = [pc EXCEPT ![w] = "pick"]
            /\ list' = [list EXCEPT ![w] = sourceSet]
            /\ checked' = [checked EXCEPT ![w] = 0]
    /\ UNCHANGED <<healthVars, mainVars, stopping, urlIndex, job>>

Candidate(w) == list[w][(urlIndex[w] % Len(list[w])) + 1]

\* Mutant: urlIndex only moves past candidates that were refused.
ClaimStayingPut(w) ==
    LET url == Candidate(w)
        st  == states[url]
    IN  /\ pc[w] = "pick"
        /\ checked[w] < Len(list[w])
        /\ IF activeEpoch[url] # 0 /\ Allowed(st)
           THEN /\ states' = [states EXCEPT ![url] = Claimed(st)]
                /\ job' = [job EXCEPT ![w] = [url   |-> url,
                                              probe |-> ClaimsProbe(st),
                                              epoch |-> activeEpoch[url]]]
                /\ pc' = [pc EXCEPT ![w] = "download"]
                /\ checked' = [checked EXCEPT ![w] = 0]
                /\ list' = [list EXCEPT ![w] = NoList]
                /\ UNCHANGED urlIndex
           ELSE /\ checked' = [checked EXCEPT ![w] = @ + 1]
                /\ urlIndex' = [urlIndex EXCEPT ![w] = (urlIndex[w] + 1) % IndexPeriod]
                /\ UNCHANGED <<states, job, pc, list>>
        /\ UNCHANGED <<activeEpoch, nextEpoch, mainVars, stopping>>

\* One turn of the candidate loop: urlIndex++ and claimCurrent.
Claim(w) ==
    LET url == Candidate(w)
        st  == states[url]
    IN  /\ pc[w] = "pick"
        /\ checked[w] < Len(list[w])
        /\ urlIndex' = [urlIndex EXCEPT ![w] = (urlIndex[w] + 1) % IndexPeriod]
        /\ IF activeEpoch[url] # 0 /\ Allowed(st)
           THEN /\ states' = [states EXCEPT ![url] = Claimed(st)]
                /\ job' = [job EXCEPT ![w] = [url   |-> url,
                                              probe |-> ClaimsProbe(st),
                                              epoch |-> activeEpoch[url]]]
                /\ pc' = [pc EXCEPT ![w] = "download"]
                /\ checked' = [checked EXCEPT ![w] = 0]
                /\ list' = [list EXCEPT ![w] = NoList]
           ELSE /\ checked' = [checked EXCEPT ![w] = @ + 1]
                /\ UNCHANGED <<states, job, pc, list>>
        /\ UNCHANGED <<activeEpoch, nextEpoch, mainVars, stopping>>

\* No candidate was allowed: sleep until the earliest retry.
NothingAllowed(w) ==
    /\ pc[w] = "pick"
    /\ checked[w] >= Len(list[w])
    /\ pc' = [pc EXCEPT ![w] = "sleep"]
    /\ checked' = [checked EXCEPT ![w] = 0]
    /\ list' = [list EXCEPT ![w] = NoList]
    /\ UNCHANGED <<healthVars, mainVars, stopping, urlIndex, job>>

\* downloadOnceTracked returns an error; ctx.Err() decides which branch it takes.
DownloadError(w) ==
    /\ pc[w] = "download"
    /\ pc' = [pc EXCEPT ![w] = IF stopping[w] THEN "aborting" ELSE "failing"]
    /\ UNCHANGED <<healthVars, mainVars, stopping, list, urlIndex, checked, job>>

\* The epoch a download was claimed under is still the source's epoch.
Current(w) == job[w].epoch # 0 /\ activeEpoch[job[w].url] = job[w].epoch

\* Mutant: a failure is recorded whatever epoch it was claimed under.
RecordStaleFailure(w) ==
    /\ pc[w] = "failing"
    /\ states' = [states EXCEPT ![job[w].url] = Failed(@, job[w].probe)]
    /\ pc' = [pc EXCEPT ![w] = "top"]
    /\ job' = [job EXCEPT ![w] = NoJob]
    /\ UNCHANGED <<activeEpoch, nextEpoch, mainVars, stopping, list, urlIndex,
                   checked>>

\* failedCurrent
RecordFailure(w) ==
    LET url == job[w].url
    IN  /\ pc[w] = "failing"
        /\ states' = IF Current(w)
                     THEN [states EXCEPT ![url] = Failed(@, job[w].probe)]
                     ELSE states
        /\ pc' = [pc EXCEPT ![w] = "top"]
        /\ job' = [job EXCEPT ![w] = NoJob]
        /\ UNCHANGED <<activeEpoch, nextEpoch, mainVars, stopping, list, urlIndex,
                       checked>>

\* Mutant: a cancelled worker returns without releasing its probe.
AbortKeepingProbe(w) ==
    /\ pc[w] = "aborting"
    /\ pc' = [pc EXCEPT ![w] = "exited"]
    /\ job' = [job EXCEPT ![w] = NoJob]
    /\ UNCHANGED <<healthVars, mainVars, stopping, list, urlIndex, checked>>

\* The context was cancelled: releaseProbeCurrent if this was a probe, return.
Abort(w) ==
    LET url == job[w].url
    IN  /\ pc[w] = "aborting"
        /\ states' = IF job[w].probe /\ Current(w)
                     THEN [states EXCEPT ![url] = Released(@)]
                     ELSE states
        /\ pc' = [pc EXCEPT ![w] = "exited"]
        /\ job' = [job EXCEPT ![w] = NoJob]
        /\ UNCHANGED <<activeEpoch, nextEpoch, mainVars, stopping, list, urlIndex,
                       checked>>

\* downloadOnceTracked returns nil after a body of that many bytes, possibly 0:
\* succeededCurrent, then the restart jitter.
Complete(w, bytes) ==
    LET url == job[w].url
    IN  /\ pc[w] = "download"
        /\ states' = IF Current(w) THEN [states EXCEPT ![url] = NoState] ELSE states
        /\ pc' = [pc EXCEPT ![w] = "sleep"]
        /\ job' = [job EXCEPT ![w] = NoJob]
        /\ UNCHANGED <<activeEpoch, nextEpoch, mainVars, stopping, list, urlIndex,
                       checked>>

\* sleepWithContext ends: the worker loops, or returns if it was cancelled.
Wake(w) ==
    /\ pc[w] = "sleep"
    /\ pc' = [pc EXCEPT ![w] = IF stopping[w] THEN "exited" ELSE "top"]
    /\ UNCHANGED <<healthVars, mainVars, stopping, list, urlIndex, checked, job>>

Worker(w) ==
    \/ ReadSources(w) \/ Claim(w) \/ NothingAllowed(w) \/ DownloadError(w)
    \/ RecordFailure(w) \/ Abort(w) \/ Wake(w)
    \/ \E bytes \in {0, 1} : Complete(w, bytes)

-----------------------------------------------------------------------------
(* The select loop: run.                                                   *)

Signal == /\ mainPc = "select"
          /\ signals < MaxSignals
          /\ signals' = signals + 1

\* SIGUSR1
Grow ==
    /\ Signal
    /\ target < MaxConnections
    /\ target' = target + 1
    /\ Reconcile(pc, stopping, target + 1)
    /\ UNCHANGED <<healthVars, sourceSet, mainPc, config, list, checked, job>>

\* SIGUSR2: the highest worker that is not stopping yet is cancelled, if any.
Shrink ==
    /\ Signal
    /\ target > 1
    /\ target' = target - 1
    /\ stopping' = [w \in Slots |->
                      stopping[w] \/ (/\ w \in Staying
                                      /\ \A v \in Staying : v <= w)]
    /\ UNCHANGED <<healthVars, sourceSet, mainPc, config, pc, list, urlIndex,
                   checked, job>>

\* SIGHUP, first step: the file is read and set.replaceConfig publishes it.
Reload(sources) ==
    /\ Signal
    /\ sourceSet' = sources
    /\ config' = sources
    /\ mainPc' = "retain"
    /\ UNCHANGED <<healthVars, target, workerVars>>

\* A SIGHUP whose file cannot be loaded changes nothing.
RejectReload ==
    /\ Signal
    /\ UNCHANGED <<healthVars, sourceSet, mainPc, config, target, workerVars>>

\* Mutant: retain forgets the epoch of a removed source but not its record.
RetainKeepingStates ==
    LET keep == Listed(config)
        new  == {url \in keep : activeEpoch[url] = 0}
    IN  /\ mainPc = "retain"
        /\ mainPc' = "cancel"
        /\ \E f \in Numbering(new, nextEpoch) :
              activeEpoch' = [url \in URLs |-> IF url \in new THEN f[url]
                                               ELSE IF url \in keep
                                                    THEN activeEpoch[url] ELSE 0]
        /\ nextEpoch' = nextEpoch + Cardinality(new)
        /\ UNCHANGED <<states, sourceSet, config, target, signals, workerVars>>

\* SIGHUP, second step: health.retain.
Retain ==
    LET keep == Listed(config)
        new  == {url \in keep : activeEpoch[url] = 0}
    IN  /\ mainPc = "retain"
        /\ mainPc' = "cancel"
        /\ states' = [url \in URLs |-> IF url \in keep THEN states[url] ELSE NoState]
        /\ \E f \in Numbering(new, nextEpoch) :
              activeEpoch' = [url \in URLs |-> IF url \in new THEN f[url]
                                               ELSE IF url \in keep
                                                    THEN activeEpoch[url] ELSE 0]
        /\ nextEpoch' = nextEpoch + Cardinality(new)
        /\ UNCHANGED <<sourceSet, config, target, signals, workerVars>>

\* SIGHUP, third step: every worker is cancelled.
CancelAll ==
    /\ mainPc = "cancel"
    /\ mainPc' = "select"
    /\ stopping' = [w \in Slots |-> w \in Present]
    /\ UNCHANGED <<healthVars, sourceSet, config, target, signals, pc, list,
                   urlIndex, checked, job>>

\* Mutant: a worker that returned is not replaced.
ReapOnly(w) ==
    /\ mainPc = "select"
    /\ pc[w] = "exited"
    /\ pc' = [pc EXCEPT ![w] = "absent"]
    /\ stopping' = [stopping EXCEPT ![w] = FALSE]
    /\ UNCHANGED <<healthVars, mainVars, list, urlIndex, checked, job>>

\* A worker's result is received: it leaves the map, which is then reconciled.
Reap(w) ==
    /\ mainPc = "select"
    /\ pc[w] = "exited"
    /\ Reconcile([pc EXCEPT ![w] = "absent"], [stopping EXCEPT ![w] = FALSE], target)
    /\ UNCHANGED <<healthVars, mainVars, list, checked, job>>

Main == Retain \/ CancelAll \/ \E w \in Slots : Reap(w)

\* Time passes for every source that waits.
Tick ==
    /\ \E url \in URLs : states[url].wait > 0
    /\ states' = [url \in URLs |-> Elapsed(states[url])]
    /\ UNCHANGED <<activeEpoch, nextEpoch, mainVars, workerVars>>

Next ==
    \/ \E w \in Slots : Worker(w)
    \/ Main
    \/ Grow \/ Shrink \/ RejectReload
    \/ \E sources \in SourceLists : Reload(sources)
    \/ Tick

Spec == Init /\ [][Next]_vars

\* Goroutines are scheduled, downloads end (the idle timeout of a connection),
\* the clock runs.  Nothing makes the controller send signals.
Fairness ==
    /\ \A w \in Slots : WF_vars(Worker(w))
    /\ WF_vars(Main)
    /\ WF_vars(Tick)

FairSpec == Spec /\ Fairness

-----------------------------------------------------------------------------
(* Properties.                                                             *)

Busy(w) == pc[w] \in {"download", "failing", "aborting"}

\* w runs the recovery probe of url, for the source as it is listed now.
Probes(w, url) == /\ Busy(w)
                  /\ job[w] = [url |-> url, probe |-> TRUE, epoch |-> activeEpoch[url]]

\* probeInFlight is never left behind: while it is set, some worker really runs
\* a probe of that source and will clear it.  Otherwise claimCurrent would turn
\* every worker away from the source for ever.
ProbeOwned == \A url \in URLs :
    states[url].probe => \E w \in Slots : Probes(w, url)

\* The results of downloads of a source that has left the list, however late
\* they arrive, leave no record behind that the source would find on its return.
NoRecordOutsideList == \A url \in URLs :
    activeEpoch[url] = 0 => states[url] = NoState

\* Resizes and reloads, in whatever order workers then exit and are restarted,
\* never leave more workers downloading on than targetConnections allows.
StayingWithinTarget == Cardinality(Staying) <= target

OnlyProbesExtend == \A url \in URLs :
    /\ states[url].level > 0
    /\ states[url].failures = Strikes
    /\ states'[url].wait > states[url].wait
    => \E w \in Slots : /\ pc[w] = "failing" /\ pc'[w] = "top"
                        /\ job[w].url = url /\ job[w].probe

\* After three consecutive failures only the failure of a probe sets the timer of
\* the quarantine again: the ordinary downloads that were in flight when the
\* source was quarantined, and fail later, do not extend it.
QuarantineNotExtended == [][OnlyProbesExtend]_vars

\* The breaker of every source follows the abstract state machine.
BreakerPhase(url) ==
    IF activeEpoch[url] = 0 THEN [mode |-> "absent", level |-> 0]
    ELSE [mode |-> Status(states[url]), level |-> states[url].level]

Breaker == INSTANCE SourceBreaker
             WITH URLs <- URLs, breaker <- [url \in URLs |-> BreakerPhase(url)]

BreakerSpec == Breaker!Spec

\* A quarantined source that stays listed is probed or recovers in the end: the
\* rotation over the list reaches it even when other sources always allow.
QuarantinedIsProbed == \A url \in URLs :
    states[url].level > 0
      ~> (states[url].probe \/ states[url].level = 0 \/ activeEpoch[url] = 0)

\* Once the signals stop, the pool settles on targetConnections workers, none of
\* them on its way out.
PoolSettles == <>[](Present = Staying /\ Cardinality(Present) = target)

=============================================================================
