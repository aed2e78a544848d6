-------------------------- MODULE Discarder_proofs --------------------------
(***************************************************************************)
(* Theorems about Discarder, for every set of sources, every family of     *)
(* lists, every number of connections and all delays.                      *)
(***************************************************************************)
EXTENDS Discarder, FiniteSetTheorems, TLAPS

USE DEF Strikes, MaxLevel

(***************************************************************************)
(* The operators of the circuit breaker keep records well formed.          *)
(***************************************************************************)

\* An entry is empty or counts a failure, and only quarantined sources are probed.
WellFormed(st) == /\ st.failures = 0 => st = NoState
                  /\ st.probe => st.level > 0

Records == {st \in SourceState : WellFormed(st)}

LEMMA NoStateRecord == NoState \in Records
  BY DEF NoState, Records, WellFormed, SourceState

LEMMA ClaimedRecord ==
    ASSUME NEW st \in Records
    PROVE  Claimed(st) \in Records
<1>1. st \in SourceState /\ WellFormed(st)
  BY DEF Records
<1>2. Claimed(st) \in SourceState
  BY <1>1 DEF Claimed, SourceState
<1>3. CASE ClaimsProbe(st)
  <2>1. st.failures # 0
    BY <1>1, <1>3 DEF WellFormed, ClaimsProbe, NoState
  <2>2. Claimed(st).failures # 0 /\ Claimed(st).level > 0
    BY <1>1, <1>3, <2>1 DEF Claimed, ClaimsProbe, SourceState
  <2>3. QED
    BY <1>2, <2>2 DEF Records, WellFormed
<1>4. CASE ~ClaimsProbe(st)
  BY <1>4 DEF Claimed
<1>5. QED
  BY <1>3, <1>4

\* A failed probe is back in quarantine and no longer in flight.
LEMMA ProbeFailedRecord ==
    ASSUME NEW st \in Records
    PROVE  ProbeFailed(st) \in Records /\ ~ProbeFailed(st).probe
<1> DEFINE level == Saturated(st.level, MaxLevel)
           failures == Saturated(st.failures, Strikes)
<1>1. level \in 1..MaxLevel /\ failures \in 1..Strikes
  BY DEF Saturated, Records, SourceState
<1>2. QuarantineDelay[level] \in Nat
  BY <1>1, DelayAssumption
<1>3. ProbeFailed(st) = [failures |-> failures, level |-> level,
                         wait |-> QuarantineDelay[level], probe |-> FALSE]
  BY DEF ProbeFailed
<1> HIDE DEF level, failures
<1>4. QED
  BY <1>1, <1>2, <1>3 DEF Records, WellFormed, SourceState, NoState

\* The three ways a failed ordinary download rewrites its record.
LEMMA CountedRecord ==
    ASSUME NEW st \in Records, NEW failures \in 1..Strikes, NEW wait \in Nat
    PROVE  /\ [st EXCEPT !.failures = failures] \in Records
           /\ [st EXCEPT !.failures = failures, !.wait = wait] \in Records
           /\ [st EXCEPT !.failures = failures, !.level = 1, !.wait = wait] \in Records
<1>1. st \in SourceState /\ WellFormed(st) /\ failures \in 0..Strikes /\ 1 \in 0..MaxLevel
  BY DEF Records
<1>2. [st EXCEPT !.failures = failures] \in SourceState
      /\ WellFormed([st EXCEPT !.failures = failures])
  BY <1>1 DEF SourceState, WellFormed, NoState
<1>3. [st EXCEPT !.failures = failures, !.wait = wait] \in SourceState
  BY <1>1, Zenon DEF SourceState
<1>4. WellFormed([st EXCEPT !.failures = failures, !.wait = wait])
  BY <1>1 DEF SourceState, WellFormed, NoState
<1>5. [st EXCEPT !.failures = failures, !.level = 1, !.wait = wait] \in SourceState
  BY <1>1, Zenon DEF SourceState
<1>6. WellFormed([st EXCEPT !.failures = failures, !.level = 1, !.wait = wait])
  BY <1>1 DEF SourceState, WellFormed, NoState
<1>7. QED
  BY <1>2, <1>3, <1>4, <1>5, <1>6 DEF Records

\* The failure of an ordinary download does not touch a probe in flight.
LEMMA DownloadFailedRecord ==
    ASSUME NEW st \in Records
    PROVE  DownloadFailed(st) \in Records /\ DownloadFailed(st).probe = st.probe
<1> DEFINE failures == Saturated(st.failures, Strikes)
           short    == RetryDelay[failures]
           long     == QuarantineDelay[1]
           again    == [st EXCEPT !.failures = failures]
           backOff  == [st EXCEPT !.failures = failures, !.wait = short]
           third    == [st EXCEPT !.failures = failures, !.level = 1, !.wait = long]
<1>1. st \in SourceState
  BY DEF Records
<1>2. failures \in 1..Strikes
  BY <1>1 DEF Saturated, SourceState
<1>3. (failures < Strikes => short \in Nat) /\ long \in Nat
  BY <1>2, DelayAssumption
<1>4. DownloadFailed(st) = IF failures < Strikes THEN backOff
                           ELSE IF st.level = 0 THEN third ELSE again
  BY DEF DownloadFailed
<1> HIDE DEF failures, short, long
<1>5. again.probe = st.probe /\ backOff.probe = st.probe /\ third.probe = st.probe
  BY <1>1, Zenon DEF SourceState
<1>6. /\ again \in Records /\ third \in Records
      /\ failures < Strikes => backOff \in Records
  BY <1>2, <1>3, CountedRecord
<1> HIDE DEF again, backOff, third
<1>7. QED
  BY <1>4, <1>5, <1>6

LEMMA FailedRecord ==
    ASSUME NEW st \in Records, NEW wasProbe \in BOOLEAN
    PROVE  /\ Failed(st, wasProbe) \in Records
           /\ Failed(st, wasProbe).probe => st.probe /\ ~wasProbe
<1>1. CASE wasProbe
  BY <1>1, ProbeFailedRecord DEF Failed
<1>2. CASE ~wasProbe
  BY <1>2, DownloadFailedRecord DEF Failed
<1>3. QED
  BY <1>1, <1>2

LEMMA ReleasedRecord ==
    ASSUME NEW st \in Records
    PROVE  Released(st) \in Records /\ ~Released(st).probe
<1>1. st \in SourceState /\ WellFormed(st)
  BY DEF Records
<1>2. Released(st) \in SourceState /\ ~Released(st).probe
  BY <1>1 DEF Released, SourceState
<1>3. Released(st).failures = st.failures
  BY <1>1 DEF Released, SourceState
<1>4. ~st.probe => Released(st) = st
  BY <1>1 DEF Released, SourceState
<1>5. QED
  BY <1>1, <1>2, <1>3, <1>4 DEF Records, WellFormed, NoState

LEMMA ElapsedRecord ==
    ASSUME NEW st \in Records
    PROVE  /\ Elapsed(st) \in Records
           /\ Elapsed(st).probe = st.probe
           /\ st = NoState => Elapsed(st) = NoState
<1>1. st \in SourceState /\ WellFormed(st)
  BY DEF Records
<1>2. Elapsed(st) \in SourceState
  BY <1>1 DEF Elapsed, SourceState
<1>3. Elapsed(st).failures = st.failures /\ Elapsed(st).level = st.level
  BY <1>1 DEF Elapsed, SourceState
<1>4. Elapsed(st).probe = st.probe
  BY <1>1, Zenon DEF Elapsed, SourceState
<1>5. Elapsed(NoState) = NoState
  BY DEF Elapsed, NoState
<1>6. QED
  BY <1>1, <1>2, <1>3, <1>4, <1>5 DEF Records, WellFormed

(***************************************************************************)
(* The inductive invariant.  ProbeOwned alone is not inductive: a probe    *)
(* must also belong to a listed source, so that the worker that ends it    *)
(* finds its own epoch in the map.                                         *)
(***************************************************************************)
RecordsWellFormed == \A url \in URLs : WellFormed(states[url])

Inv == TypeOK /\ RecordsWellFormed /\ NoRecordOutsideList /\ ProbeOwned

LEMMA StateIsRecord ==
    ASSUME Inv, NEW url \in URLs
    PROVE  states[url] \in Records
  BY DEF Inv, TypeOK, RecordsWellFormed, Records

LEMMA ListType ==
    ASSUME NEW sources \in SourceLists
    PROVE  /\ sources \in Seq(URLs)
           /\ Len(sources) \in Nat \ {0}
           /\ Listed(sources) \subseteq URLs
<1>1. sources \in Seq(URLs) /\ sources # << >>
  BY DiscarderAssumption
<1>2. Len(sources) \in Nat \ {0}
  BY <1>1
<1>3. \A i \in 1..Len(sources) : sources[i] \in URLs
  BY <1>1
<1>4. QED
  BY <1>1, <1>2, <1>3 DEF Listed

LEMMA NoJobType == NoJob \in Jobs
<1>1. PICK sources \in SourceLists : TRUE
  BY DiscarderAssumption
<1>2. sources[1] \in URLs
  BY ListType
<1>3. (CHOOSE url \in URLs : TRUE) \in URLs
  BY <1>2
<1>4. QED
  BY <1>3 DEF NoJob, Jobs

\* retain gives every new source an epoch that no source ever had.
LEMMA NumberingType ==
    ASSUME NEW new \in SUBSET URLs, NEW after \in Nat, NEW f \in Numbering(new, after)
    PROVE  /\ Cardinality(new) \in Nat
           /\ \A url \in new : f[url] \in Nat /\ f[url] > after
<1>1. Cardinality(new) \in Nat
  BY FS_Subset, FS_CardinalityType, DiscarderAssumption
<1>2. f \in [new -> (after + 1)..(after + Cardinality(new))]
  BY DEF Numbering
<1>3. QED
  BY <1>1, <1>2

\* A step that starts no probe, lists no other sources and leaves the workers
\* that download alone cannot orphan a probe.
LEMMA OwnersUndisturbed ==
    ASSUME ProbeOwned,
           UNCHANGED activeEpoch,
           \A url \in URLs : states'[url].probe => states[url].probe,
           \A w \in Slots : Busy(w) => pc'[w] = pc[w] /\ job'[w] = job[w]
    PROVE  ProbeOwned'
<1> SUFFICES ASSUME NEW url \in URLs, states'[url].probe
             PROVE  \E w \in Slots : Probes(w, url)'
  BY DEF ProbeOwned
<1>1. PICK w \in Slots : Probes(w, url)
  BY DEF ProbeOwned
<1>2. Probes(w, url)'
  BY <1>1 DEF Probes, Busy
<1>3. QED
  BY <1>2

LEMMA InitInv == Init => Inv
<1> SUFFICES ASSUME Init
             PROVE  Inv
  OBVIOUS
<1> USE DEF Init
<1>1. Listed(sourceSet) \in SUBSET URLs
  BY ListType
<1>2. PICK f \in Numbering(Listed(sourceSet), 0) :
        activeEpoch = [url \in URLs |-> IF url \in Listed(sourceSet) THEN f[url] ELSE 0]
  OBVIOUS
<1>3. activeEpoch \in [URLs -> Nat] /\ nextEpoch \in Nat
  BY <1>1, <1>2, NumberingType
<1>4. states \in [URLs -> SourceState] /\ RecordsWellFormed
  BY NoStateRecord DEF Records, RecordsWellFormed
<1>5. NoRecordOutsideList /\ ProbeOwned
  BY DEF NoRecordOutsideList, ProbeOwned, NoState
<1>6. urlIndex \in [Slots -> 0..(IndexPeriod - 1)]
  BY DiscarderAssumption DEF Slots
<1>7. QED
  BY <1>3, <1>4, <1>5, <1>6, NoJobType, DiscarderAssumption
     DEF Inv, TypeOK, WorkerPcs

-----------------------------------------------------------------------------
(* Every step of a worker preserves the invariant.                         *)

LEMMA CandidateType ==
    ASSUME Inv, NEW w \in Slots, checked[w] < Len(list[w])
    PROVE  Candidate(w) \in URLs
<1>1. list[w] \in SourceLists
  BY DEF Inv, TypeOK, NoList
<1>2. list[w] \in Seq(URLs) /\ Len(list[w]) \in Nat \ {0}
  BY <1>1, ListType
<1>3. urlIndex[w] \in Nat
  BY DEF Inv, TypeOK
<1>4. (urlIndex[w] % Len(list[w])) + 1 \in 1..Len(list[w])
  BY <1>2, <1>3
<1>5. QED
  BY <1>2, <1>4 DEF Candidate

\* The steps of a worker that touch neither the breaker nor a download.
LEMMA QuietWorkerInv ==
    ASSUME Inv, NEW w \in Slots,
           ReadSources(w) \/ NothingAllowed(w) \/ DownloadError(w) \/ Wake(w)
    PROVE  Inv'
<1>1. UNCHANGED <<states, activeEpoch, nextEpoch, mainVars, job>>
  BY DEF ReadSources, NothingAllowed, DownloadError, Wake, healthVars
<1>2. TypeOK'
  <2>1. CASE ReadSources(w)
    BY <1>1, <2>1 DEF Inv, TypeOK, ReadSources, WorkerPcs, mainVars
  <2>2. CASE NothingAllowed(w)
    BY <1>1, <2>2 DEF Inv, TypeOK, NothingAllowed, WorkerPcs, mainVars, NoList
  <2>3. CASE DownloadError(w)
    BY <1>1, <2>3 DEF Inv, TypeOK, DownloadError, WorkerPcs, mainVars
  <2>4. CASE Wake(w)
    BY <1>1, <2>4 DEF Inv, TypeOK, Wake, WorkerPcs, mainVars
  <2>5. QED
    BY <2>1, <2>2, <2>3, <2>4
<1>3. RecordsWellFormed' /\ NoRecordOutsideList'
  BY <1>1 DEF Inv, RecordsWellFormed, NoRecordOutsideList
<1>4. ASSUME NEW url \in URLs, states'[url].probe
      PROVE  \E v \in Slots : Probes(v, url)'
  <2>1. PICK v \in Slots : Probes(v, url)
    BY <1>1, <1>4 DEF Inv, ProbeOwned
  <2>2. pc[v] \in {"download", "failing", "aborting"}
        => pc'[v] \in {"download", "failing", "aborting"}
    BY DEF Inv, TypeOK, ReadSources, NothingAllowed, DownloadError, Wake
  <2>3. QED
    BY <1>1, <2>1, <2>2 DEF Probes, Busy
<1>5. ProbeOwned'
  BY <1>4 DEF ProbeOwned
<1>6. QED
  BY <1>2, <1>3, <1>5 DEF Inv

LEMMA ClaimInv ==
    ASSUME Inv, NEW w \in Slots, Claim(w)
    PROVE  Inv'
<1> DEFINE url == Candidate(w)
           st  == states[url]
<1>1. url \in URLs
  BY CandidateType DEF Claim
<1>2. st \in Records /\ Claimed(st) \in Records
  BY <1>1, StateIsRecord, ClaimedRecord
<1>3. urlIndex' \in [Slots -> 0..(IndexPeriod - 1)]
  <2>1. (urlIndex[w] + 1) % IndexPeriod \in 0..(IndexPeriod - 1)
    <3>1. IndexPeriod \in Nat \ {0}
      BY DiscarderAssumption
    <3>2. urlIndex[w] + 1 \in Nat
      BY <3>1 DEF Inv, TypeOK
    <3>3. QED
      BY <3>1, <3>2
  <2>2. QED
    BY <2>1 DEF Inv, TypeOK, Claim
<1>4. CASE activeEpoch[url] # 0 /\ Allowed(st)
  <2>1. /\ states' = [states EXCEPT ![url] = Claimed(st)]
        /\ job' = [job EXCEPT ![w] = [url |-> url, probe |-> ClaimsProbe(st),
                                      epoch |-> activeEpoch[url]]]
        /\ pc' = [pc EXCEPT ![w] = "download"]
        /\ checked' = [checked EXCEPT ![w] = 0]
        /\ list' = [list EXCEPT ![w] = NoList]
        /\ UNCHANGED <<activeEpoch, nextEpoch, mainVars, stopping>>
    BY <1>4 DEF Claim
  <2>2. [url |-> url, probe |-> ClaimsProbe(st), epoch |-> activeEpoch[url]] \in Jobs
    BY <1>1 DEF Inv, TypeOK, Jobs, ClaimsProbe
  <2>3. states' \in [URLs -> SourceState] /\ RecordsWellFormed'
    BY <1>1, <1>2, <2>1 DEF Inv, TypeOK, RecordsWellFormed, Records
  <2> HIDE DEF st, url
  <2>4. TypeOK'
    BY <1>3, <2>1, <2>2, <2>3 DEF Inv, TypeOK, WorkerPcs, mainVars
  <2>5. NoRecordOutsideList'
    BY <1>4, <2>1 DEF Inv, TypeOK, NoRecordOutsideList
  <2>6. ASSUME NEW other \in URLs, states'[other].probe
        PROVE  \E v \in Slots : Probes(v, other)'
    <3>1. CASE states[other].probe
      <4>1. PICK v \in Slots : Probes(v, other)
        BY <3>1 DEF Inv, ProbeOwned
      <4>2. v # w
        BY <4>1 DEF Probes, Busy, Claim
      <4>3. QED
        BY <2>1, <4>1, <4>2 DEF Probes, Busy
    <3>2. CASE ~states[other].probe
      <4>1. other = url /\ st.level > 0
        BY <1>1, <2>1, <2>6, <3>2 DEF Inv, TypeOK, Claimed, ClaimsProbe, st
      <4>2. pc'[w] = "download" /\ job'[w] = [url |-> url, probe |-> TRUE,
                                              epoch |-> activeEpoch'[url]]
        BY <2>1, <4>1 DEF Inv, TypeOK, ClaimsProbe
      <4>3. QED
        BY <4>1, <4>2 DEF Probes, Busy
    <3>3. QED
      BY <3>1, <3>2
  <2>7. QED
    BY <2>3, <2>4, <2>5, <2>6 DEF Inv, ProbeOwned
<1>5. CASE ~(activeEpoch[url] # 0 /\ Allowed(st))
  <2>1. /\ checked' = [checked EXCEPT ![w] = @ + 1]
        /\ UNCHANGED <<states, job, pc, list, activeEpoch, nextEpoch, mainVars, stopping>>
    BY <1>5 DEF Claim
  <2>2. TypeOK'
    BY <1>3, <2>1 DEF Inv, TypeOK, mainVars
  <2>3. RecordsWellFormed' /\ NoRecordOutsideList'
    BY <2>1 DEF Inv, RecordsWellFormed, NoRecordOutsideList
  <2>4. ProbeOwned'
    BY <2>1, OwnersUndisturbed DEF Inv
  <2>5. QED
    BY <2>2, <2>3, <2>4 DEF Inv
<1>6. QED
  BY <1>4, <1>5

\* A worker that ends its download.  If the source has not been listed anew, its
\* record becomes new, which has a probe in flight only if there was one of
\* another worker; otherwise the breaker does not change.
LEMMA EndOfDownloadInv ==
    ASSUME Inv, NEW w \in Slots, NEW new \in Records, NEW next \in WorkerPcs,
           Busy(w),
           states' = IF Current(w) THEN [states EXCEPT ![job[w].url] = new] ELSE states,
           new.probe => states[job[w].url].probe /\ ~job[w].probe,
           pc' = [pc EXCEPT ![w] = next],
           job' = [job EXCEPT ![w] = NoJob],
           UNCHANGED <<activeEpoch, nextEpoch, mainVars, stopping, list, urlIndex, checked>>
    PROVE  Inv'
<1>1. job[w].url \in URLs /\ job[w].probe \in BOOLEAN /\ job[w].epoch \in Nat
  BY DEF Inv, TypeOK, Jobs
<1>2. states' \in [URLs -> SourceState] /\ RecordsWellFormed'
  BY <1>1 DEF Inv, TypeOK, RecordsWellFormed, Records
<1>3. TypeOK'
  BY <1>2, NoJobType DEF Inv, TypeOK, mainVars
<1>4. NoRecordOutsideList'
  BY <1>1 DEF Inv, TypeOK, NoRecordOutsideList, Current
<1>5. ASSUME NEW url \in URLs, states'[url].probe
      PROVE  \E v \in Slots : Probes(v, url)'
  <2>1. states[url].probe
    BY <1>1, <1>5 DEF Inv, TypeOK
  <2>2. PICK v \in Slots : Probes(v, url)
    BY <2>1 DEF Inv, ProbeOwned
  <2>3. activeEpoch[url] # 0
    BY <2>1 DEF Inv, NoRecordOutsideList, NoState
  <2>4. v # w
    <3> SUFFICES ASSUME v = w
                 PROVE  FALSE
      OBVIOUS
    <3>1. job[w].url = url /\ job[w].probe /\ Current(w)
      BY <2>2, <2>3 DEF Probes, Current
    <3>2. states'[url] = new
      BY <3>1 DEF Inv, TypeOK
    <3>3. QED
      BY <1>5, <3>1, <3>2
  <2>5. QED
    BY <2>2, <2>4 DEF Probes, Busy, Inv, TypeOK
<1>6. QED
  BY <1>2, <1>3, <1>4, <1>5 DEF Inv, ProbeOwned

LEMMA WorkerInv ==
    ASSUME Inv, NEW w \in Slots, Worker(w)
    PROVE  Inv'
<1>1. CASE ReadSources(w) \/ NothingAllowed(w) \/ DownloadError(w) \/ Wake(w)
  BY <1>1, QuietWorkerInv
<1>2. CASE Claim(w)
  BY <1>2, ClaimInv
<1>3. job[w].url \in URLs /\ job[w].probe \in BOOLEAN
  BY DEF Inv, TypeOK, Jobs
<1> DEFINE st == states[job[w].url]
<1>4. st \in Records
  BY <1>3, StateIsRecord
<1>5. CASE RecordFailure(w)
  <2>1. /\ Failed(st, job[w].probe) \in Records
        /\ Failed(st, job[w].probe).probe => st.probe /\ ~job[w].probe
    BY <1>3, <1>4, FailedRecord
  <2>2. states' = IF Current(w)
                  THEN [states EXCEPT ![job[w].url] = Failed(st, job[w].probe)]
                  ELSE states
    BY <1>3, <1>5 DEF RecordFailure, Inv, TypeOK
  <2>3. /\ Busy(w)
        /\ pc' = [pc EXCEPT ![w] = "top"]
        /\ job' = [job EXCEPT ![w] = NoJob]
        /\ UNCHANGED <<activeEpoch, nextEpoch, mainVars, stopping, list, urlIndex,
                       checked>>
    BY <1>5 DEF RecordFailure, Busy
  <2>4. "top" \in WorkerPcs
    BY DEF WorkerPcs
  <2> HIDE DEF st
  <2>5. QED
    BY <2>1, <2>2, <2>3, <2>4, EndOfDownloadInv DEF st
<1>6. CASE Abort(w)
  <2> DEFINE new == IF job[w].probe THEN Released(st) ELSE st
  <2>1. new \in Records /\ (new.probe => st.probe /\ ~job[w].probe)
    BY <1>3, <1>4, ReleasedRecord
  <2>2. states' = IF Current(w) THEN [states EXCEPT ![job[w].url] = new] ELSE states
    BY <1>3, <1>6 DEF Abort, Inv, TypeOK
  <2>3. /\ Busy(w)
        /\ pc' = [pc EXCEPT ![w] = "exited"]
        /\ job' = [job EXCEPT ![w] = NoJob]
        /\ UNCHANGED <<activeEpoch, nextEpoch, mainVars, stopping, list, urlIndex,
                       checked>>
    BY <1>6 DEF Abort, Busy
  <2>4. "exited" \in WorkerPcs
    BY DEF WorkerPcs
  <2> HIDE DEF new
  <2>5. QED
    BY <2>1, <2>2, <2>3, <2>4, EndOfDownloadInv
<1>7. CASE \E bytes \in {0, 1} : Complete(w, bytes)
  <2>1. NoState \in Records /\ ~NoState.probe
    BY NoStateRecord DEF NoState
  <2>2. /\ Busy(w)
        /\ states' = IF Current(w) THEN [states EXCEPT ![job[w].url] = NoState]
                     ELSE states
        /\ pc' = [pc EXCEPT ![w] = "sleep"]
        /\ job' = [job EXCEPT ![w] = NoJob]
        /\ UNCHANGED <<activeEpoch, nextEpoch, mainVars, stopping, list, urlIndex,
                       checked>>
    BY <1>7 DEF Complete, Busy
  <2>3. "sleep" \in WorkerPcs
    BY DEF WorkerPcs
  <2>4. QED
    BY <2>1, <2>2, <2>3, EndOfDownloadInv
<1>8. QED
  BY <1>1, <1>2, <1>5, <1>6, <1>7 DEF Worker

-----------------------------------------------------------------------------
(* So does every step of the select loop and the clock.                    *)

\* reconcileWorkers starts workers in free slots only.
LEMMA ReconcileInv ==
    ASSUME Inv,
           NEW before \in [Slots -> WorkerPcs], NEW flags \in [Slots -> BOOLEAN],
           NEW wanted,
           \A w \in Slots : before[w] = pc[w] \/ (before[w] = "absent" /\ ~Busy(w)),
           Reconcile(before, flags, wanted),
           target' \in Slots, signals' \in 0..MaxSignals,
           UNCHANGED <<healthVars, sourceSet, mainPc, config, list, checked, job>>
    PROVE  Inv'
<1>1. PICK starting \in SUBSET Slots :
        /\ \A w \in starting : before[w] = "absent"
        /\ Start(starting, before, flags)
  BY DEF Reconcile
<1>2. \A w \in Slots : (w - 1) % IndexPeriod \in 0..(IndexPeriod - 1)
  BY DiscarderAssumption DEF Slots
<1>3. TypeOK'
  BY <1>1, <1>2 DEF Inv, TypeOK, Start, WorkerPcs, healthVars
<1>4. RecordsWellFormed' /\ NoRecordOutsideList'
  BY DEF Inv, RecordsWellFormed, NoRecordOutsideList, healthVars
<1>5. \A w \in Slots : Busy(w) => pc'[w] = pc[w] /\ job'[w] = job[w]
  BY <1>1 DEF Start, Busy
<1>6. ProbeOwned'
  BY <1>5, OwnersUndisturbed DEF Inv, healthVars
<1>7. QED
  BY <1>3, <1>4, <1>6 DEF Inv

LEMMA RetainInv ==
    ASSUME Inv, Retain
    PROVE  Inv'
<1> DEFINE keep == Listed(config)
           new  == {url \in keep : activeEpoch[url] = 0}
<1>1. keep \subseteq URLs /\ new \in SUBSET URLs
  BY ListType DEF Inv, TypeOK
<1>2. PICK f \in Numbering(new, nextEpoch) :
        activeEpoch' = [url \in URLs |-> IF url \in new THEN f[url]
                                         ELSE IF url \in keep
                                              THEN activeEpoch[url] ELSE 0]
  BY DEF Retain
<1>3. /\ Cardinality(new) \in Nat
      /\ \A url \in new : f[url] \in Nat /\ f[url] > nextEpoch
  BY <1>1, NumberingType DEF Inv, TypeOK
<1>4. /\ nextEpoch' = nextEpoch + Cardinality(new)
      /\ states' = [url \in URLs |-> IF url \in keep THEN states[url] ELSE NoState]
      /\ mainPc' = "cancel"
      /\ UNCHANGED <<sourceSet, config, target, signals, workerVars>>
  BY DEF Retain
<1> HIDE DEF new, keep
<1>5. states' \in [URLs -> SourceState] /\ RecordsWellFormed'
  <2>1. \A url \in URLs : states'[url] \in Records
    BY <1>4, NoStateRecord, StateIsRecord
  <2>2. QED
    BY <1>4, <2>1 DEF Records, RecordsWellFormed
<1>6. TypeOK'
  BY <1>2, <1>3, <1>4, <1>5 DEF Inv, TypeOK, workerVars
<1>7. NoRecordOutsideList'
  <2> SUFFICES ASSUME NEW url \in URLs, activeEpoch'[url] = 0
               PROVE  states'[url] = NoState
    BY DEF NoRecordOutsideList
  <2>1. CASE url \notin keep
    BY <1>4, <2>1
  <2>2. CASE url \in keep
    BY <1>2, <1>3, <1>4, <2>2 DEF new, keep, Inv, TypeOK, NoRecordOutsideList
  <2>3. QED
    BY <2>1, <2>2
<1>8. ASSUME NEW url \in URLs, states'[url].probe
      PROVE  \E w \in Slots : Probes(w, url)'
  <2>1. url \in keep /\ states[url].probe
    BY <1>4, <1>8 DEF NoState
  <2>2. activeEpoch[url] # 0
    BY <2>1 DEF Inv, NoRecordOutsideList, NoState
  <2>3. activeEpoch'[url] = activeEpoch[url]
    BY <1>2, <2>1, <2>2 DEF new
  <2>4. PICK w \in Slots : Probes(w, url)
    BY <2>1 DEF Inv, ProbeOwned
  <2>5. QED
    BY <1>4, <2>3, <2>4 DEF Probes, Busy, workerVars
<1>9. QED
  BY <1>5, <1>6, <1>7, <1>8 DEF Inv, ProbeOwned

LEMMA MainInv ==
    ASSUME Inv,
           \/ Main \/ Grow \/ Shrink \/ RejectReload
           \/ \E sources \in SourceLists : Reload(sources)
    PROVE  Inv'
<1>1. CASE Retain
  BY <1>1, RetainInv
<1>2. CASE \E w \in Slots : Reap(w)
  <2>1. PICK w \in Slots : Reap(w)
    BY <1>2
  <2>2. /\ [pc EXCEPT ![w] = "absent"] \in [Slots -> WorkerPcs]
        /\ [stopping EXCEPT ![w] = FALSE] \in [Slots -> BOOLEAN]
    BY DEF Inv, TypeOK, WorkerPcs
  <2>3. \A v \in Slots : \/ [pc EXCEPT ![w] = "absent"][v] = pc[v]
                         \/ ([pc EXCEPT ![w] = "absent"][v] = "absent" /\ ~Busy(v))
    BY <2>1 DEF Reap, Inv, TypeOK, Busy
  <2>4. /\ Reconcile([pc EXCEPT ![w] = "absent"], [stopping EXCEPT ![w] = FALSE], target)
        /\ UNCHANGED <<healthVars, sourceSet, mainPc, config, list, checked, job>>
        /\ target' \in Slots /\ signals' \in 0..MaxSignals
    BY <2>1 DEF Reap, mainVars, Inv, TypeOK
  <2>5. QED
    BY <2>2, <2>3, <2>4, ReconcileInv
<1>3. CASE Grow
  <2>1. pc \in [Slots -> WorkerPcs] /\ stopping \in [Slots -> BOOLEAN]
    BY DEF Inv, TypeOK
  <2>2. target' \in Slots /\ signals' \in 0..MaxSignals
    BY <1>3, DiscarderAssumption DEF Grow, Signal, Inv, TypeOK, Slots
  <2>3. /\ Reconcile(pc, stopping, target + 1)
        /\ UNCHANGED <<healthVars, sourceSet, mainPc, config, list, checked, job>>
    BY <1>3 DEF Grow
  <2>4. QED
    BY <2>1, <2>2, <2>3, ReconcileInv
<1>4. CASE \/ CancelAll \/ Shrink \/ RejectReload
           \/ \E sources \in SourceLists : Reload(sources)
  <2>1. UNCHANGED <<states, activeEpoch, nextEpoch, pc, job, list, urlIndex, checked>>
    BY <1>4 DEF CancelAll, Shrink, RejectReload, Reload, healthVars, workerVars
  <2>2. TypeOK'
    <3>1. CASE CancelAll
      BY <2>1, <3>1 DEF CancelAll, Inv, TypeOK
    <3>2. CASE Shrink
      <4>1. target' \in Slots /\ signals' \in 0..MaxSignals
        BY <3>2, DiscarderAssumption DEF Shrink, Signal, Inv, TypeOK, Slots
      <4>2. stopping' \in [Slots -> BOOLEAN]
        BY <3>2 DEF Shrink, Inv, TypeOK
      <4>3. QED
        BY <2>1, <3>2, <4>1, <4>2 DEF Shrink, Inv, TypeOK
    <3>3. CASE RejectReload
      BY <2>1, <3>3, DiscarderAssumption
         DEF RejectReload, Signal, Inv, TypeOK, workerVars
    <3>4. CASE \E sources \in SourceLists : Reload(sources)
      BY <2>1, <3>4, DiscarderAssumption DEF Reload, Signal, Inv, TypeOK, workerVars
    <3>5. QED
      BY <1>4, <3>1, <3>2, <3>3, <3>4
  <2>3. RecordsWellFormed' /\ NoRecordOutsideList'
    BY <2>1 DEF Inv, RecordsWellFormed, NoRecordOutsideList
  <2>4. ProbeOwned'
    BY <2>1, OwnersUndisturbed DEF Inv
  <2>5. QED
    BY <2>2, <2>3, <2>4 DEF Inv
<1>5. QED
  BY <1>1, <1>2, <1>3, <1>4 DEF Main

LEMMA TickInv ==
    ASSUME Inv, Tick
    PROVE  Inv'
<1>1. /\ states' = [url \in URLs |-> Elapsed(states[url])]
      /\ UNCHANGED <<activeEpoch, nextEpoch, mainVars, workerVars>>
  BY DEF Tick
<1>2. \A url \in URLs : /\ states'[url] \in Records
                        /\ states'[url].probe => states[url].probe
                        /\ states[url] = NoState => states'[url] = NoState
  BY <1>1, StateIsRecord, ElapsedRecord
<1>3. TypeOK'
  BY <1>1, <1>2 DEF Inv, TypeOK, Records, mainVars, workerVars
<1>4. RecordsWellFormed' /\ NoRecordOutsideList'
  BY <1>1, <1>2 DEF Inv, RecordsWellFormed, NoRecordOutsideList, Records
<1>5. ProbeOwned'
  BY <1>1, <1>2, OwnersUndisturbed DEF Inv, workerVars
<1>6. QED
  BY <1>3, <1>4, <1>5 DEF Inv

LEMMA StutterInv == Inv /\ UNCHANGED vars => Inv'
  BY DEF Inv, TypeOK, RecordsWellFormed, NoRecordOutsideList, ProbeOwned, Probes, Busy,
         vars, healthVars, mainVars, workerVars

LEMMA NextInv == Inv /\ [Next]_vars => Inv'
<1>1. ASSUME Inv, Next
      PROVE  Inv'
  BY <1>1, WorkerInv, MainInv, TickInv DEF Next
<1>2. QED
  BY <1>1, StutterInv

-----------------------------------------------------------------------------
(* Theorems.                                                               *)

\* The inductive invariant holds in every reachable state.
THEOREM Invariance == Spec => []Inv
  BY InitInv, NextInv, PTL DEF Spec

\* Every variable keeps its type: connection targets, indices, epochs, records.
THEOREM TypeCorrect == Spec => []TypeOK
<1>1. Inv => TypeOK
  BY DEF Inv
<1>2. QED
  BY <1>1, Invariance, PTL

\* However cancellations, reloads, late results and probes interleave, a probe
\* that is marked in flight belongs to a worker that is still running it.
THEOREM ProbesAreOwned == Spec => []ProbeOwned
<1>1. Inv => ProbeOwned
  BY DEF Inv
<1>2. QED
  BY <1>1, Invariance, PTL

\* No late result leaves a record for a source that has been delisted.
THEOREM DelistedForgotten == Spec => []NoRecordOutsideList
<1>1. Inv => NoRecordOutsideList
  BY DEF Inv
<1>2. QED
  BY <1>1, Invariance, PTL

-----------------------------------------------------------------------------
(* The size of the pool.                                                   *)

LEMMA SlotsFinite ==
    ASSUME NEW S \in SUBSET Slots PROVE IsFiniteSet(S) /\ Cardinality(S) \in Nat
<1>1. IsFiniteSet(Slots)
  BY FS_Interval, DiscarderAssumption DEF Slots
<1> QED
  BY <1>1, FS_Subset, FS_CardinalityType

\* A set of worker ids has a greatest one: it is the one with the least set of ids from it on.
LEMMA GreatestMember ==
    ASSUME NEW S \in SUBSET Slots, S # {}
    PROVE  \E w \in S : \A v \in S : v <= w
<1> DEFINE from(w) == {v \in S : w <= v}
           tails   == {from(w) : w \in S}
<1>1. \A w \in S : w \in Nat
  BY DEF Slots
<1>2. tails \subseteq FiniteSubsetsOf(S) /\ tails # {}
  <2>1. \A w \in S : from(w) \in SUBSET S /\ from(w) \in SUBSET Slots
    OBVIOUS
  <2>2. \A w \in S : IsFiniteSet(from(w))
    BY <2>1, SlotsFinite
  <2> QED
    BY <2>1, <2>2 DEF FiniteSubsetsOf
<1>3. PICK least \in tails : \A other \in tails : <<other, least>> \notin StrictSubsetOrdering(S)
  BY <1>2, FS_StrictSubsetOrderingWellFounded, WFMin
<1>4. PICK w \in S : least = from(w)
  BY <1>3
<1>5. ASSUME NEW v \in S, ~(v <= w) PROVE FALSE
  <2>1. from(v) \subseteq from(w) /\ w \in from(w) /\ w \notin from(v)
    BY <1>1, <1>5
  <2>2. from(v) \in tails /\ from(v) \in SUBSET S /\ from(w) \in SUBSET S
    OBVIOUS
  <2> HIDE DEF from, tails
  <2>3. <<from(v), from(w)>> \in StrictSubsetOrdering(S)
    BY <2>1, <2>2 DEF StrictSubsetOrdering
  <2> QED
    BY <1>3, <1>4, <2>2, <2>3
<1> QED
  BY <1>5

\* No worker joins, and targetConnections stays.
LEMMA NoneJoins ==
    ASSUME Inv, StayingWithinTarget, UNCHANGED target, Staying' \subseteq Staying
    PROVE  StayingWithinTarget'
<1>1. Staying \in SUBSET Slots /\ Staying' \in SUBSET Staying
  BY DEF Staying, Present
<1>2. IsFiniteSet(Staying) /\ Cardinality(Staying) \in Nat
  BY <1>1, SlotsFinite
<1>3. Cardinality(Staying') \in Nat /\ Cardinality(Staying') <= Cardinality(Staying)
  BY <1>1, <1>2, FS_Subset, FS_CardinalityType
<1>4. target \in Nat
  BY DEF Inv, TypeOK, Slots
<1> HIDE DEF Staying
<1> QED
  BY <1>2, <1>3, <1>4 DEF StayingWithinTarget

\* reconcileWorkers adds to a pool that is too small, and to no other.
LEMMA ReconcilePool ==
    ASSUME Inv,
           NEW before \in [Slots -> WorkerPcs], NEW flags \in [Slots -> BOOLEAN],
           NEW wanted \in Nat,
           Cardinality({w \in Slots : before[w] # "absent" /\ ~flags[w]}) <= wanted,
           Reconcile(before, flags, wanted), target' = wanted
    PROVE  StayingWithinTarget'
<1> DEFINE present == {w \in Slots : before[w] # "absent"}
<1>1. PICK result \in SUBSET Slots :
        /\ present \subseteq result
        /\ Cardinality(result) = IF Cardinality(present) >= wanted
                                 THEN Cardinality(present) ELSE wanted
        /\ Start(result \ present, before, flags)
  BY DEF Reconcile, Reconciled
<1>2. /\ IsFiniteSet(result) /\ Cardinality(result) \in Nat
      /\ IsFiniteSet(present) /\ Cardinality(present) \in Nat
  BY SlotsFinite
<1>3. Staying' \subseteq result
  BY <1>1 DEF Start, Staying, Present
<1>4. Cardinality(Staying') \in Nat /\ Cardinality(Staying') <= Cardinality(result)
  BY <1>2, <1>3, FS_Subset, FS_CardinalityType
<1>5. CASE Cardinality(present) >= wanted
  <2>1. result = present
    BY <1>1, <1>2, <1>5, FS_Subset
  <2>2. Staying' = {w \in Slots : before[w] # "absent" /\ ~flags[w]}
    BY <1>1, <2>1 DEF Start, Staying, Present
  <2> QED
    BY <2>2 DEF StayingWithinTarget
<1>6. CASE ~(Cardinality(present) >= wanted)
  BY <1>1, <1>4, <1>6 DEF StayingWithinTarget
<1> QED
  BY <1>5, <1>6

LEMMA ShrinkPool ==
    ASSUME Inv, StayingWithinTarget, Shrink
    PROVE  StayingWithinTarget'
<1>1. Staying \in SUBSET Slots /\ IsFiniteSet(Staying) /\ Cardinality(Staying) \in Nat
  <2>1. Staying \in SUBSET Slots
    BY DEF Staying, Present
  <2> QED
    BY <2>1, SlotsFinite
<1>2. /\ target \in Nat /\ target > 1 /\ target' = target - 1
      /\ Cardinality(Staying) <= target
  BY DEF Inv, TypeOK, Slots, Shrink, StayingWithinTarget
<1>3. Staying' \subseteq {w \in Staying : ~(\A v \in Staying : v <= w)}
  BY DEF Shrink, Staying, Present, Inv, TypeOK
<1> HIDE DEF Staying
<1>4. CASE Staying = {}
  <2>1. Staying' = {}
    BY <1>3, <1>4
  <2> QED
    BY <1>2, <2>1, FS_EmptySet DEF StayingWithinTarget
<1>5. CASE Staying # {}
  <2>4. PICK w \in Staying : \A v \in Staying : v <= w
    BY <1>1, <1>5, GreatestMember
  <2>5. Staying' \in SUBSET (Staying \ {w})
    BY <1>3, <2>4
  <2>6. IsFiniteSet(Staying \ {w}) /\ Cardinality(Staying \ {w}) = Cardinality(Staying) - 1
    BY <1>1, FS_RemoveElement
  <2>7. Cardinality(Staying') \in Nat /\ Cardinality(Staying') <= Cardinality(Staying) - 1
    BY <2>5, <2>6, FS_Subset, FS_CardinalityType
  <2> QED
    BY <1>1, <1>2, <2>7 DEF StayingWithinTarget
<1> QED
  BY <1>4, <1>5

LEMMA WithinTargetStep ==
    ASSUME Inv, StayingWithinTarget, [Next]_vars
    PROVE  StayingWithinTarget'
<1>1. CASE \E w \in Slots : Worker(w)
  <2>1. PICK w \in Slots : Worker(w)
    BY <1>1
  <2>2. UNCHANGED <<stopping, target>>
    BY <2>1 DEF Worker, ReadSources, Claim, NothingAllowed, DownloadError, RecordFailure,
                Abort, Wake, Complete, mainVars
  <2>3. pc[w] # "absent" /\ \A v \in Slots : v # w => pc'[v] = pc[v]
    BY <2>1 DEF Worker, ReadSources, Claim, NothingAllowed, DownloadError, RecordFailure,
                Abort, Wake, Complete, Inv, TypeOK
  <2>4. Staying' \subseteq Staying
    BY <2>2, <2>3 DEF Staying, Present
  <2> QED
    BY <2>2, <2>4, NoneJoins
<1>2. CASE \E w \in Slots : Reap(w)
  <2>1. PICK w \in Slots : Reap(w)
    BY <1>2
  <2> DEFINE before == [pc EXCEPT ![w] = "absent"]
             flags  == [stopping EXCEPT ![w] = FALSE]
             left   == {v \in Slots : before[v] # "absent" /\ ~flags[v]}
  <2>2. before \in [Slots -> WorkerPcs] /\ flags \in [Slots -> BOOLEAN]
    BY DEF Inv, TypeOK, WorkerPcs
  <2>3. target \in Nat /\ target' = target
    BY <2>1 DEF Inv, TypeOK, Slots, Reap, mainVars
  <2>4. Cardinality(left) <= target
    <3>1. left \in SUBSET Staying /\ Staying \in SUBSET Slots
      BY DEF Staying, Present, Inv, TypeOK
    <3>2. IsFiniteSet(Staying) /\ Cardinality(Staying) \in Nat
      BY <3>1, SlotsFinite
    <3>3. Cardinality(left) \in Nat /\ Cardinality(left) <= Cardinality(Staying)
      BY <3>1, <3>2, FS_Subset, FS_CardinalityType
    <3> HIDE DEF left
    <3> QED
      BY <2>3, <3>2, <3>3 DEF StayingWithinTarget
  <2>5. Reconcile(before, flags, target)
    BY <2>1 DEF Reap
  <2> HIDE DEF before, flags
  <2> QED
    BY <2>2, <2>3, <2>4, <2>5, ReconcilePool
<1>3. CASE Grow
  <2>1. pc \in [Slots -> WorkerPcs] /\ stopping \in [Slots -> BOOLEAN]
    BY DEF Inv, TypeOK
  <2>2. target + 1 \in Nat /\ target' = target + 1 /\ Reconcile(pc, stopping, target + 1)
    BY <1>3 DEF Inv, TypeOK, Slots, Grow
  <2>3. Staying = {w \in Slots : pc[w] # "absent" /\ ~stopping[w]}
    BY DEF Staying, Present
  <2>4. Cardinality(Staying) \in Nat /\ Cardinality(Staying) <= target /\ target \in Nat
    BY <2>3, SlotsFinite DEF StayingWithinTarget, Inv, TypeOK, Slots
  <2>5. Cardinality({w \in Slots : pc[w] # "absent" /\ ~stopping[w]}) <= target + 1
    BY <2>3, <2>4
  <2> QED
    BY <2>1, <2>2, <2>5, ReconcilePool
<1>4. CASE Shrink
  BY <1>4, ShrinkPool
<1>5. CASE CancelAll
  <2>1. Staying' \subseteq Staying /\ UNCHANGED target
    BY <1>5 DEF CancelAll, Staying, Present
  <2> QED
    BY <2>1, NoneJoins
<1>6. CASE \/ Retain \/ RejectReload \/ (\E sources \in SourceLists : Reload(sources))
           \/ Tick \/ UNCHANGED vars
  <2>1. UNCHANGED <<pc, stopping, target>>
    BY <1>6 DEF Retain, RejectReload, Reload, Tick, vars, mainVars, workerVars
  <2>2. Staying' \subseteq Staying
    BY <2>1 DEF Staying, Present
  <2> QED
    BY <2>1, <2>2, NoneJoins
<1> QED
  BY <1>1, <1>2, <1>3, <1>4, <1>5, <1>6 DEF Next, Main

LEMMA WithinTargetInit == Init => StayingWithinTarget
<1> SUFFICES ASSUME Init PROVE StayingWithinTarget
  OBVIOUS
<1>1. target \in Nat \ {0} /\ target <= MaxConnections /\ MaxConnections \in Nat
  BY DiscarderAssumption DEF Init, Slots
<1>2. Staying = 1..target
  BY <1>1 DEF Init, Staying, Present, Slots
<1>3. Cardinality(1..target) = target
  BY <1>1, FS_Interval
<1> QED
  BY <1>1, <1>2, <1>3 DEF StayingWithinTarget

\* Resizes, reloads and exits in any order never leave more workers downloading on than
\* targetConnections allows, however many there may be.
THEOREM PoolWithinTarget == Spec => []StayingWithinTarget
  BY WithinTargetInit, WithinTargetStep, Invariance, PTL DEF Spec

-----------------------------------------------------------------------------
(* What the calls of the breaker do to the time and the state of a record. *)

\* The level of a source is positive only out of health.
LEMMA RecordFields ==
    ASSUME NEW st \in Records
    PROVE  /\ st.failures \in 0..Strikes /\ st.level \in 0..MaxLevel /\ st.wait \in Nat
           /\ st.probe \in BOOLEAN
           /\ st.level > 0 => st.failures > 0
  BY DEF Records, WellFormed, SourceState, NoState

LEMMA WaitKept ==
    ASSUME NEW st \in Records
    PROVE  /\ Claimed(st).wait = st.wait /\ Released(st).wait = st.wait
           /\ Elapsed(st).wait <= st.wait /\ NoState.wait <= st.wait
           /\ st.level > 0 /\ st.failures = Strikes => DownloadFailed(st).wait = st.wait
<1>1. st \in SourceState
  BY DEF Records
<1>2. Claimed(st).wait = st.wait /\ Released(st).wait = st.wait
  BY <1>1 DEF Claimed, Released, SourceState
<1>3. Elapsed(st).wait <= st.wait /\ NoState.wait <= st.wait
  BY <1>1 DEF Elapsed, NoState, SourceState
<1>4. ASSUME st.level > 0, st.failures = Strikes PROVE DownloadFailed(st).wait = st.wait
  <2>1. DownloadFailed(st) = [st EXCEPT !.failures = Strikes]
    BY <1>1, <1>4 DEF DownloadFailed, Saturated, SourceState
  <2> QED
    BY <1>1, <2>1 DEF SourceState
<1> QED
  BY <1>2, <1>3, <1>4

LEMMA OnlyProbesExtendStep ==
    ASSUME Inv, [Next]_vars PROVE OnlyProbesExtend
<1> SUFFICES ASSUME NEW url \in URLs, states[url].level > 0, states[url].failures = Strikes,
                    states'[url].wait > states[url].wait
             PROVE  \E w \in Slots : /\ pc[w] = "failing" /\ pc'[w] = "top"
                                     /\ job[w].url = url /\ job[w].probe
  BY DEF OnlyProbesExtend
<1> DEFINE st == states[url]
<1>1. st \in Records /\ st.wait \in Nat
  BY StateIsRecord, RecordFields
<1>2. states'[url] \notin {st, Claimed(st), Released(st), Elapsed(st), NoState, DownloadFailed(st)}
  <2>1. /\ Claimed(st).wait <= st.wait /\ Released(st).wait <= st.wait
        /\ Elapsed(st).wait <= st.wait /\ NoState.wait <= st.wait
        /\ DownloadFailed(st).wait <= st.wait
    BY <1>1, WaitKept
  <2>2. ~(states'[url].wait <= st.wait) /\ st.wait <= st.wait
    <3>1. states'[url].wait \in Nat
      BY NextInv DEF Inv, TypeOK, SourceState
    <3> QED
      BY <1>1, <3>1
  <2> HIDE DEF st
  <2> QED
    BY <2>1, <2>2, Zenon
<1>3. CASE \E w \in Slots : RecordFailure(w)
  <2>1. PICK w \in Slots : RecordFailure(w)
    BY <1>3
  <2>2. states' = [states EXCEPT ![job[w].url] = Failed(@, job[w].probe)]
    BY <1>2, <2>1 DEF RecordFailure
  <2>3. job[w].url = url /\ states'[url] = Failed(st, job[w].probe)
    BY <1>2, <2>2 DEF Inv, TypeOK, Jobs
  <2>4. job[w].probe
    BY <1>2, <2>3 DEF Failed
  <2> QED
    BY <2>1, <2>3, <2>4 DEF RecordFailure, Inv, TypeOK
<1>4. CASE \E w \in Slots : Claim(w)
  <2>1. PICK w \in Slots : Claim(w)
    BY <1>4
  <2>2. states'[url] \in {st, Claimed(st)}
    BY <2>1 DEF Claim, Inv, TypeOK
  <2> QED
    BY <1>2, <2>2
<1>5. CASE \E w \in Slots : Abort(w) \/ \E bytes \in {0, 1} : Complete(w, bytes)
  <2>1. PICK w \in Slots : Abort(w) \/ \E bytes \in {0, 1} : Complete(w, bytes)
    BY <1>5
  <2>2. states'[url] \in {st, Released(st), NoState}
    BY <2>1 DEF Abort, Complete, Inv, TypeOK
  <2> QED
    BY <1>2, <2>2
<1>6. CASE Tick
  BY <1>2, <1>6 DEF Tick
<1>7. CASE Retain
  <2>1. states'[url] \in {st, NoState}
    BY <1>7 DEF Retain
  <2> QED
    BY <1>2, <2>1
<1>8. CASE UNCHANGED states
  BY <1>2, <1>8
<1>9. Next => \/ (\E w \in Slots : \/ RecordFailure(w) \/ Claim(w) \/ Abort(w)
                                   \/ \E bytes \in {0, 1} : Complete(w, bytes))
              \/ Tick \/ Retain \/ UNCHANGED states
  BY DEF Next, Main, Worker, ReadSources, NothingAllowed, DownloadError, Wake, CancelAll, Reap,
         Grow, Shrink, RejectReload, Reload, healthVars
<1> QED
  BY <1>3, <1>4, <1>5, <1>6, <1>7, <1>8, <1>9 DEF vars, healthVars

\* The downloads that were in flight when their source was quarantined, however many there
\* are and however late they fail, do not extend the quarantine.
THEOREM QuarantineKeepsTime == Spec => QuarantineNotExtended
<1>1. Inv /\ [Next]_vars => [OnlyProbesExtend]_vars
  BY OnlyProbesExtendStep
<1> QED
  BY <1>1, Invariance, PTL DEF Spec, QuarantineNotExtended

-----------------------------------------------------------------------------
(* The breaker of the helper implements the abstract one.                  *)

\* A record as the abstract breaker sees it.
Seen(st) == [mode |-> Status(st), level |-> st.level]

phases == [url \in URLs |-> BreakerPhase(url)]

LEMMA StatusOf ==
    ASSUME NEW st \in Records
    PROVE  /\ st.failures = 0 => Status(st) = "healthy" /\ st.level = 0 /\ st = NoState
           /\ st.probe => Status(st) = "probing" /\ st.level > 0
           /\ st.failures > 0 /\ ~st.probe /\ st.level > 0 => Status(st) = "quarantined"
           /\ st.failures > 0 /\ ~st.probe /\ st.level = 0 => Status(st) = "degraded"
<1>1. /\ st.failures \in 0..Strikes /\ st.level \in 0..MaxLevel /\ st.probe \in BOOLEAN
      /\ st.level > 0 => st.failures > 0
  BY RecordFields
<1>2. (st.probe => st.level > 0) /\ (st.failures = 0 => st = NoState)
  BY DEF Records, WellFormed
<1>3. st.failures = 0 => st.level = 0 /\ ~st.probe
  BY <1>2 DEF NoState
<1> QED
  BY <1>1, <1>2, <1>3 DEF Status

LEMMA NoStateSeen == Seen(NoState) = Breaker!Healthy
  BY DEF Seen, Status, NoState, Breaker!Healthy, Breaker!Phase

\* A listed source whose record is replaced: the other sources keep their state.
LEMMA Becomes ==
    ASSUME Inv, NEW url \in URLs, NEW new, activeEpoch[url] # 0, UNCHANGED activeEpoch,
           states' = [states EXCEPT ![url] = new]
    PROVE  phases' = [phases EXCEPT ![url] = Seen(new)]
<1>1. \A other \in URLs : BreakerPhase(other)' = IF other = url THEN Seen(new)
                                                 ELSE BreakerPhase(other)
  BY DEF BreakerPhase, Seen, Inv, TypeOK
<1> QED
  BY <1>1 DEF phases

LEMMA ListedPhase ==
    ASSUME NEW url \in URLs, activeEpoch[url] # 0
    PROVE  phases[url] = Seen(states[url])
  BY DEF phases, BreakerPhase, Seen

\* Claiming starts a probe of a quarantined source and nothing else.
LEMMA ClaimedSeen ==
    ASSUME NEW st \in Records, Allowed(st)
    PROVE  \/ Seen(Claimed(st)) = Seen(st)
           \/ /\ Seen(st).mode = "quarantined"
              /\ Seen(Claimed(st)) = [mode |-> "probing", level |-> Seen(st).level]
<1>1. CASE ~ClaimsProbe(st)
  BY <1>1 DEF Claimed
<1>2. CASE ClaimsProbe(st)
  <2>1. ~st.probe /\ st.level > 0 /\ st.failures > 0
    BY <1>2, RecordFields DEF ClaimsProbe, Allowed
  <2>2. Claimed(st) \in Records /\ Claimed(st).probe /\ Claimed(st).level = st.level
    <3>1. Claimed(st) = [st EXCEPT !.probe = TRUE] /\ st \in SourceState
      BY <1>2 DEF Claimed, Records
    <3>2. Claimed(st).probe /\ Claimed(st).level = st.level
      BY <3>1 DEF SourceState
    <3> QED
      BY <3>2, ClaimedRecord
  <2>3. Status(st) = "quarantined" /\ Status(Claimed(st)) = "probing"
    BY <2>1, <2>2, StatusOf
  <2> QED
    BY <2>2, <2>3 DEF Seen
<1> QED
  BY <1>1, <1>2

\* Releasing ends a probe at the level it had.
LEMMA ReleasedSeen ==
    ASSUME NEW st \in Records
    PROVE  \/ Seen(Released(st)) = Seen(st)
           \/ /\ Seen(st).mode = "probing"
              /\ Seen(Released(st)) = [mode |-> "quarantined", level |-> Seen(st).level]
<1>1. st \in SourceState
  BY DEF Records
<1>2. Released(st).failures = st.failures /\ Released(st).level = st.level
      /\ ~Released(st).probe /\ Released(st) \in Records
  BY <1>1, ReleasedRecord DEF Released, SourceState
<1>3. CASE st.probe
  <2>1. Status(st) = "probing" /\ st.level > 0 /\ st.failures > 0
    BY <1>3, StatusOf, RecordFields
  <2>2. Status(Released(st)) = "quarantined"
    BY <1>2, <2>1, StatusOf
  <2> QED
    BY <1>2, <2>1, <2>2 DEF Seen
<1>4. CASE ~st.probe
  <2>1. Released(st) = st
    BY <1>1, <1>4 DEF Released, SourceState
  <2> QED
    BY <2>1
<1> QED
  BY <1>3, <1>4

\* The failure of a probe goes one level up.
LEMMA ProbeFailedSeen ==
    ASSUME NEW st \in Records
    PROVE  Seen(ProbeFailed(st)) = [mode |-> "quarantined",
                                    level |-> Breaker!Above(Seen(st).level)]
<1>1. st.level \in 0..MaxLevel /\ st.failures \in 0..Strikes
  BY RecordFields
<1>2. ProbeFailed(st).level = Breaker!Above(st.level)
  BY <1>1 DEF ProbeFailed, Saturated, Breaker!Above
<1>3. ProbeFailed(st).failures > 0 /\ ProbeFailed(st).level > 0
  BY <1>1 DEF ProbeFailed, Saturated
<1>4. Status(ProbeFailed(st)) = "quarantined"
  BY <1>3, ProbeFailedRecord, StatusOf
<1> QED
  BY <1>2, <1>4 DEF Seen

\* The failure of an ordinary download is a strike, or does not show.
LEMMA DownloadFailedSeen ==
    ASSUME NEW st \in Records
    PROVE  \/ Seen(DownloadFailed(st)) = Seen(st)
           \/ /\ Seen(st) = Breaker!Healthy
              /\ Seen(DownloadFailed(st)) = [mode |-> "degraded", level |-> 0]
           \/ /\ Seen(st).mode = "degraded"
              /\ Seen(DownloadFailed(st)) = [mode |-> "quarantined", level |-> 1]
<1> DEFINE new == DownloadFailed(st)
<1>1. st \in SourceState /\ st.failures \in 0..Strikes /\ st.level \in 0..MaxLevel
  BY RecordFields DEF Records
<1>2. new \in Records /\ new.probe = st.probe
  BY DownloadFailedRecord
<1>3. new.failures = Saturated(st.failures, Strikes)
  BY <1>1 DEF DownloadFailed, SourceState
<1>4. \/ new.level = st.level
      \/ new.level = 1 /\ st.level = 0 /\ new.failures = Strikes
  BY <1>1 DEF DownloadFailed, SourceState, Saturated
<1>5. new.failures > 0 /\ (new.failures = Strikes => st.failures > 1)
  BY <1>1, <1>3 DEF Saturated
<1> HIDE DEF new
<1>6. CASE st.probe
  <2>1. Status(new) = "probing" /\ Status(st) = "probing" /\ st.level > 0
    BY <1>2, <1>6, StatusOf
  <2> QED
    BY <1>4, <2>1 DEF Seen, new
<1>7. CASE ~st.probe /\ st.level > 0
  <2>1. new.level = st.level /\ st.failures > 0
    BY <1>1, <1>4, <1>7, RecordFields
  <2>2. Status(new) = "quarantined" /\ Status(st) = "quarantined"
    BY <1>2, <1>5, <1>7, <2>1, StatusOf
  <2> QED
    BY <2>1, <2>2 DEF Seen, new
<1>8. CASE ~st.probe /\ st.level = 0
  <2>1. CASE new.level = 0
    <3>1. Status(new) = "degraded"
      BY <1>2, <1>5, <1>8, <2>1, StatusOf
    <3>2. Status(st) = IF st.failures = 0 THEN "healthy" ELSE "degraded"
      BY <1>1, <1>8, StatusOf
    <3> QED
      BY <1>8, <2>1, <3>1, <3>2 DEF Seen, new, Breaker!Healthy, Breaker!Phase
  <2>2. CASE new.level = 1
    <3>1. st.failures > 0
      BY <1>1, <1>4, <1>5, <1>8, <2>2
    <3>2. Status(new) = "quarantined" /\ Status(st) = "degraded"
      BY <1>2, <1>5, <1>8, <2>2, <3>1, StatusOf
    <3> QED
      BY <2>2, <3>2 DEF Seen, new
  <2> QED
    BY <1>4, <1>8, <2>1, <2>2
<1> QED
  BY <1>1, <1>6, <1>7, <1>8

LEMMA PhasesKept == ASSUME UNCHANGED <<states, activeEpoch>> PROVE phases' = phases
  BY DEF phases, BreakerPhase

\* One listed source changes as the abstract breaker allows, or not to be seen.
LEMMA BreakerMoves ==
    ASSUME Inv, NEW url \in URLs, NEW new, activeEpoch[url] # 0, UNCHANGED activeEpoch,
           states' = [states EXCEPT ![url] = new],
           \/ Seen(new) = Seen(states[url])
           \/ /\ Seen(states[url]).mode = "quarantined"
              /\ Seen(new) = [mode |-> "probing", level |-> Seen(states[url]).level]
           \/ /\ Seen(states[url]).mode = "probing"
              /\ Seen(new) = [mode |-> "quarantined", level |-> Seen(states[url]).level]
           \/ Seen(new) = [mode |-> "quarantined",
                           level |-> Breaker!Above(Seen(states[url]).level)]
           \/ /\ Seen(states[url]) = Breaker!Healthy
              /\ Seen(new) = [mode |-> "degraded", level |-> 0]
           \/ /\ Seen(states[url]).mode = "degraded"
              /\ Seen(new) = [mode |-> "quarantined", level |-> 1]
           \/ Seen(new) = Breaker!Healthy
    PROVE  Breaker!Next \/ phases' = phases
<1> DEFINE old == Seen(states[url])
<1>1. phases' = [phases EXCEPT ![url] = Seen(new)] /\ phases[url] = old
  BY Becomes, ListedPhase
<1>2. old.mode \in {"healthy", "degraded", "quarantined", "probing"}
  BY StateIsRecord, StatusOf, RecordFields DEF Seen
<1> USE DEF phases, Breaker!Become, Breaker!Phase
<1>3. CASE Seen(new) = old
  <2>1. phases' = phases
    BY <1>1, <1>3
  <2> QED
    BY <2>1
<1> HIDE DEF old
<1>4. CASE old.mode = "quarantined" /\ Seen(new) = [mode |-> "probing", level |-> old.level]
  <2>1. Breaker!Probe(url)
    BY <1>1, <1>4 DEF Breaker!Probe
  <2> QED
    BY <2>1 DEF Breaker!Next
<1>5. CASE old.mode = "probing" /\ Seen(new) = [mode |-> "quarantined", level |-> old.level]
  <2>1. Breaker!ProbeAborts(url)
    BY <1>1, <1>5 DEF Breaker!ProbeAborts
  <2> QED
    BY <2>1 DEF Breaker!Next
<1>6. CASE Seen(new) = [mode |-> "quarantined", level |-> Breaker!Above(old.level)]
  <2>1. Breaker!ProbeFails(url) \/ Breaker!OvertakenProbeFails(url)
    BY <1>1, <1>2, <1>6 DEF Breaker!ProbeFails, Breaker!OvertakenProbeFails
  <2> QED
    BY <2>1 DEF Breaker!Next
<1>7. CASE \/ old = Breaker!Healthy /\ Seen(new) = [mode |-> "degraded", level |-> 0]
           \/ old.mode = "degraded" /\ Seen(new) = [mode |-> "quarantined", level |-> 1]
  <2>1. Breaker!Strike(url)
    BY <1>1, <1>7 DEF Breaker!Strike
  <2> QED
    BY <2>1 DEF Breaker!Next
<1>8. CASE Seen(new) = Breaker!Healthy
  <2>1. Breaker!Recover(url)
    BY <1>1, <1>2, <1>8 DEF Breaker!Recover
  <2> QED
    BY <2>1 DEF Breaker!Next
<1> QED
  BY <1>3, <1>4, <1>5, <1>6, <1>7, <1>8 DEF old

LEMMA WorkerMoves ==
    ASSUME Inv, NEW w \in Slots, Worker(w)
    PROVE  Breaker!Next \/ phases' = phases
<1> DEFINE url == job[w].url
           st  == states[url]
<1>1. /\ url \in URLs /\ job[w].probe \in BOOLEAN /\ st \in Records
      /\ Current(w) => activeEpoch[url] # 0
  BY StateIsRecord DEF Inv, TypeOK, Jobs, Current
<1>2. CASE UNCHANGED <<states, activeEpoch>>
  BY <1>2, PhasesKept
<1>3. CASE Claim(w)
  <2> DEFINE next == Candidate(w)
  <2>1. CASE activeEpoch[next] # 0 /\ Allowed(states[next])
    <3>1. next \in URLs /\ states[next] \in Records
      BY <1>3, CandidateType, StateIsRecord DEF Claim
    <3>2. states' = [states EXCEPT ![next] = Claimed(states[next])] /\ UNCHANGED activeEpoch
      BY <1>3, <2>1 DEF Claim
    <3> HIDE DEF next
    <3> QED
      BY <2>1, <3>1, <3>2, ClaimedSeen, BreakerMoves
  <2>2. CASE ~(activeEpoch[next] # 0 /\ Allowed(states[next]))
    BY <1>3, <2>2, PhasesKept DEF Claim
  <2> QED
    BY <2>1, <2>2
<1>4. CASE RecordFailure(w) /\ Current(w)
  <2>1. states' = [states EXCEPT ![url] = Failed(st, job[w].probe)] /\ UNCHANGED activeEpoch
    BY <1>1, <1>4 DEF RecordFailure, Inv, TypeOK
  <2> HIDE DEF url
  <2>2. CASE job[w].probe
    BY <1>1, <1>4, <2>1, <2>2, ProbeFailedSeen, BreakerMoves DEF Failed
  <2>3. CASE ~job[w].probe
    BY <1>1, <1>4, <2>1, <2>3, DownloadFailedSeen, BreakerMoves DEF Failed
  <2> QED
    BY <1>1, <2>2, <2>3
<1>5. CASE Abort(w) /\ job[w].probe /\ Current(w)
  <2>1. states' = [states EXCEPT ![url] = Released(st)] /\ UNCHANGED activeEpoch
    BY <1>1, <1>5 DEF Abort, Inv, TypeOK
  <2> HIDE DEF url
  <2> QED
    BY <1>1, <1>5, <2>1, ReleasedSeen, BreakerMoves
<1>6. CASE (\E bytes \in {0, 1} : Complete(w, bytes)) /\ Current(w)
  <2>1. states' = [states EXCEPT ![url] = NoState] /\ UNCHANGED activeEpoch
    BY <1>6 DEF Complete
  <2> HIDE DEF url
  <2> QED
    BY <1>1, <1>6, <2>1, NoStateSeen, BreakerMoves
<1>7. \/ UNCHANGED <<states, activeEpoch>> \/ Claim(w)
      \/ RecordFailure(w) /\ Current(w)
      \/ Abort(w) /\ job[w].probe /\ Current(w)
      \/ (\E bytes \in {0, 1} : Complete(w, bytes)) /\ Current(w)
  BY DEF Worker, ReadSources, NothingAllowed, DownloadError, RecordFailure, Abort, Wake,
         Complete, healthVars
<1> QED
  BY <1>2, <1>3, <1>4, <1>5, <1>6, <1>7

\* retain forgets the sources that leave the list and begins anew with those that join it.
LEMMA RetainMoves ==
    ASSUME Inv, Retain
    PROVE  Breaker!Next
<1> DEFINE keep == Listed(config)
           new  == {url \in keep : activeEpoch[url] = 0}
<1>1. keep \in SUBSET URLs /\ new \in SUBSET URLs /\ nextEpoch \in Nat
  BY ListType DEF Inv, TypeOK
<1>2. PICK f \in Numbering(new, nextEpoch) :
        activeEpoch' = [url \in URLs |-> IF url \in new THEN f[url]
                                         ELSE IF url \in keep
                                              THEN activeEpoch[url] ELSE 0]
  BY DEF Retain
<1>3. \A url \in new : f[url] # 0
  BY <1>1, NumberingType
<1>4. states' = [url \in URLs |-> IF url \in keep THEN states[url] ELSE NoState]
  BY DEF Retain
<1> HIDE DEF keep
<1>5. ASSUME NEW url \in URLs
      PROVE  BreakerPhase(url)' = IF url \notin keep THEN Breaker!Absent
                                  ELSE IF phases[url] = Breaker!Absent THEN Breaker!Healthy
                                  ELSE phases[url]
  <2>1. CASE url \notin keep
    BY <1>1, <1>2, <2>1 DEF BreakerPhase, Breaker!Absent, Breaker!Phase
  <2>2. CASE url \in keep /\ activeEpoch[url] = 0
    <3>1. activeEpoch'[url] # 0 /\ states'[url] = NoState
      BY <1>2, <1>3, <1>4, <2>2 DEF Inv, NoRecordOutsideList
    <3>2. BreakerPhase(url)' = Seen(NoState)
      BY <3>1 DEF BreakerPhase, Seen
    <3>3. phases[url] = Breaker!Absent
      BY <2>2 DEF phases, BreakerPhase, Breaker!Absent, Breaker!Phase
    <3> QED
      BY <2>2, <3>2, <3>3, NoStateSeen
  <2>3. CASE url \in keep /\ activeEpoch[url] # 0
    <3>1. activeEpoch'[url] = activeEpoch[url] /\ states'[url] = states[url]
      BY <1>2, <1>4, <2>3
    <3>2. BreakerPhase(url)' = Seen(states[url])
      BY <2>3, <3>1 DEF BreakerPhase, Seen
    <3>3. Seen(states[url]).mode # "absent"
      BY StateIsRecord, StatusOf, RecordFields DEF Seen
    <3>4. phases[url] = Seen(states[url]) /\ phases[url] # Breaker!Absent
      BY <2>3, <3>3, ListedPhase DEF Breaker!Absent, Breaker!Phase
    <3> QED
      BY <2>3, <3>2, <3>4
  <2> QED
    BY <2>1, <2>2, <2>3
<1>6. Breaker!Relist(keep)
  BY <1>5 DEF Breaker!Relist, phases
<1> QED
  BY <1>1, <1>6 DEF Breaker!Next

LEMMA BreakerStep ==
    ASSUME Inv, [Next]_vars
    PROVE  Breaker!Next \/ phases' = phases
<1>1. CASE \E w \in Slots : Worker(w)
  BY <1>1, WorkerMoves
<1>2. CASE Retain
  BY <1>2, RetainMoves
<1>3. CASE Tick
  <2>1. \A url \in URLs : Seen(states'[url]) = Seen(states[url])
    <3> SUFFICES ASSUME NEW url \in URLs PROVE Seen(states'[url]) = Seen(states[url])
      OBVIOUS
    <3>1. states[url] \in SourceState /\ states'[url] = Elapsed(states[url])
      BY <1>3 DEF Tick, Inv, TypeOK
    <3>2. /\ Elapsed(states[url]).failures = states[url].failures
          /\ Elapsed(states[url]).level = states[url].level
      BY <3>1 DEF Elapsed, SourceState
    <3>3. Elapsed(states[url]).probe = states[url].probe
      BY <3>1, Zenon DEF Elapsed, SourceState
    <3> QED
      BY <3>1, <3>2, <3>3 DEF Seen, Status
  <2>2. \A url \in URLs : BreakerPhase(url)' = BreakerPhase(url)
    BY <1>3, <2>1 DEF Tick, BreakerPhase, Seen
  <2> QED
    BY <2>2 DEF phases
<1>4. CASE UNCHANGED <<states, activeEpoch>>
  BY <1>4, PhasesKept
<1>5. Next => \/ (\E w \in Slots : Worker(w)) \/ Retain \/ Tick
              \/ UNCHANGED <<states, activeEpoch>>
  BY DEF Next, Main, CancelAll, Reap, Grow, Shrink, RejectReload, Reload, healthVars
<1> QED
  BY <1>1, <1>2, <1>3, <1>4, <1>5 DEF vars, healthVars

LEMMA BreakerInit == ASSUME Init PROVE Breaker!Init
<1>1. Listed(sourceSet) \in SUBSET URLs
  BY ListType DEF Init
<1>2. PICK f \in Numbering(Listed(sourceSet), 0) :
        activeEpoch = [url \in URLs |-> IF url \in Listed(sourceSet) THEN f[url] ELSE 0]
  BY DEF Init
<1>3. \A url \in Listed(sourceSet) : f[url] # 0
  BY <1>1, NumberingType
<1>4. ASSUME NEW url \in URLs
      PROVE  BreakerPhase(url) = IF url \in Listed(sourceSet) THEN Breaker!Healthy
                                                              ELSE Breaker!Absent
  <2>1. states[url] = NoState
    BY DEF Init
  <2> QED
    BY <1>2, <1>3, <2>1, NoStateSeen
       DEF BreakerPhase, Seen, Breaker!Absent, Breaker!Healthy, Breaker!Phase
<1> QED
  BY <1>1, <1>4 DEF Breaker!Init

\* Whatever the workers, the reloads and the clock do, the record of each source goes
\* through the states of the abstract breaker only: out of quarantine through a probe or by
\* a complete download, and without its history once it has left the list.
THEOREM BreakerImplemented == Spec => BreakerSpec
<1>1. Inv /\ [Next]_vars => [Breaker!Next]_phases
  BY BreakerStep
<1>2. Init => Breaker!Init
  BY BreakerInit
<1> QED
  BY <1>1, <1>2, Invariance, PTL DEF Spec, BreakerSpec, Breaker!Spec, phases

=============================================================================
