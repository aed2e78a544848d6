------------------------- MODULE RunControl_proofs --------------------------
(***************************************************************************)
(* The byte totals of RunControl, for all lines, all numbers of            *)
(* connections and of bytes, any number of faults and operator actions.    *)
(*                                                                         *)
(* The bytes of a line pass from its helper to a record, to total_bytes    *)
(* and to today_bytes.  LineSound says of every place they can be at that  *)
(* what may still be added to today has been read and not been counted.    *)
(***************************************************************************)
EXTENDS RunControl, FiniteSetTheorems, TLAPS

\* The total of a line has been drained, and the tracker has not seen it yet.
Drained(l) == tickPc = "exit" /\ at = l

\* A dead helper has no bytes, and a record tells no more than its helper has read.
HelperSound(l) ==
    /\ ~Alive(l) => bytes[l] = 0
    /\ Alive(l) /\ pipe[l].fresh => pipe[l].bytes <= bytes[l]

\* No place between the helper and total_bytes exceeds what was read.
TotalSound(l) ==
    /\ offset[l] <= total[l] /\ total[l] <= carried[l]
    /\ offset[l] + bytes[l] <= carried[l]
    /\ pipe[l].fresh => offset[l] + pipe[l].bytes <= carried[l]

\* The tracker has seen the total, or the total was just drained from the present
\* helper, whose later records do not fall below it.
SampleSound(l) ==
    /\ ~hasMetrics[l] => total[l] = 0 /\ lastRx[l] = NoSample
    /\ lastRx[l] = NoSample => today[l] = 0
    /\ hasMetrics[l] => \/ lastRx[l] = total[l]
                        \/ /\ Drained(l)
                           /\ Alive(l) => total[l] <= offset[l] + bytes[l]
                           /\ pipe[l].fresh => total[l] <= offset[l] + pipe[l].bytes

\* The growth from the last sample to the total x is covered by bytes not in today.
Fits(l, x) == today[l] + x <= carried[l] + lastRx[l]

\* Nothing that the present helper has read is in today.
NotCounted(l) == /\ today[l] + bytes[l] <= carried[l]
                 /\ pipe[l].fresh => today[l] + pipe[l].bytes <= carried[l]

\* Each total that the tracker may see next fits; one that has fallen since the last
\* sample is the first of its helper.
TodaySound(l) ==
    /\ today[l] <= carried[l]
    /\ lastRx[l] # NoSample =>
         /\ Fits(l, offset[l] + bytes[l])
         /\ offset[l] + bytes[l] < lastRx[l] => today[l] + bytes[l] <= carried[l]
         /\ pipe[l].fresh =>
              /\ Fits(l, offset[l] + pipe[l].bytes)
              /\ offset[l] + pipe[l].bytes < lastRx[l] => NotCounted(l)
         /\ Drained(l) => Fits(l, total[l]) /\ (total[l] < lastRx[l] => NotCounted(l))

LineSound(l) == HelperSound(l) /\ TotalSound(l) /\ SampleSound(l) /\ TodaySound(l)

IInv == TypeOK /\ \A l \in Lines : LineSound(l)

USE DEF NoSample

-----------------------------------------------------------------------------
(* Types.                                                                  *)

LEMMA Constants ==
    /\ Lines \subseteq Nat /\ Counts \subseteq Nat \ {0} /\ Bases \subseteq Counts
    /\ MaxConnections \in Counts /\ 1 \in Lines /\ LineCount \in Lines
    /\ Fresh(1) \in Pools /\ Gone \in Pools /\ NoRecord \in Records
BY RunControlAssumption DEF Lines, Counts, Fresh, Gone, Pools, NoRecord, Records

LEMMA FreshPool == ASSUME NEW n \in Counts PROVE Fresh(n) \in Pools
BY RunControlAssumption DEF Fresh, Pools, Counts

\* The part of TypeOK about the controller, and the part about lines.
ControlType ==
    /\ tickPc \in {"schedule", "drain", "exit", "scale"} /\ at \in Lines
    /\ manual \in BOOLEAN /\ window \in BOOLEAN /\ base \in Bases
    /\ faults \in 0..MaxFaults /\ switches \in 0..MaxSwitches

EngineType ==
    /\ status \in [Lines -> {"stopped", "downloading", "restarting"}]
    /\ waiting \in [Lines -> BOOLEAN]
    /\ connections \in [Lines -> Counts] /\ desired \in [Lines -> Counts]

TotalType ==
    /\ total \in [Lines -> Nat] /\ offset \in [Lines -> Nat]
    /\ hasMetrics \in [Lines -> BOOLEAN]
    /\ lastRx \in [Lines -> Nat \cup {NoSample}]
    /\ today \in [Lines -> Nat] /\ newDay \in [Lines -> BOOLEAN]

HelperType ==
    /\ process \in [Lines -> {"none", "booting", "running", "exited"}]
    /\ pool \in [Lines -> Pools]
    /\ bytes \in [Lines -> Nat] /\ pipe \in [Lines -> Records]
    /\ carried \in [Lines -> Nat]

LEMMA Types == TypeOK <=> ControlType /\ EngineType /\ TotalType /\ HelperType
BY DEF TypeOK, ControlType, EngineType, TotalType, HelperType

LEMMA InitType == Init => TypeOK
<1> SUFFICES ASSUME Init PROVE TypeOK
  OBVIOUS
<1>1. ControlType
  BY Constants, RunControlAssumption DEF Init, ControlType
<1>2. EngineType
  BY Constants DEF Init, EngineType
<1>3. TotalType
  BY DEF Init, TotalType
<1>4. HelperType
  BY Constants DEF Init, HelperType
<1> QED
  BY <1>1, <1>2, <1>3, <1>4, Types

\* A fault that is spent is within the bound.
LEMMA SpendType ==
    ASSUME faults \in 0..MaxFaults, NEW n \in Nat, Spend(n) PROVE faults' \in 0..MaxFaults
BY RunControlAssumption DEF Spend

LEMMA StartType ==
    ASSUME TypeOK, NEW S \in SUBSET Lines, NEW n \in Counts, NEW before \in [Lines -> Nat],
           total' \in [Lines -> Nat], Start(S, n, before)
    PROVE  /\ faults' \in 0..MaxFaults
           /\ status' \in [Lines -> {"stopped", "downloading", "restarting"}]
           /\ waiting' \in [Lines -> BOOLEAN]
           /\ offset' \in [Lines -> Nat]
           /\ process' \in [Lines -> {"none", "booting", "running", "exited"}]
           /\ pool' \in [Lines -> Pools]
           /\ bytes' \in [Lines -> Nat] /\ pipe' \in [Lines -> Records]
<1> PICK failed \in SUBSET S :
        /\ Spend(Cardinality(failed))
        /\ process' = [l \in Lines |-> IF l \in failed THEN "none"
                                       ELSE IF l \in S THEN "booting" ELSE process[l]]
        /\ status' = [l \in Lines |-> IF l \in failed THEN "restarting"
                                      ELSE IF l \in S THEN "downloading" ELSE status[l]]
        /\ waiting' = [l \in Lines |-> IF l \in S THEN l \in failed ELSE waiting[l]]
        /\ offset' = [l \in Lines |-> IF l \in failed THEN total'[l] ELSE before[l]]
        /\ pool' = [l \in Lines |-> IF l \in S THEN Fresh(n) ELSE pool[l]]
        /\ bytes' = [l \in Lines |-> IF l \in S THEN 0 ELSE bytes[l]]
        /\ pipe' = [l \in Lines |-> IF l \in S THEN NoRecord ELSE pipe[l]]
  BY DEF Start
<1>1. Cardinality(failed) \in Nat
  <2>1. IsFiniteSet(Lines)
    BY FS_Interval, RunControlAssumption DEF Lines
  <2> QED
    BY <2>1, FS_Subset, FS_CardinalityType
<1>2. faults' \in 0..MaxFaults
  BY <1>1, SpendType DEF TypeOK
<1>3. process' \in [Lines -> {"none", "booting", "running", "exited"}]
  BY DEF TypeOK
<1>4. status' \in [Lines -> {"stopped", "downloading", "restarting"}]
  BY DEF TypeOK
<1>7. waiting' \in [Lines -> BOOLEAN]
  <2> DEFINE W(l) == IF l \in S THEN l \in failed ELSE waiting[l]
  <2>1. ASSUME NEW l \in Lines PROVE W(l) \in BOOLEAN
    <3>1. waiting[l] \in BOOLEAN
      BY Zenon DEF TypeOK
    <3>2. (l \in failed) \in BOOLEAN
      OBVIOUS
    <3> QED
      BY <3>1, <3>2, Zenon
  <2>2. waiting' = [l \in Lines |-> W(l)]
    BY Zenon
  <2> HIDE DEF W
  <2> QED
    BY <2>1, <2>2, Zenon
<1>5. offset' \in [Lines -> Nat] /\ bytes' \in [Lines -> Nat]
  BY DEF TypeOK
<1>6. pool' \in [Lines -> Pools] /\ pipe' \in [Lines -> Records]
  BY FreshPool, Constants DEF TypeOK
<1> QED
  BY <1>2, <1>3, <1>4, <1>5, <1>6, <1>7

LEMMA StartDownloadsType ==
    ASSUME TypeOK, NEW n \in Counts, NEW before \in [Lines -> Nat],
           total' \in [Lines -> Nat], StartDownloads(n, before)
    PROVE  /\ faults' \in 0..MaxFaults
           /\ status' \in [Lines -> {"stopped", "downloading", "restarting"}]
           /\ waiting' \in [Lines -> BOOLEAN]
           /\ offset' \in [Lines -> Nat]
           /\ process' \in [Lines -> {"none", "booting", "running", "exited"}]
           /\ pool' \in [Lines -> Pools]
           /\ bytes' \in [Lines -> Nat] /\ pipe' \in [Lines -> Records]
<1>1. CASE Start(Lines, n, before)
  BY <1>1, StartType
<1>2. CASE ~Start(Lines, n, before)
  <2>1. /\ Spend(1) /\ offset' = before
        /\ UNCHANGED <<process, status, waiting, pool, bytes, pipe>>
    BY <1>2 DEF StartDownloads
  <2>2. faults' \in 0..MaxFaults
    BY <2>1, SpendType DEF TypeOK
  <2> QED
    BY <2>1, <2>2 DEF TypeOK
<1> QED
  BY <1>1, <1>2

LEMMA StoppedType ==
    ASSUME Stopped
    PROVE  /\ status' \in [Lines -> {"stopped", "downloading", "restarting"}]
           /\ waiting' \in [Lines -> BOOLEAN]
           /\ process' \in [Lines -> {"none", "booting", "running", "exited"}]
           /\ pool' \in [Lines -> Pools]
           /\ bytes' \in [Lines -> Nat] /\ pipe' \in [Lines -> Records]
BY Constants DEF Stopped

LEMMA SetConnectionsType ==
    ASSUME TypeOK, NEW S \in SUBSET Lines, NEW wanted \in [Lines -> Counts],
           SetConnections(S, wanted)
    PROVE  /\ connections' \in [Lines -> Counts]
           /\ process' \in [Lines -> {"none", "booting", "running", "exited"}]
           /\ pool' \in [Lines -> Pools]
           /\ bytes' \in [Lines -> Nat]
<1>1. connections' \in [Lines -> Counts]
  BY DEF TypeOK, SetConnections
<1> PICK heard \in [Lines -> 0..MaxConnections], killed \in SUBSET Lines :
      /\ pool' = [l \in Lines |->
            IF l \in killed THEN Gone
            ELSE IF heard[l] = 0 THEN pool[l]
            ELSE IF wanted[l] > connections[l]
            THEN [pool[l] EXCEPT !.ups = AtMost(@ + heard[l], MaxConnections)]
            ELSE [pool[l] EXCEPT !.downs = AtMost(@ + heard[l], MaxConnections)]]
      /\ process' = [l \in Lines |-> IF l \in killed THEN "exited" ELSE process[l]]
      /\ bytes' = [l \in Lines |-> IF l \in killed THEN 0 ELSE bytes[l]]
  BY DEF SetConnections
<1>2. process' \in [Lines -> {"none", "booting", "running", "exited"}]
  BY DEF TypeOK
<1>3. bytes' \in [Lines -> Nat]
  BY DEF TypeOK
<1>4. ASSUME NEW l \in Lines PROVE pool'[l] \in Pools
  <2>1. pool[l] \in Pools /\ heard[l] \in 0..MaxConnections
    BY DEF TypeOK
  <2>2. ASSUME NEW k \in 0..MaxConnections
        PROVE  AtMost(k + heard[l], MaxConnections) \in 0..MaxConnections
    BY <2>1, RunControlAssumption DEF AtMost
  <2>3. /\ [pool[l] EXCEPT !.ups = AtMost(@ + heard[l], MaxConnections)] \in Pools
        /\ [pool[l] EXCEPT !.downs = AtMost(@ + heard[l], MaxConnections)] \in Pools
    BY <2>1, <2>2 DEF Pools
  <2> QED
    BY <2>1, <2>3, Constants
<1>5. pool' \in [Lines -> Pools]
  <2>1. pool' = [l \in Lines |-> pool'[l]]
    OBVIOUS
  <2> QED
    BY <2>1, <1>4
<1> QED
  BY <1>1, <1>2, <1>3, <1>5

LEMMA NextCountType ==
    ASSUME TypeOK, NEW current \in Counts, NEW rate
    PROVE  NextCount(current, rate) \in Counts
<1>1. base \in Counts /\ MaxConnections \in Nat
  BY Constants, RunControlAssumption DEF TypeOK
<1> QED
  BY <1>1 DEF NextCount, AtMost, AtLeast, Counts

\* A sample leaves the tracker typed.
LEMMA RecordType ==
    ASSUME TypeOK, NEW l \in Lines, Record(l)
    PROVE  /\ lastRx' \in [Lines -> Nat \cup {NoSample}]
           /\ today' \in [Lines -> Nat] /\ newDay' \in [Lines -> BOOLEAN]
<1>1. total[l] \in Nat /\ today[l] \in Nat /\ lastRx[l] \in Nat \cup {NoSample}
  BY DEF TypeOK
<1>2. Delta(l) \in Nat
  BY <1>1 DEF Delta, AtLeast
<1>3. CASE hasMetrics[l]
  <2>1. lastRx' \in [Lines -> Nat \cup {NoSample}]
    BY <1>1, <1>3 DEF Record, TypeOK
  <2>2. today' \in [Lines -> Nat]
    BY <1>1, <1>2, <1>3 DEF Record, TypeOK
  <2>3. newDay' \in [Lines -> BOOLEAN]
    BY <1>3 DEF Record, TypeOK
  <2> QED
    BY <2>1, <2>2, <2>3
<1>4. CASE ~hasMetrics[l]
  BY <1>4 DEF Record, trackerVars, TypeOK
<1> QED
  BY <1>3, <1>4

-----------------------------------------------------------------------------
(* Every step keeps the types.                                             *)

LEMMA CheckScheduleType == TypeOK /\ CheckSchedule => TypeOK'
<1> SUFFICES ASSUME TypeOK, CheckSchedule PROVE TypeOK'
  OBVIOUS
<1>1. /\ total' \in [Lines -> Nat] /\ offset \in [Lines -> Nat] /\ base \in Counts
      /\ hasMetrics' \in [Lines -> BOOLEAN]
  BY Constants DEF TypeOK, CheckSchedule
<1>2. CASE Wanted /\ ~Running
  <2>1. StartDownloads(base, offset)
    BY <1>2 DEF CheckSchedule
  <2> QED
    BY <1>1, <2>1, StartDownloadsType
       DEF CheckSchedule, TypeOK, controlVars, trackerVars
<1>3. CASE ~Wanted /\ Running
  <2>1. Stopped /\ UNCHANGED <<offset, faults>>
    BY <1>3 DEF CheckSchedule, StopAll
  <2> QED
    BY <1>1, <2>1, StoppedType DEF CheckSchedule, TypeOK, controlVars, trackerVars
<1>4. CASE Wanted <=> Running
  <2>1. UNCHANGED <<process, status, waiting, offset, pool, bytes, pipe, faults>>
    BY <1>4 DEF CheckSchedule
  <2> QED
    BY <1>1, <2>1 DEF CheckSchedule, TypeOK, controlVars, trackerVars
<1> QED
  BY <1>2, <1>3, <1>4

LEMMA DrainType == TypeOK /\ Drain => TypeOK'
<1> SUFFICES ASSUME TypeOK, Drain PROVE TypeOK'
  OBVIOUS
<1>1. at \in Lines /\ pipe[at] \in Records /\ TotalReported(at) \in Nat
  BY DEF TypeOK, TotalReported, Records
<1>2. CASE pipe[at].fresh
  <2>1. /\ total' = [total EXCEPT ![at] = TotalReported(at)]
        /\ hasMetrics' = [hasMetrics EXCEPT ![at] = TRUE]
        /\ connections' = [connections EXCEPT ![at] = pipe[at].connections]
    BY <1>2 DEF Drain
  <2>2. total' \in [Lines -> Nat]
    BY <1>1, <2>1 DEF TypeOK
  <2>3. hasMetrics' \in [Lines -> BOOLEAN]
    BY <1>1, <2>1 DEF TypeOK
  <2>4. connections' \in [Lines -> Counts]
    BY <1>1, <2>1 DEF TypeOK, Records
  <2>5. pipe' \in [Lines -> Records]
    BY Constants DEF Drain, TypeOK
  <2> QED
    BY <2>2, <2>3, <2>4, <2>5 DEF Drain, TypeOK, controlVars, trackerVars, bounds
<1>3. CASE ~pipe[at].fresh
  BY <1>1, <1>3, Constants DEF Drain, TypeOK, controlVars, trackerVars, bounds
<1> QED
  BY <1>2, <1>3

LEMMA PollExitType == TypeOK /\ PollExit => TypeOK'
<1> SUFFICES ASSUME TypeOK, PollExit PROVE TypeOK'
  OBVIOUS
<1>1. at \in Lines /\ base \in Counts /\ offset \in [Lines -> Nat] /\ {at} \in SUBSET Lines
  BY Constants DEF TypeOK
<1>2. tickPc' \in {"schedule", "drain", "exit", "scale"} /\ at' \in Lines
  BY <1>1, RunControlAssumption DEF PollExit, Lines
<1>3. /\ total' \in [Lines -> Nat] /\ hasMetrics' \in [Lines -> BOOLEAN]
      /\ UNCHANGED <<controlVars, connections, desired, carried, switches>>
  BY DEF PollExit, TypeOK
<1>4. /\ lastRx' \in [Lines -> Nat \cup {NoSample}]
      /\ today' \in [Lines -> Nat] /\ newDay' \in [Lines -> BOOLEAN]
  BY <1>1, RecordType DEF PollExit
<1>5. CASE ScheduleRestart(at)
  BY <1>1, <1>2, <1>3, <1>4, <1>5, Constants DEF ScheduleRestart, TypeOK, controlVars
<1>6. CASE Start({at}, base, offset)
  BY <1>1, <1>2, <1>3, <1>4, <1>6, StartType DEF TypeOK, controlVars
<1>7. CASE UNCHANGED <<process, status, waiting, offset, pool, bytes, pipe, faults>>
  BY <1>2, <1>3, <1>4, <1>7 DEF TypeOK, controlVars
<1> QED
  BY <1>5, <1>6, <1>7 DEF PollExit

LEMMA ScaleType == TypeOK /\ Scale => TypeOK'
<1> SUFFICES ASSUME TypeOK, Scale PROVE TypeOK'
  OBVIOUS
<1>1. PICK rate \in [Lines -> Rates], judged \in SUBSET Lines :
        LET wanted == [l \in Lines |-> IF l \in judged
                                       THEN NextCount(desired[l], rate[l]) ELSE desired[l]]
        IN  desired' = wanted /\ SetConnections({l \in Lines : wanted[l] # desired[l]}, wanted)
  BY DEF Scale
<1> DEFINE wanted == [l \in Lines |-> IF l \in judged
                                      THEN NextCount(desired[l], rate[l]) ELSE desired[l]]
           changed == {l \in Lines : wanted[l] # desired[l]}
<1>2. wanted \in [Lines -> Counts]
  BY NextCountType DEF TypeOK
<1>3. desired' = wanted /\ SetConnections(changed, wanted)
  BY <1>1
<1>4. changed \in SUBSET Lines
  OBVIOUS
<1> HIDE DEF wanted, changed
<1>5. /\ tickPc' = "schedule"
      /\ UNCHANGED <<at, controlVars, status, waiting, byteVars, pipe, carried, bounds>>
  BY DEF Scale
<1> QED
  BY <1>2, <1>3, <1>4, <1>5, SetConnectionsType
     DEF TypeOK, controlVars, byteVars, totalVars, trackerVars, bounds

LEMMA OperatorType == TypeOK /\ Operator => switches' \in 0..MaxSwitches
BY RunControlAssumption DEF TypeOK, Operator

LEMMA SwitchType ==
    TypeOK /\ (WindowTurns \/ ManualStart \/ ManualStop) => TypeOK'
<1> SUFFICES ASSUME TypeOK, WindowTurns \/ ManualStart \/ ManualStop PROVE TypeOK'
  OBVIOUS
<1>1. switches' \in 0..MaxSwitches /\ base \in Counts /\ offset \in [Lines -> Nat]
  BY OperatorType, Constants DEF TypeOK, WindowTurns, ManualStart, ManualStop
<1>2. CASE WindowTurns
  <2>1. window' \in BOOLEAN
    BY <1>2, Zenon DEF WindowTurns
  <2>2. UNCHANGED <<tickPc, at, manual, base, status, waiting, connections, desired,
                    byteVars, process, pool, outputVars, faults>>
    BY <1>2, Zenon DEF WindowTurns
  <2> QED
    BY <1>1, <2>1, <2>2 DEF TypeOK, byteVars, totalVars, trackerVars, outputVars
<1>3. CASE ManualStop
  BY <1>1, <1>3, StoppedType DEF ManualStop, StopAll, TypeOK, trackerVars
<1>4. CASE ManualStart
  <2>1. total' \in [Lines -> Nat]
    BY <1>4 DEF ManualStart, TypeOK
  <2>2. CASE StartDownloads(base, offset)
    BY <1>1, <1>4, <2>1, <2>2, StartDownloadsType DEF ManualStart, TypeOK, trackerVars
  <2>3. CASE UNCHANGED <<process, status, waiting, offset, pool, bytes, pipe, faults>>
    BY <1>1, <1>4, <2>3 DEF ManualStart, TypeOK, trackerVars
  <2> QED
    BY <1>4, <2>2, <2>3 DEF ManualStart
<1> QED
  BY <1>2, <1>3, <1>4

LEMMA UpdateType ==
    ASSUME TypeOK, NEW n \in Bases, UpdateHot(n) \/ UpdateRestart(n) PROVE TypeOK'
<1>1. switches' \in 0..MaxSwitches /\ n \in Counts /\ [l \in Lines |-> n] \in [Lines -> Counts]
  BY OperatorType, Constants DEF TypeOK, UpdateHot, UpdateRestart
<1>2. CASE UpdateHot(n)
  <2>1. SetConnections(Lines, desired') /\ desired' \in [Lines -> Counts]
    BY <1>1, <1>2 DEF UpdateHot
  <2> QED
    BY <1>1, <1>2, <2>1, SetConnectionsType
       DEF UpdateHot, TypeOK, byteVars, totalVars, trackerVars
<1>3. CASE UpdateRestart(n)
  <2>1. /\ total' \in [Lines -> Nat] /\ lastRx' \in [Lines -> Nat \cup {NoSample}]
        /\ hasMetrics' \in [Lines -> BOOLEAN] /\ today' \in [Lines -> Nat]
        /\ newDay' \in [Lines -> BOOLEAN]
        /\ connections' \in [Lines -> Counts] /\ desired' \in [Lines -> Counts]
        /\ base' \in Bases
    BY <1>1, <1>3 DEF UpdateRestart
  <2>2. UNCHANGED <<tickPc, at, manual, window, carried>>
    BY <1>3 DEF UpdateRestart
  <2>3. CASE Start(Lines, n, total')
    BY <1>1, <2>1, <2>2, <2>3, StartType DEF TypeOK
  <2>4. CASE (Spend(1) \/ UNCHANGED faults) /\ offset' = total' /\ Stopped
    <3>1. faults' \in 0..MaxFaults
      BY <2>4, SpendType DEF TypeOK
    <3> QED
      BY <1>1, <2>1, <2>2, <2>4, <3>1, StoppedType DEF TypeOK
  <2> QED
    BY <1>3, <2>3, <2>4 DEF UpdateRestart
<1> QED
  BY <1>2, <1>3

LEMMA HelperStepType == ASSUME TypeOK, NEW l \in Lines, Helper(l) PROVE TypeOK'
<1>1. pool[l] \in Pools /\ bytes[l] \in Nat /\ carried[l] \in Nat
  BY DEF TypeOK
<1> USE DEF Unattended, controlVars, byteVars, totalVars, trackerVars, outputVars, bounds
<1>2. CASE Boot(l)
  BY <1>2 DEF Boot, TypeOK
<1>3. CASE HandleUp(l) \/ HandleDown(l) \/ WorkerEnds(l)
  <2>1. ASSUME HandleUp(l) PROVE pool' \in [Lines -> Pools]
    <3> DEFINE target == AtMost(pool[l].target + 1, MaxConnections)
               active == AtLeast(pool[l].active, target)
    <3>1. target \in Counts
      BY <1>1, RunControlAssumption DEF Pools, Counts, AtMost
    <3>2. active \in Counts
      BY <1>1, <3>1 DEF Pools, Counts, AtLeast
    <3>3. pool[l].ups - 1 \in 0..MaxConnections
      BY <1>1, <2>1, RunControlAssumption DEF HandleUp, Pools
    <3>4. pool' = [pool EXCEPT ![l].ups = @ - 1, ![l].target = target,
                               ![l].active = active]
      BY <2>1 DEF HandleUp
    <3> HIDE DEF target, active
    <3> QED
      BY <1>1, <3>1, <3>2, <3>3, <3>4 DEF TypeOK, Pools
  <2>2. ASSUME HandleDown(l) PROVE pool' \in [Lines -> Pools]
    <3>1. /\ AtLeast(pool[l].target - 1, 1) \in Counts
          /\ pool[l].downs - 1 \in 0..MaxConnections
      BY <1>1, <2>2, RunControlAssumption DEF HandleDown, Pools, Counts, AtLeast
    <3> QED
      BY <1>1, <2>2, <3>1 DEF HandleDown, TypeOK, Pools
  <2>3. ASSUME WorkerEnds(l) PROVE pool' \in [Lines -> Pools]
    <3>1. pool[l].active - 1 \in Counts
      BY <1>1, <2>3, RunControlAssumption DEF WorkerEnds, Pools, Counts
    <3> QED
      BY <1>1, <2>3, <3>1 DEF WorkerEnds, TypeOK, Pools
  <2> QED
    BY <1>3, <2>1, <2>2, <2>3 DEF HandleUp, HandleDown, WorkerEnds, TypeOK
<1>4. CASE Read(l)
  BY <1>1, <1>4 DEF Read, TypeOK
<1>5. CASE EmitStatus(l)
  BY <1>1, <1>5 DEF EmitStatus, TypeOK, Records, Pools
<1>6. CASE Crash(l)
  BY <1>6, SpendType, Constants DEF Crash, TypeOK
<1> QED
  BY <1>2, <1>3, <1>4, <1>5, <1>6 DEF Helper

LEMMA NextType == TypeOK /\ [Next]_vars => TypeOK'
<1> SUFFICES ASSUME TypeOK, [Next]_vars PROVE TypeOK'
  OBVIOUS
<1> USE DEF controlVars, byteVars, totalVars, trackerVars, outputVars, bounds
<1>1. CASE NotDue
  BY <1>1 DEF NotDue, TypeOK
<1>2. CASE Midnight
  <2>1. newDay' \in [Lines -> BOOLEAN]
    BY <1>2 DEF Midnight
  <2> QED
    BY <1>2, <2>1 DEF Midnight, TypeOK
<1>3. CASE \E l \in Lines : RestartElapses(l)
  BY <1>3 DEF RestartElapses, TypeOK
<1>4. CASE UNCHANGED vars
  BY <1>4 DEF vars, TypeOK
<1> QED
  BY <1>1, <1>2, <1>3, <1>4, CheckScheduleType, DrainType, PollExitType, ScaleType,
     SwitchType, UpdateType, HelperStepType DEF Next, Tick

-----------------------------------------------------------------------------
(* What a step can do to the bytes of a line.                              *)

\* The tracker of a line has seen its total.
Settled(l) == hasMetrics[l] => lastRx[l] = total[l]

LEMMA SettledUnlessDrained ==
    ASSUME NEW l \in Lines, SampleSound(l), ~Drained(l) PROVE Settled(l)
BY DEF SampleSound, Settled

\* The counters of the controller, and all the places of the bytes, are kept.
CountersKept(l) == /\ total'[l] = total[l] /\ hasMetrics'[l] = hasMetrics[l]
                   /\ lastRx'[l] = lastRx[l] /\ today'[l] = today[l]
                   /\ carried'[l] = carried[l]

LineKept(l) == /\ CountersKept(l)
               /\ offset'[l] = offset[l] /\ bytes'[l] = bytes[l] /\ pipe'[l] = pipe[l]

\* Facts about the values of one line, without the types of the whole.
LineType(l) ==
    /\ total[l] \in Nat /\ offset[l] \in Nat /\ today[l] \in Nat /\ carried[l] \in Nat
    /\ bytes[l] \in Nat /\ lastRx[l] \in Nat \cup {NoSample}
    /\ pipe[l].bytes \in Nat /\ pipe[l].fresh \in BOOLEAN /\ hasMetrics[l] \in BOOLEAN

LEMMA LineTypes == ASSUME TypeOK, NEW l \in Lines PROVE LineType(l)
BY DEF TypeOK, LineType, Records

LEMMA LineTypesNext == ASSUME TypeOK', NEW l \in Lines PROVE LineType(l)'
BY DEF TypeOK, LineType, Records

LEMMA KeptSound ==
    ASSUME NEW l \in Lines, LineType(l), LineSound(l), LineKept(l),
           Alive(l)' <=> Alive(l),
           Settled(l) \/ (Drained(l)' <=> Drained(l))
    PROVE  LineSound(l)'
<1> USE DEF LineType, LineSound, LineKept, CountersKept
<1>1. HelperSound(l)'
  BY DEF HelperSound
<1>2. TotalSound(l)'
  BY DEF TotalSound
<1>3. SampleSound(l)'
  BY DEF SampleSound, Settled
<1>4. TodaySound(l)'
  <2>1. CASE Drained(l)' <=> Drained(l)
    BY <2>1 DEF TodaySound, Fits, NotCounted
  <2>2. CASE Settled(l)
    BY <2>2 DEF TodaySound, Fits, NotCounted, Settled, SampleSound
  <2> QED
    BY <2>1, <2>2
<1> QED
  BY <1>1, <1>2, <1>3, <1>4

\* A helper that ends without a word: its record stays in the pipe.
LEMMA GoneSound ==
    ASSUME NEW l \in Lines, LineType(l), LineSound(l), CountersKept(l),
           offset'[l] = offset[l], pipe'[l] = pipe[l], bytes'[l] = 0, ~Alive(l)',
           Drained(l)' <=> Drained(l)
    PROVE  LineSound(l)'
<1> USE DEF LineType, LineSound, CountersKept
<1>1. HelperSound(l)'
  BY DEF HelperSound
<1>2. TotalSound(l)'
  BY DEF TotalSound
<1>3. SampleSound(l)'
  BY DEF SampleSound
<1>4. TodaySound(l)'
  BY DEF TodaySound, Fits, NotCounted
<1> QED
  BY <1>1, <1>2, <1>3, <1>4

\* A line without bytes in its helper or its pipe, and with its total sampled.
LEMMA EmptiedSound ==
    ASSUME NEW l \in Lines, LineType(l)',
           bytes'[l] = 0, pipe'[l] = NoRecord,
           offset'[l] <= total'[l], total'[l] <= carried'[l], today'[l] <= carried'[l],
           ~hasMetrics'[l] => total'[l] = 0 /\ lastRx'[l] = NoSample,
           lastRx'[l] = NoSample => today'[l] = 0,
           Settled(l)'
    PROVE  LineSound(l)'
<1> USE DEF LineType, NoRecord
<1>1. HelperSound(l)'
  BY DEF HelperSound
<1>2. TotalSound(l)'
  BY DEF TotalSound
<1>3. SampleSound(l)'
  BY DEF SampleSound, Settled
<1>4. TodaySound(l)'
  BY DEF TodaySound, Fits, NotCounted, Settled
<1> QED
  BY <1>1, <1>2, <1>3, <1>4 DEF LineSound

\* What record writes, in terms of one line.
LEMMA RecordValues ==
    ASSUME TypeOK, NEW l \in Lines, Record(l)
    PROVE  /\ hasMetrics[l] => /\ lastRx'[l] = total[l]
                               /\ newDay[l] => today'[l] = 0
                               /\ ~newDay[l] => today'[l] = today[l] + Delta(l)
           /\ ~hasMetrics[l] => lastRx'[l] = lastRx[l] /\ today'[l] = today[l]
           /\ \A k \in Lines : k # l => lastRx'[k] = lastRx[k] /\ today'[k] = today[k]
BY DEF Record, TypeOK, trackerVars

\* The heart of the matter: a sample adds only what was read and not added before,
\* and leaves the line sound for the samples to come.
LEMMA RecordSound ==
    ASSUME NEW l \in Lines, LineType(l), LineType(l)', LineSound(l), Drained(l),
           hasMetrics[l] => /\ lastRx'[l] = total[l]
                            /\ newDay[l] => today'[l] = 0
                            /\ ~newDay[l] => today'[l] = today[l] + Delta(l),
           ~hasMetrics[l] => lastRx'[l] = lastRx[l] /\ today'[l] = today[l],
           total'[l] = total[l], hasMetrics'[l] = hasMetrics[l], carried'[l] = carried[l]
    PROVE  /\ today'[l] <= carried'[l]
           /\ ~hasMetrics'[l] => total'[l] = 0 /\ lastRx'[l] = NoSample
           /\ lastRx'[l] = NoSample => today'[l] = 0
           /\ Settled(l)'
           /\ /\ offset'[l] = offset[l] /\ bytes'[l] = bytes[l] /\ pipe'[l] = pipe[l]
              /\ process'[l] = process[l]
              => LineSound(l)'
<1> USE DEF LineType, LineSound
<1>1. CASE ~hasMetrics[l]
  <2>1. lastRx[l] = NoSample /\ today[l] = 0 /\ total[l] = 0
    BY <1>1 DEF SampleSound
  <2>2. ASSUME offset'[l] = offset[l], bytes'[l] = bytes[l], pipe'[l] = pipe[l],
               process'[l] = process[l]
        PROVE  LineSound(l)'
    BY <1>1, <2>1, <2>2
       DEF HelperSound, TotalSound, SampleSound, TodaySound, Alive, Settled
  <2> QED
    BY <1>1, <2>1, <2>2 DEF Settled, TotalSound
<1>2. CASE hasMetrics[l] /\ (newDay[l] \/ lastRx[l] = NoSample)
  <2>1. today'[l] = 0 /\ lastRx'[l] = total[l]
    BY <1>2 DEF SampleSound, Delta
  <2>2. ASSUME offset'[l] = offset[l], bytes'[l] = bytes[l], pipe'[l] = pipe[l],
               process'[l] = process[l]
        PROVE  LineSound(l)'
    BY <1>2, <2>1, <2>2
       DEF HelperSound, TotalSound, SampleSound, TodaySound, Fits, NotCounted, Alive
  <2> QED
    BY <1>2, <2>1, <2>2 DEF Settled
<1>3. CASE hasMetrics[l] /\ ~newDay[l] /\ lastRx[l] # NoSample /\ total[l] < lastRx[l]
  <2>1. today'[l] = today[l] /\ lastRx'[l] = total[l]
    BY <1>3 DEF Delta, AtLeast
  <2>2. NotCounted(l)
    BY <1>3 DEF TodaySound
  <2>3. ASSUME offset'[l] = offset[l], bytes'[l] = bytes[l], pipe'[l] = pipe[l],
               process'[l] = process[l]
        PROVE  LineSound(l)'
    BY <1>3, <2>1, <2>2, <2>3
       DEF HelperSound, TotalSound, SampleSound, TodaySound, Fits, NotCounted, Alive
  <2> QED
    BY <1>3, <2>1, <2>3 DEF Settled, TodaySound
<1>4. CASE hasMetrics[l] /\ ~newDay[l] /\ lastRx[l] # NoSample /\ lastRx[l] <= total[l]
  <2>1. today'[l] = today[l] + total[l] - lastRx[l] /\ lastRx'[l] = total[l]
    BY <1>4 DEF Delta, AtLeast
  <2>2. today'[l] <= carried[l]
    BY <1>4, <2>1 DEF TodaySound, Fits
  <2>3. ASSUME offset'[l] = offset[l], bytes'[l] = bytes[l], pipe'[l] = pipe[l],
               process'[l] = process[l]
        PROVE  LineSound(l)'
    <3>1. HelperSound(l)' /\ TotalSound(l)' /\ SampleSound(l)'
      BY <1>4, <2>1, <2>3 DEF HelperSound, TotalSound, SampleSound, Alive
    <3>2. TodaySound(l)'
      BY <1>4, <2>1, <2>2, <2>3
         DEF HelperSound, SampleSound, TodaySound, Fits, NotCounted, Alive
    <3> QED
      BY <3>1, <3>2
  <2> QED
    BY <1>4, <2>1, <2>2, <2>3 DEF Settled
<1> QED
  BY <1>1, <1>2, <1>3, <1>4

-----------------------------------------------------------------------------
(* Every step keeps every line sound.                                      *)

LEMMA StartValues ==
    ASSUME TypeOK, NEW S \in SUBSET Lines, NEW n, NEW before \in [Lines -> Nat],
           Start(S, n, before), NEW l \in Lines
    PROVE  /\ l \in S => /\ bytes'[l] = 0 /\ pipe'[l] = NoRecord
                         /\ offset'[l] = total'[l] \/ offset'[l] = before[l]
           /\ l \notin S => /\ bytes'[l] = bytes[l] /\ pipe'[l] = pipe[l]
                            /\ process'[l] = process[l] /\ offset'[l] = before[l]
<1> PICK failed \in SUBSET S :
        /\ process' = [k \in Lines |-> IF k \in failed THEN "none"
                                       ELSE IF k \in S THEN "booting" ELSE process[k]]
        /\ offset' = [k \in Lines |-> IF k \in failed THEN total'[k] ELSE before[k]]
        /\ bytes' = [k \in Lines |-> IF k \in S THEN 0 ELSE bytes[k]]
        /\ pipe' = [k \in Lines |-> IF k \in S THEN NoRecord ELSE pipe[k]]
  BY DEF Start
<1> QED
  OBVIOUS

LEMMA SetConnectionsValues ==
    ASSUME TypeOK, NEW S \in SUBSET Lines, NEW wanted \in [Lines -> Counts],
           SetConnections(S, wanted), NEW l \in Lines
    PROVE  \/ bytes'[l] = 0 /\ ~Alive(l)'
           \/ bytes'[l] = bytes[l] /\ process'[l] = process[l]
<1> PICK killed \in SUBSET Lines :
      /\ process' = [k \in Lines |-> IF k \in killed THEN "exited" ELSE process[k]]
      /\ bytes' = [k \in Lines |-> IF k \in killed THEN 0 ELSE bytes[k]]
  BY DEF SetConnections
<1> QED
  BY DEF Alive

\* All engines are started, stopped, or left as they are, between two samples.
LEMMA StartStopSound ==
    ASSUME IInv, TypeOK', tickPc = "schedule",
           UNCHANGED <<total, hasMetrics, trackerVars, carried>>,
           \/ StartDownloads(base, offset)
           \/ StopAll
           \/ UNCHANGED <<process, offset, bytes, pipe>>,
           tickPc' # "exit"
    PROVE  \A l \in Lines : LineSound(l)'
<1> TAKE l \in Lines
<1>1. LineType(l) /\ LineType(l)' /\ LineSound(l) /\ offset \in [Lines -> Nat]
  BY LineTypes, LineTypesNext DEF IInv, TypeOK
<1>2. Settled(l)
  BY <1>1, SettledUnlessDrained DEF LineSound, Drained
<1>3. CountersKept(l)
  BY DEF CountersKept, trackerVars
<1>4. ASSUME bytes'[l] = 0, pipe'[l] = NoRecord,
             offset'[l] = total'[l] \/ offset'[l] = offset[l]
      PROVE  LineSound(l)'
  <2>1. offset'[l] <= total'[l] /\ total'[l] <= carried'[l] /\ today'[l] <= carried'[l]
    BY <1>1, <1>3, <1>4 DEF LineSound, TotalSound, TodaySound, CountersKept, LineType
  <2>2. /\ ~hasMetrics'[l] => total'[l] = 0 /\ lastRx'[l] = NoSample
        /\ lastRx'[l] = NoSample => today'[l] = 0
        /\ Settled(l)'
    BY <1>1, <1>2, <1>3 DEF LineSound, SampleSound, CountersKept, Settled
  <2> QED
    BY <1>1, <1>4, <2>1, <2>2, EmptiedSound
<1>5. CASE Start(Lines, base, offset)
  BY <1>1, <1>4, <1>5, StartValues DEF IInv
<1>6. CASE StopAll
  BY <1>4, <1>6 DEF StopAll, Stopped
<1>7. CASE UNCHANGED <<process, offset, bytes, pipe>>
  BY <1>1, <1>2, <1>3, <1>7, KeptSound DEF LineKept, Alive
<1> QED
  BY <1>5, <1>6, <1>7 DEF StartDownloads

\* The helpers are resized, which may kill one of them.
LEMMA ResizeSound ==
    ASSUME IInv, NEW S \in SUBSET Lines, NEW wanted \in [Lines -> Counts],
           SetConnections(S, wanted), tickPc # "exit", tickPc' # "exit",
           UNCHANGED <<byteVars, pipe, carried>>
    PROVE  \A l \in Lines : LineSound(l)'
<1> TAKE l \in Lines
<1>1. LineType(l) /\ LineSound(l)
  BY LineTypes DEF IInv
<1>2. CountersKept(l) /\ offset'[l] = offset[l] /\ pipe'[l] = pipe[l]
  BY DEF CountersKept, byteVars, totalVars, trackerVars
<1>3. ~Drained(l) /\ ~Drained(l)'
  BY DEF Drained
<1>4. CASE bytes'[l] = 0 /\ ~Alive(l)'
  BY <1>1, <1>2, <1>3, <1>4, GoneSound
<1>5. CASE bytes'[l] = bytes[l] /\ process'[l] = process[l]
  <2>1. Alive(l)' <=> Alive(l)
    BY <1>5 DEF Alive
  <2> QED
    BY <1>1, <1>2, <1>3, <1>5, <2>1, KeptSound DEF LineKept
<1> QED
  BY <1>4, <1>5, SetConnectionsValues DEF IInv

LEMMA DrainSound == IInv /\ Drain /\ TypeOK' => \A l \in Lines : LineSound(l)'
<1> SUFFICES ASSUME IInv, Drain, TypeOK', NEW l \in Lines PROVE LineSound(l)'
  OBVIOUS
<1>1. LineType(l) /\ LineType(l)' /\ LineSound(l)
  BY LineTypes, LineTypesNext DEF IInv
<1>2. tickPc = "drain" /\ tickPc' = "exit" /\ at' = at /\ ~Drained(l) /\ at \in Lines
  BY DEF Drain, Drained, IInv, TypeOK
<1>3. Settled(l)
  BY <1>1, <1>2, SettledUnlessDrained DEF LineSound
<1>4. /\ UNCHANGED <<offset, lastRx, today, process, bytes, carried>>
      /\ pipe' = [pipe EXCEPT ![at] = NoRecord]
  BY DEF Drain, trackerVars
<1>5. CASE l = at /\ pipe[l].fresh
  <2>1. total'[l] = offset[l] + pipe[l].bytes /\ hasMetrics'[l] = TRUE /\ pipe'[l] = NoRecord
    BY <1>4, <1>5 DEF Drain, TotalReported, IInv, TypeOK
  <2>2. HelperSound(l)' /\ TotalSound(l)' /\ SampleSound(l)'
    BY <1>1, <1>2, <1>4, <1>5, <2>1
       DEF LineType, LineSound, HelperSound, TotalSound, SampleSound, Alive, NoRecord, Drained
  <2>3. TodaySound(l)'
    BY <1>1, <1>2, <1>4, <1>5, <2>1
       DEF LineType, LineSound, TodaySound, Fits, NotCounted, NoRecord
  <2> QED
    BY <2>2, <2>3 DEF LineSound
<1>6. CASE l = at /\ ~pipe[l].fresh
  <2>1. total' = total /\ hasMetrics' = hasMetrics /\ pipe'[l] = NoRecord
    BY <1>4, <1>6 DEF Drain, IInv, TypeOK
  <2>2. HelperSound(l)' /\ TotalSound(l)' /\ SampleSound(l)'
    BY <1>1, <1>2, <1>3, <1>4, <1>6, <2>1
       DEF LineType, LineSound, HelperSound, TotalSound, SampleSound, Alive, NoRecord, Settled
  <2>3. TodaySound(l)'
    BY <1>1, <1>2, <1>3, <1>4, <1>6, <2>1
       DEF LineType, LineSound, TodaySound, SampleSound, Fits, NotCounted, NoRecord, Settled
  <2> QED
    BY <2>2, <2>3 DEF LineSound
<1>7. CASE l # at
  <2>1. LineKept(l) /\ (Alive(l)' <=> Alive(l))
    BY <1>2, <1>4, <1>7 DEF Drain, LineKept, CountersKept, Alive, IInv, TypeOK
  <2> QED
    BY <1>1, <1>3, <2>1, KeptSound
<1> QED
  BY <1>5, <1>6, <1>7

LEMMA PollExitSound == IInv /\ PollExit /\ TypeOK' => \A l \in Lines : LineSound(l)'
<1> SUFFICES ASSUME IInv, PollExit, TypeOK', NEW l \in Lines PROVE LineSound(l)'
  OBVIOUS
<1>1. LineType(l) /\ LineType(l)' /\ LineSound(l) /\ at \in Lines /\ {at} \in SUBSET Lines
  BY LineTypes, LineTypesNext DEF IInv, TypeOK
<1>2. tickPc = "exit" /\ ~Drained(l)'
  BY DEF PollExit, Drained
<1>3. UNCHANGED <<total, hasMetrics, carried>> /\ Record(at)
  BY DEF PollExit
<1>4. CASE l = at
  <2>1. /\ hasMetrics[l] => /\ lastRx'[l] = total[l]
                            /\ newDay[l] => today'[l] = 0
                            /\ ~newDay[l] => today'[l] = today[l] + Delta(l)
        /\ ~hasMetrics[l] => lastRx'[l] = lastRx[l] /\ today'[l] = today[l]
    BY <1>3, <1>4, RecordValues DEF IInv
  <2>2. Drained(l)
    BY <1>2, <1>4 DEF Drained
  <2>3. /\ today'[l] <= carried'[l]
        /\ ~hasMetrics'[l] => total'[l] = 0 /\ lastRx'[l] = NoSample
        /\ lastRx'[l] = NoSample => today'[l] = 0
        /\ Settled(l)'
        /\ /\ offset'[l] = offset[l] /\ bytes'[l] = bytes[l] /\ pipe'[l] = pipe[l]
           /\ process'[l] = process[l]
           => LineSound(l)'
    BY <1>1, <1>3, <2>1, <2>2, RecordSound
  <2>4. ASSUME bytes'[l] = 0, pipe'[l] = NoRecord,
               offset'[l] = total[l] \/ offset'[l] = offset[l]
        PROVE  LineSound(l)'
    <3>1. offset'[l] <= total'[l] /\ total'[l] <= carried'[l]
      BY <1>1, <1>3, <2>4 DEF LineSound, TotalSound, LineType
    <3> QED
      BY <1>1, <2>3, <2>4, <3>1, EmptiedSound
  <2>5. CASE ScheduleRestart(at)
    <3>1. pipe'[l] = NoRecord /\ offset'[l] = total[l] /\ bytes'[l] = bytes[l]
      BY <1>1, <1>4, <2>5 DEF ScheduleRestart, IInv, TypeOK
    <3>2. bytes[l] = 0
      BY <1>1, <1>4, <2>5 DEF ScheduleRestart, LineSound, HelperSound, Alive
    <3> QED
      BY <2>4, <3>1, <3>2
  <2>6. CASE Start({at}, base, offset)
    <3>1. offset \in [Lines -> Nat]
      BY DEF IInv, TypeOK
    <3>2. /\ bytes'[l] = 0 /\ pipe'[l] = NoRecord
          /\ offset'[l] = total'[l] \/ offset'[l] = offset[l]
      BY <1>1, <1>4, <2>6, <3>1, StartValues DEF IInv
    <3> QED
      BY <1>3, <2>4, <3>2
  <2>7. CASE UNCHANGED <<process, status, waiting, offset, pool, bytes, pipe, faults>>
    BY <2>3, <2>7
  <2> QED
    BY <2>5, <2>6, <2>7 DEF PollExit
<1>5. CASE l # at
  <2>1. ~Drained(l) /\ CountersKept(l)
    BY <1>1, <1>3, <1>5, RecordValues DEF Drained, CountersKept, IInv
  <2>2. /\ offset'[l] = offset[l] /\ bytes'[l] = bytes[l] /\ pipe'[l] = pipe[l]
        /\ process'[l] = process[l]
    <3>1. CASE ScheduleRestart(at)
      BY <1>5, <3>1 DEF ScheduleRestart, IInv, TypeOK
    <3>2. CASE Start({at}, base, offset)
      <4>1. offset \in [Lines -> Nat] /\ l \notin {at}
        BY <1>5 DEF IInv, TypeOK
      <4> QED
        BY <1>1, <3>2, <4>1, StartValues DEF IInv
    <3>3. CASE UNCHANGED <<process, status, waiting, offset, pool, bytes, pipe, faults>>
      BY <3>3
    <3> QED
      BY <3>1, <3>2, <3>3 DEF PollExit
  <2>3. Alive(l)' <=> Alive(l)
    BY <2>2 DEF Alive
  <2> QED
    BY <1>1, <1>2, <2>1, <2>2, <2>3, KeptSound DEF LineKept
<1> QED
  BY <1>4, <1>5

\* A reconfiguration begins anew.
LEMMA UpdateRestartSound ==
    ASSUME IInv, TypeOK', NEW n \in Bases, UpdateRestart(n)
    PROVE  \A l \in Lines : LineSound(l)'
<1> TAKE l \in Lines
<1>1. LineType(l)'
  BY LineTypesNext
<1>2. /\ total'[l] = 0 /\ hasMetrics'[l] = FALSE /\ lastRx'[l] = NoSample /\ today'[l] = 0
      /\ total' \in [Lines -> Nat] /\ Lines \in SUBSET Lines
  BY DEF UpdateRestart
<1>3. bytes'[l] = 0 /\ pipe'[l] = NoRecord /\ offset'[l] = total'[l]
  <2>1. CASE Start(Lines, n, total')
    BY <1>2, <2>1, StartValues DEF IInv
  <2>2. CASE offset' = total' /\ Stopped
    BY <2>2 DEF Stopped
  <2> QED
    BY <2>1, <2>2 DEF UpdateRestart
<1> QED
  BY <1>1, <1>2, <1>3, EmptiedSound DEF Settled, LineType

LEMMA HelperStepSound ==
    ASSUME IInv, TypeOK', NEW k \in Lines, Helper(k)
    PROVE  \A l \in Lines : LineSound(l)'
<1> TAKE l \in Lines
<1>1. LineType(l) /\ LineType(l)' /\ LineSound(l)
  BY LineTypes, LineTypesNext DEF IInv
<1>2. /\ UNCHANGED <<tickPc, at, total, hasMetrics, lastRx, today, offset>>
      /\ Drained(l)' <=> Drained(l)
  BY DEF Helper, Boot, HandleUp, HandleDown, WorkerEnds, Read, EmitStatus, Crash,
         Unattended, byteVars, totalVars, trackerVars, Drained
<1>3. CASE Boot(k) \/ HandleUp(k) \/ HandleDown(k) \/ WorkerEnds(k)
  <2>1. UNCHANGED outputVars
    BY <1>3 DEF Boot, HandleUp, HandleDown, WorkerEnds, outputVars
  <2>2. Alive(l)' <=> Alive(l)
    BY <1>3 DEF Boot, HandleUp, HandleDown, WorkerEnds, Alive, IInv, TypeOK
  <2> QED
    BY <1>1, <1>2, <2>1, <2>2, KeptSound DEF LineKept, CountersKept, outputVars
<1>4. ASSUME UNCHANGED <<process, bytes, pipe, carried>> \/
             (l # k /\ bytes'[l] = bytes[l] /\ carried'[l] = carried[l]
                    /\ pipe'[l] = pipe[l] /\ process'[l] = process[l])
      PROVE  LineSound(l)'
  <2>1. Alive(l)' <=> Alive(l)
    BY <1>4 DEF Alive
  <2> QED
    BY <1>1, <1>2, <1>4, <2>1, KeptSound DEF LineKept, CountersKept
<1>5. CASE Read(k)
  <2>1. UNCHANGED <<process, pipe>>
    BY <1>5 DEF Read
  <2>2. CASE l = k
    <3>1. /\ bytes'[l] = bytes[l] + 1 /\ carried'[l] = carried[l] + 1 /\ Alive(l)
          /\ Alive(l)'
      BY <1>5, <2>1, <2>2 DEF Read, IInv, TypeOK, Alive
    <3>2. HelperSound(l)' /\ TotalSound(l)' /\ SampleSound(l)'
      BY <1>1, <1>2, <2>1, <3>1
         DEF LineType, LineSound, HelperSound, TotalSound, SampleSound
    <3>3. TodaySound(l)'
      BY <1>1, <1>2, <2>1, <3>1 DEF LineType, LineSound, TodaySound, Fits, NotCounted
    <3> QED
      BY <3>2, <3>3 DEF LineSound
  <2>3. CASE l # k
    BY <1>4, <1>5, <2>1, <2>3 DEF Read, IInv, TypeOK
  <2> QED
    BY <2>2, <2>3
<1>6. CASE EmitStatus(k)
  <2>1. UNCHANGED <<process, bytes, carried>>
    BY <1>6 DEF EmitStatus
  <2>2. CASE l = k
    <3>1. /\ pipe'[l].fresh = TRUE /\ pipe'[l].bytes = bytes[l]
          /\ Alive(l) /\ (Alive(l)' <=> Alive(l))
      BY <1>6, <2>1, <2>2 DEF EmitStatus, IInv, TypeOK, Alive
    <3>2. HelperSound(l)' /\ TotalSound(l)' /\ SampleSound(l)'
      BY <1>1, <1>2, <2>1, <3>1
         DEF LineType, LineSound, HelperSound, TotalSound, SampleSound
    <3>3. TodaySound(l)'
      BY <1>1, <1>2, <2>1, <3>1 DEF LineType, LineSound, TodaySound, Fits, NotCounted
    <3> QED
      BY <3>2, <3>3 DEF LineSound
  <2>3. CASE l # k
    BY <1>4, <1>6, <2>1, <2>3 DEF EmitStatus, IInv, TypeOK
  <2> QED
    BY <2>2, <2>3
<1>7. CASE Crash(k)
  <2>1. UNCHANGED <<pipe, carried>>
    BY <1>7 DEF Crash
  <2>2. CASE l = k
    <3>1. bytes'[l] = 0 /\ ~Alive(l)'
      BY <1>7, <2>2 DEF Crash, IInv, TypeOK, Alive
    <3> QED
      BY <1>1, <1>2, <2>1, <3>1, GoneSound DEF CountersKept
  <2>3. CASE l # k
    BY <1>4, <1>7, <2>1, <2>3 DEF Crash, IInv, TypeOK
  <2> QED
    BY <2>2, <2>3
<1> QED
  BY <1>3, <1>5, <1>6, <1>7 DEF Helper

-----------------------------------------------------------------------------
LEMMA InitInductive == Init => IInv
<1> SUFFICES ASSUME Init PROVE IInv
  OBVIOUS
<1>1. TypeOK
  BY InitType
<1>2. ASSUME NEW l \in Lines PROVE LineSound(l)
  BY <1>2 DEF Init, LineSound, HelperSound, TotalSound, SampleSound, TodaySound, NoRecord,
              Alive
<1> QED
  BY <1>1, <1>2 DEF IInv

LEMMA NextInductive == IInv /\ [Next]_vars => IInv'
<1> SUFFICES ASSUME IInv, [Next]_vars PROVE IInv'
  OBVIOUS
<1>1. TypeOK'
  BY NextType DEF IInv
<1> SUFFICES \A l \in Lines : LineSound(l)'
  BY <1>1 DEF IInv
<1>2. CASE CheckSchedule
  BY <1>1, <1>2, StartStopSound DEF CheckSchedule
<1>3. CASE ManualStart
  BY <1>1, <1>3, StartStopSound DEF ManualStart, Operator
<1>4. CASE ManualStop
  BY <1>1, <1>4, StartStopSound DEF ManualStop, Operator
<1>5. CASE Scale
  <2>1. desired' \in [Lines -> Counts] /\ tickPc # "exit" /\ tickPc' # "exit"
    BY <1>1, <1>5 DEF TypeOK, Scale
  <2>2. PICK S \in SUBSET Lines : SetConnections(S, desired')
    BY <1>5 DEF Scale
  <2> QED
    BY <1>5, <2>1, <2>2, ResizeSound DEF Scale
<1>6. ASSUME NEW n \in Bases, UpdateHot(n) PROVE \A l \in Lines : LineSound(l)'
  <2>1. SetConnections(Lines, desired') /\ desired' \in [Lines -> Counts]
    BY <1>1, <1>6 DEF UpdateHot, TypeOK
  <2>2. /\ tickPc # "exit" /\ tickPc' # "exit"
        /\ UNCHANGED <<byteVars, pipe, carried>>
    BY <1>6 DEF UpdateHot, Operator
  <2> QED
    BY <2>1, <2>2, ResizeSound
<1>7. CASE NotDue \/ Midnight \/ WindowTurns \/ (\E k \in Lines : RestartElapses(k))
           \/ UNCHANGED vars
  <2> TAKE l \in Lines
  <2>1. LineKept(l) /\ (Alive(l)' <=> Alive(l)) /\ (Drained(l)' <=> Drained(l))
    BY <1>7, Zenon
       DEF NotDue, Midnight, WindowTurns, RestartElapses, vars, byteVars, totalVars,
           trackerVars, outputVars, LineKept, CountersKept, Alive, Drained, Operator
  <2>2. LineType(l) /\ LineSound(l)
    BY LineTypes DEF IInv
  <2> QED
    BY <2>1, <2>2, KeptSound
<1> QED
  BY <1>1, <1>2, <1>3, <1>4, <1>5, <1>6, <1>7, DrainSound, PollExitSound,
     UpdateRestartSound, HelperStepSound DEF Next, Tick

LEMMA Inductive == Spec => []IInv
<1> QED
  BY InitInductive, NextInductive, PTL DEF Spec

-----------------------------------------------------------------------------
\* Every reachable state is well typed: for any number of lines, of connections and
\* of faults the scaling stays between the base and the maximum.
THEOREM TypeCorrect == Spec => []TypeOK
<1>1. IInv => TypeOK
  BY DEF IInv
<1> QED
  BY <1>1, Inductive, PTL

\* total_bytes and today_bytes never show a byte that no helper has read.
THEOREM NothingInvented == Spec => []BytesNotInvented
<1>1. IInv => BytesNotInvented
  BY DEF IInv, LineSound, TotalSound, TodaySound, BytesNotInvented
<1> QED
  BY <1>1, Inductive, PTL

\* today_bytes falls at midnight and with a new tracker only.
THEOREM TodayGrows == Spec => TodayNeverFalls
<1>1. IInv /\ [Next]_vars =>
        [\A l \in Lines : today'[l] < today[l] => newDay[l] \/ ~hasMetrics'[l]]_vars
  <2> SUFFICES ASSUME IInv, [Next]_vars, NEW l \in Lines, today'[l] < today[l]
               PROVE  newDay[l] \/ ~hasMetrics'[l]
    OBVIOUS
  <2>1. today[l] \in Nat /\ total[l] \in Nat /\ lastRx[l] \in Nat \cup {NoSample}
    BY DEF IInv, TypeOK
  <2>2. CASE PollExit
    <3>1. Record(at) /\ at \in Lines /\ Delta(l) \in Nat
      BY <2>1, <2>2 DEF PollExit, IInv, TypeOK, Delta, AtLeast
    <3> QED
      BY <2>1, <3>1, RecordValues DEF IInv
  <2>3. CASE \E n \in Bases : UpdateRestart(n)
    BY <2>3 DEF UpdateRestart
  <2>4. CASE UNCHANGED today
    BY <2>1, <2>4
  <2>5. ~PollExit /\ ~(\E n \in Bases : UpdateRestart(n)) => UNCHANGED today
    BY Zenon
       DEF Next, Tick, CheckSchedule, NotDue, Drain, Scale, Midnight, WindowTurns,
           ManualStart, ManualStop, UpdateHot, RestartElapses, Helper, Boot, HandleUp,
           HandleDown, WorkerEnds, Read, EmitStatus, Crash, Unattended, byteVars,
           trackerVars, vars
  <2> QED
    BY <2>2, <2>3, <2>4, <2>5
<1> QED
  BY <1>1, Inductive, PTL DEF Spec, TodayNeverFalls

=============================================================================
