----------------------------- MODULE RunControl ------------------------------
(***************************************************************************)
(* Run control, scaling and byte totals of the downloader:                 *)
(* PumperController.tick and its HTTP handlers (steam_pumper/controller.py)*)
(* start and stop one EngineProcess per line (steam_pumper/engine.py),     *)
(* resize its helper with SIGUSR1 / SIGUSR2, and feed the byte totals that *)
(* the helper reports to a ThroughputTracker (steam_pumper/metrics.py).    *)
(*                                                                         *)
(* Python is one thread: a tick runs through its parts in order, the HTTP  *)
(* handlers run between ticks.  The helpers run by themselves.  The source *)
(* list, the other part of a tick, is the subject of SourceReload.         *)
(***************************************************************************)
EXTENDS Integers, FiniteSets

CONSTANTS LineCount,       \* logical lines
          MaxConnections,  \* max_connections_per_line
          Bases,           \* values connections_per_line may be set to
          Rates,           \* what a scale check may find, see NextCount
          MaxBytes,        \* bound: units of bytes read on a line
          MaxFaults,       \* bound: crashes and failed system calls
          MaxSwitches      \* bound: operator actions

Lines  == 1..LineCount
Counts == 1..MaxConnections

ASSUME RunControlAssumption ==
    /\ LineCount \in Nat \ {0}
    /\ MaxConnections \in Nat \ {0}
    /\ Bases \subseteq Counts /\ Bases # {}
    /\ Rates \subseteq {"low", "fit", "high", "unknown"} /\ Rates # {}
    /\ MaxBytes \in Nat /\ MaxFaults \in Nat /\ MaxSwitches \in Nat

VARIABLES
    tickPc,        \* the part of PumperController.tick that runs next
    at,            \* the line whose poll runs next
    manual,        \* manual_enabled
    window,        \* cfg.is_within_window
    base,          \* cfg.connections_per_line
    status,        \* per engine: its state.status ("stopped" is also "idle")
    waiting,       \* its next_restart_at lies ahead
    connections,   \* its state.connections: what the controller believes
    desired,       \* desired_connections of its LineRuntime
    total,         \* its state.total_bytes
    offset,        \* its _byte_offset
    hasMetrics,    \* its state.has_metrics
    lastRx,        \* _last_rx_bytes of the tracker, or NoSample
    today,         \* its today_bytes
    newDay,        \* the date is no longer the tracker's day
    process,       \* its helper: none, booting, running or exited
    pool,          \* the helper's workers, see Pools
    bytes,         \* what the helper has read
    pipe,          \* its newest status record that has not been drained
    carried,       \* observer: what all helpers of the line have read
    faults,        \* faults so far
    switches       \* operator actions so far

controlVars == <<manual, window, base>>
totalVars   == <<total, offset, hasMetrics>>
trackerVars == <<lastRx, today, newDay>>
byteVars    == <<totalVars, trackerVars>>
outputVars  == <<bytes, pipe, carried>>
bounds      == <<faults, switches>>
vars == <<tickPc, at, controlVars, status, waiting, connections, desired, byteVars,
          process, pool, outputVars, bounds>>

NoSample == -1
NoRecord == [fresh |-> FALSE, bytes |-> 0, connections |-> 1]
Records  == [fresh : BOOLEAN, bytes : Nat, connections : Counts]

\* targetConnections, the size of the workers map, and the SIGUSR1 and SIGUSR2
\* in the channel of the select loop.
Pools    == [target : Counts, active : Counts, ups : 0..MaxConnections,
             downs : 0..MaxConnections]
Fresh(n) == [target |-> n, active |-> n, ups |-> 0, downs |-> 0]
Gone     == Fresh(1)   \* of a helper that is not there

TypeOK ==
    /\ tickPc \in {"schedule", "drain", "exit", "scale"} /\ at \in Lines
    /\ manual \in BOOLEAN /\ window \in BOOLEAN /\ base \in Bases
    /\ status \in [Lines -> {"stopped", "downloading", "restarting"}]
    /\ waiting \in [Lines -> BOOLEAN]
    /\ connections \in [Lines -> Counts]
    /\ desired \in [Lines -> Counts]
    /\ total \in [Lines -> Nat] /\ offset \in [Lines -> Nat]
    /\ hasMetrics \in [Lines -> BOOLEAN]
    /\ lastRx \in [Lines -> Nat \cup {NoSample}]
    /\ today \in [Lines -> Nat] /\ newDay \in [Lines -> BOOLEAN]
    /\ process \in [Lines -> {"none", "booting", "running", "exited"}]
    /\ pool \in [Lines -> Pools]
    /\ bytes \in [Lines -> Nat] /\ pipe \in [Lines -> Records]
    /\ carried \in [Lines -> Nat]
    /\ faults \in 0..MaxFaults /\ switches \in 0..MaxSwitches

AtMost(a, b)  == IF a < b THEN a ELSE b
AtLeast(a, b) == IF a > b THEN a ELSE b

Alive(l) == process[l] \in {"booting", "running"}
Running  == \E l \in Lines : status[l] # "stopped"
Wanted   == manual /\ window

Spend(n) == faults + n <= MaxFaults /\ faults' = faults + n

-----------------------------------------------------------------------------
(* The calls of the controller on its engines.                             *)

\* EngineProcess.start on the lines of S, with n connections: the state of the
\* engine is kept, total, offset and connections too.  A start that fails
\* schedules a restart, as _schedule_restart does; before are the offsets so far.
Start(S, n, before) ==
    \E failed \in SUBSET S :
        /\ Spend(Cardinality(failed))
        /\ process' = [l \in Lines |-> IF l \in failed THEN "none"
                                       ELSE IF l \in S THEN "booting" ELSE process[l]]
        /\ status' = [l \in Lines |-> IF l \in failed THEN "restarting"
                                      ELSE IF l \in S THEN "downloading" ELSE status[l]]
        /\ waiting' = [l \in Lines |-> IF l \in S THEN l \in failed ELSE waiting[l]]
        /\ offset' = [l \in Lines |-> IF l \in failed THEN total'[l] ELSE before[l]]
        /\ pool' = [l \in Lines |-> IF l \in S THEN Fresh(n) ELSE pool[l]]
        /\ bytes' = [l \in Lines |-> IF l \in S THEN 0 ELSE bytes[l]]
        /\ pipe' = [l \in Lines |-> IF l \in S THEN NoRecord ELSE pipe[l]]

\* No engine has a helper; what the helpers wrote last is not drained.
Stopped ==
    /\ process' = [l \in Lines |-> "none"]
    /\ status' = [l \in Lines |-> "stopped"]
    /\ waiting' = [l \in Lines |-> FALSE]
    /\ bytes' = [l \in Lines |-> 0]
    /\ pipe' = [l \in Lines |-> NoRecord]
    /\ pool' = [l \in Lines |-> Gone]

\* stop_downloads: EngineProcess.stop on every line.
StopAll == Stopped /\ UNCHANGED <<offset, faults>>

\* start_downloads: applying the topology may fail, then nothing is started.
StartDownloads(n, before) ==
    \/ Start(Lines, n, before)
    \/ /\ Spend(1)
       /\ offset' = before
       /\ UNCHANGED <<process, status, waiting, pool, bytes, pipe>>

\* set_connections(wanted[l]) on the lines of S: as many signals as the believed
\* number is away from the wanted one.  Signals that arrive together may merge
\* into one; before the helper has its handler they are lost, or kill it.
SetConnections(S, wanted) ==
    LET Sent(l) == IF l \notin S \/ ~Alive(l) THEN 0
                   ELSE AtLeast(wanted[l] - connections[l], connections[l] - wanted[l])
    IN  /\ connections' = [l \in Lines |-> IF l \in S THEN wanted[l] ELSE connections[l]]
        /\ \E heard \in [Lines -> 0..MaxConnections], killed \in SUBSET Lines :
              /\ \A l \in Lines :
                    /\ heard[l] <= Sent(l)
                    /\ heard[l] = 0 <=> Sent(l) = 0 \/ process[l] = "booting"
              /\ killed \subseteq {l \in Lines : Sent(l) > 0 /\ process[l] = "booting"}
              /\ pool' = [l \in Lines |->
                    IF l \in killed THEN Gone
                    ELSE IF heard[l] = 0 THEN pool[l]
                    ELSE IF wanted[l] > connections[l]
                    THEN [pool[l] EXCEPT !.ups = AtMost(@ + heard[l], MaxConnections)]
                    ELSE [pool[l] EXCEPT !.downs = AtMost(@ + heard[l], MaxConnections)]]
              /\ process' = [l \in Lines |-> IF l \in killed THEN "exited" ELSE process[l]]
              /\ bytes' = [l \in Lines |-> IF l \in killed THEN 0 ELSE bytes[l]]

-----------------------------------------------------------------------------
(* PumperController.tick, part by part.                                    *)

\* Mutant: an attempt to start that fails is not repeated.
CheckScheduleOnce ==
    /\ tickPc = "schedule"
    /\ tickPc' = "drain"
    /\ UNCHANGED <<total, hasMetrics>>
    /\ \/ Wanted /\ ~Running /\ faults = 0 /\ StartDownloads(base, offset)
       \/ ~Wanted /\ Running /\ StopAll
       \/ /\ (Wanted <=> Running) \/ (Wanted /\ faults > 0)
          /\ UNCHANGED <<process, status, waiting, offset, pool, bytes, pipe, faults>>
    /\ UNCHANGED <<at, controlVars, connections, desired, trackerVars, carried, switches>>

\* The schedule check: an exception of start_downloads is logged, the next check
\* tries again.
CheckSchedule ==
    /\ tickPc = "schedule"
    /\ tickPc' = "drain"
    /\ UNCHANGED <<total, hasMetrics>>
    /\ \/ Wanted /\ ~Running /\ StartDownloads(base, offset)
       \/ ~Wanted /\ Running /\ StopAll
       \/ /\ Wanted <=> Running
          /\ UNCHANGED <<process, status, waiting, offset, pool, bytes, pipe, faults>>
    /\ UNCHANGED <<at, controlVars, connections, desired, trackerVars, carried, switches>>

\* A check that is not due: schedule_poll_seconds, or ten seconds for the scaling,
\* have not passed since the last one.
NotDue ==
    /\ \/ tickPc = "schedule" /\ tickPc' = "drain"
       \/ tickPc = "scale"    /\ tickPc' = "schedule"
    /\ UNCHANGED <<at, controlVars, status, waiting, connections, desired, byteVars,
                   process, pool, outputVars, bounds>>

\* Mutant: each record is taken for what was read since the one before it.
TotalAdded(l) == total[l] + pipe[l].bytes

\* A record reports what its helper has read since it was started.
TotalReported(l) == offset[l] + pipe[l].bytes

\* sample_metrics: EngineProcess.poll of one line begins with _drain_output, of
\* which the newest status record is what remains.
Drain ==
    /\ tickPc = "drain"
    /\ tickPc' = "exit"
    /\ IF pipe[at].fresh
       THEN /\ total' = [total EXCEPT ![at] = TotalReported(at)]
            /\ hasMetrics' = [hasMetrics EXCEPT ![at] = TRUE]
            /\ connections' = [connections EXCEPT ![at] = pipe[at].connections]
       ELSE UNCHANGED <<total, hasMetrics, connections>>
    /\ pipe' = [pipe EXCEPT ![at] = NoRecord]
    /\ UNCHANGED <<at, controlVars, status, waiting, desired, offset, trackerVars,
                   process, pool, bytes, carried, bounds>>

\* Mutant: the difference is taken as it is.
SignedDelta(l) == IF lastRx[l] = NoSample THEN 0 ELSE total[l] - lastRx[l]

\* What a record adds to today: totals that fall add nothing.
Delta(l) == IF lastRx[l] = NoSample THEN 0 ELSE AtLeast(0, total[l] - lastRx[l])

\* ThroughputTracker.record for one line: on a new day it starts again.
Record(l) ==
    IF hasMetrics[l]
    THEN /\ lastRx' = [lastRx EXCEPT ![l] = total[l]]
         /\ today' = [today EXCEPT ![l] = IF newDay[l] THEN 0 ELSE @ + Delta(l)]
         /\ newDay' = [newDay EXCEPT ![l] = FALSE]
    ELSE UNCHANGED trackerVars

\* _schedule_restart: the totals of the next helper are counted on from here.  What
\* the last one wrote after the drain is lost with its pipe.
ScheduleRestart(l) ==
    /\ process[l] = "exited"
    /\ process' = [process EXCEPT ![l] = "none"]
    /\ status' = [status EXCEPT ![l] = "restarting"]
    /\ waiting' = [waiting EXCEPT ![l] = TRUE]
    /\ offset' = [offset EXCEPT ![l] = total[l]]
    /\ pipe' = [pipe EXCEPT ![l] = NoRecord]
    /\ UNCHANGED <<pool, bytes, faults>>

RestartDue(l) == process[l] = "none" /\ status[l] = "restarting" /\ ~waiting[l]

\* poll goes on to the exit code, or starts the helper whose delay is over.
PollExit ==
    /\ tickPc = "exit"
    /\ IF at < LineCount THEN tickPc' = "drain" /\ at' = at + 1
                         ELSE tickPc' = "scale" /\ at' = 1
    /\ Record(at)
    /\ UNCHANGED <<total, hasMetrics>>
    /\ \/ ScheduleRestart(at)
       \/ RestartDue(at) /\ Start({at}, base, offset)
       \/ /\ process[at] # "exited" /\ ~RestartDue(at)
          /\ UNCHANGED <<process, status, waiting, offset, pool, bytes, pipe, faults>>
    /\ UNCHANGED <<controlVars, connections, desired, carried, switches>>

\* next_connection_count.  A rate is low below 90 % of the target of the line, and
\* high above 115 % of it with rate_limit_enabled.
NextCount(current, rate) ==
    LET count == AtLeast(base, AtMost(current, MaxConnections))
    IN  IF rate = "low" /\ count < MaxConnections THEN count + 1
        ELSE IF rate = "high" /\ count > base THEN count - 1
        ELSE count

\* _scale_lines.  The rate of a line is unknown until it has samples of ten
\* seconds; a single line without records of its helper is judged by the interface.
Scale ==
    /\ tickPc = "scale"
    /\ tickPc' = "schedule"
    /\ \E rate \in [Lines -> Rates] :
          LET judged  == {l \in Lines : /\ status[l] = "downloading"
                                        /\ rate[l] # "unknown"
                                        /\ hasMetrics[l] \/ LineCount = 1}
              wanted  == [l \in Lines |-> IF l \in judged
                                          THEN NextCount(desired[l], rate[l])
                                          ELSE desired[l]]
          IN  /\ desired' = wanted
              /\ SetConnections({l \in Lines : wanted[l] # desired[l]}, wanted)
    /\ UNCHANGED <<at, controlVars, status, waiting, byteVars, pipe, carried, bounds>>

Tick == CheckSchedule \/ Drain \/ PollExit \/ Scale \/ NotDue

\* The restart delay of an engine is over.
RestartElapses(l) ==
    /\ waiting[l]
    /\ waiting' = [waiting EXCEPT ![l] = FALSE]
    /\ UNCHANGED <<tickPc, at, controlVars, status, connections, desired, byteVars,
                   process, pool, outputVars, bounds>>

\* The date changes: record compares it with the day of its first record.
Midnight ==
    /\ \E l \in Lines : lastRx[l] # NoSample /\ ~newDay[l]
    /\ newDay' = [l \in Lines |-> lastRx[l] # NoSample]
    /\ UNCHANGED <<tickPc, at, controlVars, status, waiting, connections, desired,
                   totalVars, lastRx, today, process, pool, outputVars, bounds>>

-----------------------------------------------------------------------------
(* Between ticks: the operator and the clock.                              *)

Operator == /\ tickPc = "schedule"
            /\ switches < MaxSwitches
            /\ switches' = switches + 1

\* The time of day crosses start_time or end_time, or these are changed.
WindowTurns ==
    /\ Operator
    /\ window' = ~window
    /\ UNCHANGED <<tickPc, at, manual, base, status, waiting,
                   connections, desired, byteVars, process, pool, outputVars, faults>>

\* POST /api/start does not look at the window.
ManualStart ==
    /\ Operator
    /\ manual' = TRUE
    /\ UNCHANGED <<total, hasMetrics>>
    /\ IF Running
       THEN UNCHANGED <<process, status, waiting, offset, pool, bytes, pipe, faults>>
       ELSE StartDownloads(base, offset)
    /\ UNCHANGED <<tickPc, at, window, base, connections, desired,
                   trackerVars, carried>>

\* POST /api/stop: set_manual_enabled(False).
ManualStop ==
    /\ Operator
    /\ manual' = FALSE
    /\ StopAll
    /\ UNCHANGED <<tickPc, at, window, base, connections, desired,
                   total, hasMetrics, trackerVars, carried>>

\* update_config without a restart field: the helpers are resized.  (An update that
\* cannot be applied or saved raises before anything has changed.)
UpdateHot(n) ==
    /\ Operator
    /\ base' = n
    /\ desired' = [l \in Lines |-> n]
    /\ SetConnections(Lines, desired')
    /\ UNCHANGED <<tickPc, at, manual, window, status, waiting, byteVars, pipe, carried,
                   faults>>

\* update_config with a restart field: every engine and tracker is a new one.
UpdateRestart(n) ==
    /\ Operator
    /\ base' = n
    /\ desired' = [l \in Lines |-> n]
    /\ connections' = [l \in Lines |-> n]
    /\ total' = [l \in Lines |-> 0]
    /\ hasMetrics' = [l \in Lines |-> FALSE]
    /\ lastRx' = [l \in Lines |-> NoSample]
    /\ today' = [l \in Lines |-> 0]
    /\ newDay' = [l \in Lines |-> FALSE]
    /\ \/ /\ Running /\ Wanted
          /\ Start(Lines, n, total')
       \/ /\ IF Running /\ Wanted
             THEN Spend(1)   \* start_downloads cannot apply the topology
             ELSE UNCHANGED faults
          /\ offset' = total'
          /\ Stopped
    /\ UNCHANGED <<tickPc, at, manual, window, carried>>

-----------------------------------------------------------------------------
(* The helper of a line, as far as its size and its bytes go.              *)

Unattended == UNCHANGED <<tickPc, at, controlVars, status, waiting, connections,
                                   desired, byteVars>>

\* run: the signal handler is installed after the workers were started.
Boot(l) ==
    /\ process[l] = "booting"
    /\ process' = [process EXCEPT ![l] = "running"]
    /\ UNCHANGED <<pool, outputVars, bounds>> /\ Unattended

\* SIGUSR1: one more worker, unless as many are still there.
HandleUp(l) ==
    /\ process[l] = "running" /\ pool[l].ups > 0
    /\ LET target == AtMost(pool[l].target + 1, MaxConnections)
       IN  pool' = [pool EXCEPT ![l].ups = @ - 1, ![l].target = target,
                                ![l].active = AtLeast(@, target)]
    /\ UNCHANGED <<process, outputVars, bounds>> /\ Unattended

\* SIGUSR2: one worker is told to stop.
HandleDown(l) ==
    /\ process[l] = "running" /\ pool[l].downs > 0
    /\ pool' = [pool EXCEPT ![l].downs = @ - 1, ![l].target = AtLeast(@ - 1, 1)]
    /\ UNCHANGED <<process, outputVars, bounds>> /\ Unattended

\* A worker that was told to stop has returned.
WorkerEnds(l) ==
    /\ process[l] = "running" /\ pool[l].active > pool[l].target
    /\ pool' = [pool EXCEPT ![l].active = @ - 1]
    /\ UNCHANGED <<process, outputVars, bounds>> /\ Unattended

Read(l) ==
    /\ Alive(l) /\ carried[l] < MaxBytes
    /\ bytes' = [bytes EXCEPT ![l] = @ + 1]
    /\ carried' = [carried EXCEPT ![l] = @ + 1]
    /\ UNCHANGED <<process, pool, pipe, bounds>> /\ Unattended

\* The status ticker.
EmitStatus(l) ==
    /\ process[l] = "running"
    /\ pipe' = [pipe EXCEPT ![l] = [fresh |-> TRUE, bytes |-> bytes[l],
                                    connections |-> pool[l].active]]
    /\ UNCHANGED <<process, pool, bytes, carried, bounds>> /\ Unattended

Crash(l) ==
    /\ Alive(l)
    /\ Spend(1)
    /\ process' = [process EXCEPT ![l] = "exited"]
    /\ pool' = [pool EXCEPT ![l] = Gone]
    /\ bytes' = [bytes EXCEPT ![l] = 0]
    /\ UNCHANGED <<pipe, carried, switches>> /\ Unattended

Helper(l) == \/ Boot(l) \/ HandleUp(l) \/ HandleDown(l) \/ WorkerEnds(l)
             \/ Read(l) \/ EmitStatus(l) \/ Crash(l)

-----------------------------------------------------------------------------
Init ==
    /\ tickPc = "schedule" /\ at = 1
    /\ manual = TRUE /\ window \in BOOLEAN /\ base \in Bases
    /\ status = [l \in Lines |-> "stopped"]
    /\ waiting = [l \in Lines |-> FALSE]
    /\ connections = [l \in Lines |-> base]
    /\ desired = [l \in Lines |-> base]
    /\ total = [l \in Lines |-> 0] /\ offset = total
    /\ hasMetrics = [l \in Lines |-> FALSE]
    /\ lastRx = [l \in Lines |-> NoSample]
    /\ today = [l \in Lines |-> 0]
    /\ newDay = [l \in Lines |-> FALSE]
    /\ process = [l \in Lines |-> "none"]
    /\ pool = [l \in Lines |-> Gone]
    /\ bytes = [l \in Lines |-> 0] /\ carried = bytes
    /\ pipe = [l \in Lines |-> NoRecord]
    /\ faults = 0 /\ switches = 0

Next ==
    \/ Tick \/ Midnight
    \/ WindowTurns \/ ManualStart \/ ManualStop
    \/ \E n \in Bases : UpdateHot(n) \/ UpdateRestart(n)
    \/ \E l \in Lines : RestartElapses(l) \/ Helper(l)

Spec == Init /\ [][Next]_vars

\* service_actions keeps ticking, and its schedule checks come due; a helper that was
\* started comes up.  Signals do not find a booting helper for ever: scale checks are
\* ten seconds apart, the restart delay doubles.  Faults, midnights and operator
\* actions need not happen.
Fairness ==
    /\ WF_vars(Tick)
    /\ SF_vars(CheckSchedule)
    /\ \A l \in Lines : WF_vars(RestartElapses(l)) /\ SF_vars(Boot(l))

\* The scale checks come due, a helper handles its signals and reports every second.
ScaleFairness ==
    /\ SF_vars(Scale)
    /\ \A l \in Lines : /\ WF_vars(HandleUp(l)) /\ WF_vars(HandleDown(l))
                       /\ WF_vars(WorkerEnds(l)) /\ WF_vars(EmitStatus(l))

FairSpec      == Spec /\ Fairness
FairScaleSpec == FairSpec /\ ScaleFairness

-----------------------------------------------------------------------------
(* Properties.                                                             *)

\* The counters never show bytes that no helper has read, whatever crashes, stops,
\* reconfigurations and midnights fall between the reading of a byte, the record
\* that reports it and the sample that counts it.
BytesNotInvented == \A l \in Lines : total[l] <= carried[l] /\ today[l] <= carried[l]

\* What the console shows as downloaded today grows until midnight, although
\* total_bytes falls when an engine is stopped and started again; only a new
\* tracker, of a reconfiguration, begins with nothing.
TodayNeverFalls ==
    [][\A l \in Lines : today'[l] < today[l] => newDay[l] \/ ~hasMetrics'[l]]_vars

\* Once the switches and the clock rest, the downloads follow them: every line has
\* a helper that is up, or none has one.
SwitchObeyed ==
    /\ <>[]Wanted  => <>[](\A l \in Lines : process[l] = "running")
    /\ <>[]~Wanted => <>[](\A l \in Lines : process[l] = "none")

\* README.md:158: below 90 % of the target a connection is added every time, up to
\* the maximum.  So a line whose rate is always low ends up with all of them.
LowRateGrows ==
    <>[](\A l \in Lines : process[l] = "running")
      => <>[](\A l \in Lines : pool[l].target = MaxConnections)

=============================================================================
