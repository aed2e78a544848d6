------------------------------- MODULE Fleet --------------------------------
(***************************************************************************)
(* FleetController (steam_pumper/fleet.py): which accounts have a running  *)
(* line.  One thread runs tick and the web handlers; the SNMP thread hands *)
(* over what it has read; lines stall, interfaces go down, account lists   *)
(* are replaced and the process restarts in between.                       *)
(*                                                                         *)
(* Durations are in units; a unit is longer than snmp_poll_seconds and     *)
(* engine_status_seconds, so that either may be due at any tick.  Only     *)
(* enabled accounts are modelled.  A port is an address together with the  *)
(* interface that belongs to it.                                           *)
(***************************************************************************)
EXTENDS Integers, Sequences, FiniteSets

CONSTANTS Accounts,       \* account ids
          Ports,          \* bind_ip and snmp_interface
          Inventories,    \* the account lists that are imported: functions to ports
          Slots,          \* the day: how many lines run, one slot after the other
          SchedulePeriod, \* scheduler_tick_seconds
          Rotation,       \* rotation_minutes
          Stall,          \* line_stall_seconds
          SlowWindow,     \* line_slow_window_seconds
          Cooldown        \* line_failure_cooldown_minutes

ASSUME FleetAssumption ==
    /\ IsFiniteSet(Accounts) /\ IsFiniteSet(Ports)
    /\ \A inventory \in Inventories :
          /\ inventory \in [DOMAIN inventory -> Ports]
          /\ DOMAIN inventory \subseteq Accounts
          /\ \A a, b \in DOMAIN inventory : inventory[a] = inventory[b] => a = b
    /\ Slots \in Seq(Nat) /\ Slots # << >>
    /\ SchedulePeriod \in Nat /\ Rotation \in Nat /\ Cooldown \in Nat \ {0}
    /\ Stall \in Nat /\ SlowWindow \in Nat /\ Stall <= SlowWindow

VARIABLES
    slot,          \* the part of the day
    manualEnabled, \* manual_enabled
    savedEnabled,  \* the row manual_enabled of the table meta
    accounts,      \* the table accounts
    active,        \* the running lines: account -> port, age, time without progress
    cooldown,      \* account_cooldowns: what is left of each; 0 without one
    unusable,      \* snmp_quality: accounts that are offline, missing or ambiguous
    up,            \* ports whose interface is up, as the router sees it
    reading,       \* the SNMP thread is alive
    results,       \* snmp_results: what it has read
    sinceSchedule, \* time since last_schedule_at
    granted        \* history: the slot's size when lines were last scheduled

operator == <<manualEnabled, savedEnabled, accounts>>
snmp     == <<unusable, reading, results>>
vars     == <<slot, operator, active, cooldown, snmp, up, sinceSchedule, granted>>

Longest(a, b) == IF a <= b THEN b ELSE a
Oldest        == Longest(Rotation, SlowWindow)
Lines         == [port : Ports, age : 0..Oldest, idle : 0..Stall]
NoAccounts    == [a \in {} |-> 0]

TypeOK ==
    /\ slot \in DOMAIN Slots
    /\ manualEnabled \in BOOLEAN /\ savedEnabled \in BOOLEAN
    /\ accounts \in Inventories \cup {NoAccounts}
    /\ DOMAIN active \subseteq Accounts /\ active \in [DOMAIN active -> Lines]
    /\ cooldown \in [Accounts -> 0..Cooldown]
    /\ unusable \subseteq Accounts /\ up \subseteq Ports
    /\ reading \in BOOLEAN
    /\ results \subseteq SUBSET Ports /\ Cardinality(results) <= 1
    /\ sinceSchedule \in 0..SchedulePeriod
    /\ granted \in {Slots[s] : s \in DOMAIN Slots}

Desired == Slots[slot]

-----------------------------------------------------------------------------
(* The parts of tick.                                                      *)

\* _consume_snmp_result: record_snmp judges every account of the present list.  A read
\* or an accounting that failed leaves the judgement as it was.
Judged(result) == {a \in DOMAIN accounts : accounts[a] \notin result}

Consumed == {unusable} \cup {Judged(result) : result \in results}

\* _line_health_failure: no progress for too long, or too little over a whole window.
Stalled(moving) == {a \in DOMAIN active \ moving : active[a].idle >= Stall}
MaySlow(a)      == active[a].age >= SlowWindow

\* The lines after the poll, and the cooldowns after the ones that failed began.
Polled(moving) ==
    [a \in DOMAIN active |-> [active[a] EXCEPT !.idle = IF a \in moving THEN 0 ELSE @]]

Cooled(failed) == [a \in Accounts |-> IF a \in failed THEN Cooldown ELSE cooldown[a]]

\* The lines without those of some accounts.
Without(lines, stopped) == [a \in DOMAIN lines \ stopped |-> lines[a]]

\* Mutant: cooldowns are forgotten.
EligibleUncooled(bad, cooling) == DOMAIN accounts \ bad

\* The accounts that may have a line.
Eligible(bad, cooling) == {a \in DOMAIN accounts \ bad : cooling[a] = 0}

\* Mutant: lines are replaced until they are old enough.
MatureLines(lines, eligible) == {a \in DOMAIN lines \cap eligible : lines[a].age >= Rotation}

\* Lines that have not run for their minimum time.
YoungLines(lines, eligible) == {a \in DOMAIN lines \cap eligible : lines[a].age < Rotation}

\* What is kept of them: as many as the slot has room for, in the order of their start.
Keep(lines, young, keep) ==
    /\ keep \subseteq young
    /\ Cardinality(keep) = IF Cardinality(young) <= Desired THEN Cardinality(young) ELSE Desired
    /\ \A a \in keep, b \in young \ keep : lines[a].age >= lines[b].age

\* The rest of the slot goes to the first candidates by priority; traffic, debts and
\* allocated times are not modelled, so any may be first.
Pick(keep, candidates, picked) ==
    LET room == Desired - Cardinality(keep)
    IN  /\ picked \subseteq candidates
        /\ Cardinality(picked) =
              IF Cardinality(candidates) <= room THEN Cardinality(candidates) ELSE room

NewLine(a) == [port |-> accounts[a], age |-> 0, idle |-> 0]

\* _schedule, on the lines, judgements and cooldowns that tick has reached.
Schedule(lines, bad, cooling) ==
    /\ sinceSchedule' = 0
    /\ granted' = Desired
    /\ IF ~manualEnabled \/ accounts = NoAccounts
       THEN active' = NoAccounts
       ELSE LET eligible == Eligible(bad, cooling)
            IN  \E keep \in SUBSET Accounts, picked \in SUBSET Accounts :
                   /\ Keep(lines, YoungLines(lines, eligible), keep)
                   /\ Pick(keep, eligible \ keep, picked)
                   /\ active' = [a \in keep \cup picked |->
                                   IF a \in DOMAIN lines THEN lines[a] ELSE NewLine(a)]

\* Mutant: and instead of or.
ScheduleDueIfForced(force) == force /\ sinceSchedule = SchedulePeriod

ScheduleDue(force) == force \/ sinceSchedule = SchedulePeriod

\* What comes after the polls: start the SNMP thread if it is due and not alive, then
\* schedule.
Conclude(lines, bad, cooling, force) ==
    /\ \E snmpDue \in BOOLEAN : reading' = (reading \/ snmpDue)
    /\ unusable' = bad /\ cooldown' = cooling /\ results' = {}
    /\ IF ScheduleDue(force)
       THEN Schedule(lines, bad, cooling)
       ELSE active' = lines /\ UNCHANGED <<sinceSchedule, granted>>
    /\ UNCHANGED <<slot, operator, up>>

\* tick without _poll_engines.
TickOnly ==
    \E bad \in Consumed : Conclude(active, bad, cooldown, results # {})

\* tick with _poll_engines, whose verdict replaces that of _consume_snmp_result.
TickPolling ==
    \E bad \in Consumed, moving \in SUBSET DOMAIN active :
       \E slow \in SUBSET {a \in DOMAIN active : MaySlow(a)} :
          LET failed == Stalled(moving) \cup slow
          IN  Conclude(Without(Polled(moving), failed), bad, Cooled(failed), failed # {})

Tick == TickOnly \/ TickPolling

-----------------------------------------------------------------------------
(* The SNMP thread, the web handlers, restarts, time and the router.       *)

\* Mutant: the thread reads on and on.
CollectOn ==
    /\ reading /\ results' = results \cup {up}
    /\ UNCHANGED <<slot, operator, active, cooldown, unusable, reading, up, sinceSchedule,
                   granted>>

\* read has ended, with the interfaces as they were.
Collect ==
    /\ reading /\ reading' = FALSE
    /\ results' = results \cup {up}
    /\ UNCHANGED <<slot, operator, active, cooldown, unusable, up, sinceSchedule, granted>>

\* set_manual_enabled; when the row cannot be saved, the lines are not stopped either.
SetManualEnabled(enabled) ==
    /\ manualEnabled' = enabled
    /\ \/ /\ savedEnabled' = enabled
          /\ active' = IF enabled THEN active ELSE NoAccounts
       \/ UNCHANGED <<savedEnabled, active>>
    /\ UNCHANGED <<slot, accounts, cooldown, snmp, up, sinceSchedule, granted>>

\* Mutant: lines go on.
ImportRunning(inventory) ==
    /\ accounts' = inventory
    /\ UNCHANGED <<slot, manualEnabled, savedEnabled, active, cooldown, snmp, up,
                   sinceSchedule, granted>>

\* import_accounts_csv; the lines are stopped even when the list cannot be stored.
\* Judgements and cooldowns stay.
Import(inventory) ==
    /\ accounts' \in {accounts, inventory}
    /\ active' = NoAccounts
    /\ UNCHANGED <<slot, manualEnabled, savedEnabled, cooldown, snmp, up, sinceSchedule,
                   granted>>

\* The process ends, lines and thread with it, and starts again.
Restart ==
    /\ manualEnabled' = savedEnabled
    /\ active' = NoAccounts
    /\ cooldown' = [a \in Accounts |-> 0]
    /\ unusable' = {} /\ reading' = FALSE /\ results' = {}
    /\ sinceSchedule' = SchedulePeriod
    /\ UNCHANGED <<slot, savedEnabled, accounts, up, granted>>

Capped(n, bound) == IF n < bound THEN n + 1 ELSE bound

\* A unit of time passes; the slot may end with it.
Elapse ==
    /\ active' = [a \in DOMAIN active |->
                    [active[a] EXCEPT !.age = Capped(@, Oldest), !.idle = Capped(@, Stall)]]
    /\ cooldown' = [a \in Accounts |-> Longest(0, cooldown[a] - 1)]
    /\ sinceSchedule' = Capped(sinceSchedule, SchedulePeriod)
    /\ slot' \in {slot, 1 + (slot % Len(Slots))}
    /\ UNCHANGED <<operator, snmp, up, granted>>

Flap(p) ==
    /\ up' = IF p \in up THEN up \ {p} ELSE up \cup {p}
    /\ UNCHANGED <<slot, operator, active, cooldown, snmp, sinceSchedule, granted>>

-----------------------------------------------------------------------------

Init ==
    /\ slot \in DOMAIN Slots
    /\ manualEnabled \in BOOLEAN /\ savedEnabled = manualEnabled
    /\ accounts = NoAccounts
    /\ active = NoAccounts
    /\ cooldown = [a \in Accounts |-> 0]
    /\ unusable = {} /\ up = Ports
    /\ reading = FALSE /\ results = {}
    /\ sinceSchedule = SchedulePeriod
    /\ granted = Desired

Next ==
    \/ TickOnly
    \/ TickPolling
    \/ Collect
    \/ \E enabled \in BOOLEAN : SetManualEnabled(enabled)
    \/ \E inventory \in Inventories : Import(inventory)
    \/ Restart
    \/ Elapse
    \/ \E p \in Ports : Flap(p)

Spec == Init /\ [][Next]_vars

\* The loop ticks and time passes.
FairSpec == Spec /\ WF_vars(Tick) /\ WF_vars(Elapse)

-----------------------------------------------------------------------------
(* Properties.                                                             *)

\* A line that was found unhealthy stays down for its whole cooldown, whatever is
\* scheduled, imported or reported meanwhile.  Cooldowns are in memory: a restart of the
\* program forgets them.
CooldownIsServed == \A a \in DOMAIN active : cooldown[a] = 0

\* There are never more lines than the slot had room for when they were last scheduled,
\* and every line runs for an account of the present list, at its present port: an import
\* leaves no line of the list before.
LinesAsScheduled ==
    /\ Cardinality(DOMAIN active) <= granted
    /\ \A a \in DOMAIN active : a \in DOMAIN accounts /\ active[a].port = accounts[a]

\* Healthy running lines that have not run for their minimum time, as a tick judges them.
Unripe == {a \in DOMAIN active : /\ active[a].age < Rotation
                                 /\ a \notin unusable' /\ cooldown'[a] = 0}

TickKeepsUnripe ==
    Tick /\ manualEnabled =>
        Cardinality(Unripe \cap DOMAIN active')
            >= IF Cardinality(Unripe) <= Desired THEN Cardinality(Unripe) ELSE Desired

\* Of the healthy lines that have not run for their minimum time, a tick keeps all that
\* the slot has room for, unless the operator has stopped the fleet (README.md: healthy
\* lines keep to 30 minutes).
MinimumRun == [][TickKeepsUnripe]_vars

\* Room that a usable account could take does not stay empty.
Vacant ==
    /\ manualEnabled
    /\ Cardinality(DOMAIN active) < Desired
    /\ \E a \in DOMAIN accounts \ DOMAIN active : a \notin unusable /\ cooldown[a] = 0

SlotIsFilled == Vacant ~> ~Vacant

=============================================================================
