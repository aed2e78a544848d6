--------------------------- MODULE Fleet_proofs ----------------------------
(***************************************************************************)
(* Which lines run, for all accounts, ports, account lists, slots and      *)
(* durations.                                                              *)
(*                                                                         *)
(* A tick works on lines and cooldowns that it has not stored yet.  Ready  *)
(* says of them what the invariants say of active and cooldown; it holds   *)
(* of what the polls hand to Conclude, and Conclude turns it into the      *)
(* invariants of the next state.                                           *)
(***************************************************************************)
EXTENDS Fleet, FiniteSetTheorems, TLAPS

\* The SNMP thread hands over one result, and is started again after it was taken.
OneResult == reading => results = {}

IInv == TypeOK /\ OneResult /\ CooldownIsServed /\ LinesAsScheduled

\* Lines of the present list, none of which is cooling.
Ready(lines, cooling) ==
    /\ DOMAIN lines \subseteq DOMAIN active /\ lines \in [DOMAIN lines -> Lines]
    /\ cooling \in [Accounts -> 0..Cooldown]
    /\ \A a \in DOMAIN lines :
          cooling[a] = 0 /\ a \in DOMAIN accounts /\ lines[a].port = accounts[a]

-----------------------------------------------------------------------------
(* The operators.                                                          *)

LEMMA Bounds ==
    /\ Oldest \in Nat /\ Stall \in Nat /\ Rotation <= Oldest
    /\ Len(Slots) \in Nat \ {0} /\ DOMAIN Slots = 1..Len(Slots)
BY FleetAssumption DEF Oldest, Longest

LEMMA DesiredIsNat == ASSUME TypeOK PROVE Desired \in Nat
BY FleetAssumption, Bounds DEF TypeOK, Desired

\* The slot after the last one is the first one.
LEMMA NextSlot ==
    ASSUME NEW s \in DOMAIN Slots
    PROVE  1 + (s % Len(Slots)) \in DOMAIN Slots
BY Bounds

LEMMA CappedInRange ==
    ASSUME NEW bound \in Nat, NEW n \in 0..bound
    PROVE  Capped(n, bound) \in 0..bound
BY DEF Capped

LEMMA CoolerInRange ==
    ASSUME NEW n \in 0..Cooldown
    PROVE  /\ Longest(0, n - 1) \in 0..Cooldown
           /\ n = 0 => Longest(0, n - 1) = 0
BY FleetAssumption DEF Longest

LEMMA NoLines ==
    /\ DOMAIN NoAccounts = {} /\ NoAccounts \in [{} -> Lines]
    /\ Cardinality({}) = 0
BY FS_EmptySet DEF NoAccounts

\* A list of accounts, the one before the first import included.
LEMMA ListType ==
    ASSUME TypeOK
    PROVE  /\ DOMAIN accounts \subseteq Accounts
           /\ \A a \in DOMAIN accounts : accounts[a] \in Ports
BY FleetAssumption, NoLines DEF TypeOK

\* What runs is finite, and so is every part of it.
LEMMA SubsetsOfAccounts ==
    ASSUME NEW S \in SUBSET Accounts, NEW T \in SUBSET S
    PROVE  /\ IsFiniteSet(S) /\ IsFiniteSet(T)
           /\ Cardinality(S) \in Nat /\ Cardinality(T) \in Nat
           /\ Cardinality(T) <= Cardinality(S)
<1>1. IsFiniteSet(S)
  BY FleetAssumption, FS_Subset
<1>2. IsFiniteSet(T) /\ Cardinality(T) <= Cardinality(S)
  BY <1>1, FS_Subset
<1> QED
  BY <1>1, <1>2, FS_CardinalityType

\* What is kept and what is picked fit into the slot together.
LEMMA KeptAndPickedFit ==
    ASSUME TypeOK, NEW lines, NEW young \in SUBSET Accounts,
           NEW candidates \in SUBSET Accounts, NEW keep, NEW picked,
           Keep(lines, young, keep), Pick(keep, candidates, picked)
    PROVE  Cardinality(keep \cup picked) <= Desired
<1>1. keep \in SUBSET young /\ picked \in SUBSET candidates
  BY DEF Keep, Pick
<1>2. IsFiniteSet(keep) /\ Cardinality(keep) \in Nat
  BY <1>1, SubsetsOfAccounts
<1>3. IsFiniteSet(picked) /\ Cardinality(picked) \in Nat
  BY <1>1, SubsetsOfAccounts
<1>4. /\ Cardinality(young) \in Nat /\ Cardinality(candidates) \in Nat
      /\ Desired \in Nat
  BY SubsetsOfAccounts, DesiredIsNat
<1>5. Cardinality(keep) + Cardinality(picked) <= Desired
  BY <1>2, <1>3, <1>4 DEF Keep, Pick
<1>6. Cardinality(keep \cap picked) \in Nat
  BY <1>2, FS_Intersection, FS_CardinalityType
<1>7. Cardinality(keep \cup picked)
        = Cardinality(keep) + Cardinality(picked) - Cardinality(keep \cap picked)
  BY <1>2, <1>3, FS_Union
<1> QED
  BY <1>2, <1>3, <1>4, <1>5, <1>6, <1>7

-----------------------------------------------------------------------------
(* The parts of tick.                                                      *)

\* The lines and cooldowns that a tick starts from.
LEMMA ActiveIsReady == ASSUME IInv PROVE Ready(active, cooldown)
BY DEF IInv, Ready, TypeOK, CooldownIsServed, LinesAsScheduled

LEMMA ConsumedType ==
    ASSUME TypeOK, NEW bad \in Consumed
    PROVE  bad \subseteq Accounts
BY ListType DEF Consumed, Judged, TypeOK

LEMMA StartLine ==
    ASSUME TypeOK, NEW a \in DOMAIN accounts
    PROVE  NewLine(a) \in Lines /\ NewLine(a).port = accounts[a]
BY Bounds, ListType DEF NewLine, Lines

\* _schedule leaves what the invariants ask for.
LEMMA ScheduleReady ==
    ASSUME TypeOK, NEW lines, NEW bad \in SUBSET Accounts, NEW cooling,
           Ready(lines, cooling), Schedule(lines, bad, cooling)
    PROVE  /\ DOMAIN active' \subseteq Accounts /\ active' \in [DOMAIN active' -> Lines]
           /\ Cardinality(DOMAIN active') <= Desired
           /\ \A a \in DOMAIN active' :
                 cooling[a] = 0 /\ a \in DOMAIN accounts /\ active'[a].port = accounts[a]
<1>1. CASE ~manualEnabled \/ accounts = NoAccounts
  <2>1. active' = NoAccounts
    BY <1>1 DEF Schedule
  <2> QED
    BY <2>1, NoLines, DesiredIsNat
<1>2. CASE ~(~manualEnabled \/ accounts = NoAccounts)
  <2> DEFINE eligible == Eligible(bad, cooling)
             young == YoungLines(lines, eligible)
  <2>1. PICK keep \in SUBSET Accounts, picked \in SUBSET Accounts :
           /\ Keep(lines, young, keep)
           /\ Pick(keep, eligible \ keep, picked)
           /\ active' = [a \in keep \cup picked |->
                           IF a \in DOMAIN lines THEN lines[a] ELSE NewLine(a)]
    BY <1>2 DEF Schedule
  <2>2. /\ eligible \subseteq DOMAIN accounts /\ eligible \subseteq Accounts
        /\ \A a \in eligible : cooling[a] = 0
    BY ListType DEF Eligible
  <2>3. young \in SUBSET Accounts /\ young \subseteq eligible
    BY <2>2 DEF YoungLines
  <2>4. keep \subseteq eligible /\ picked \subseteq eligible
    BY <2>1, <2>3 DEF Keep, Pick
  <2>5. Cardinality(keep \cup picked) <= Desired
    <3>1. eligible \ keep \in SUBSET Accounts
      BY <2>2
    <3> QED
      BY <3>1, <2>1, <2>3, KeptAndPickedFit
  <2>6. DOMAIN active' = keep \cup picked
    BY <2>1
  <2>7. ASSUME NEW a \in DOMAIN active'
        PROVE  /\ cooling[a] = 0 /\ a \in DOMAIN accounts
               /\ active'[a] \in Lines /\ active'[a].port = accounts[a]
    <3>1. a \in eligible /\ a \in DOMAIN accounts /\ cooling[a] = 0
      BY <2>7, <2>2, <2>4, <2>6
    <3>2. CASE a \in DOMAIN lines
      BY <3>1, <3>2, <2>1, <2>6, <2>7 DEF Ready
    <3>3. CASE a \notin DOMAIN lines
      BY <3>1, <3>3, <2>1, <2>6, <2>7, StartLine
    <3> QED
      BY <3>1, <3>2, <3>3
  <2>8. active' \in [DOMAIN active' -> Lines]
    BY <2>1, <2>7
  <2> QED
    BY <2>2, <2>4, <2>5, <2>6, <2>7, <2>8
<1> QED
  BY <1>1, <1>2

\* So does the end of a tick, whether it schedules or not.
LEMMA ConcludeKeepsIInv ==
    ASSUME IInv, NEW lines, NEW bad \in SUBSET Accounts, NEW cooling, NEW force,
           Ready(lines, cooling), Conclude(lines, bad, cooling, force)
    PROVE  IInv'
<1> USE DEF IInv
<1>1. /\ reading' \in BOOLEAN /\ results' = {} /\ unusable' = bad /\ cooldown' = cooling
      /\ slot' = slot /\ manualEnabled' = manualEnabled /\ savedEnabled' = savedEnabled
      /\ accounts' = accounts /\ up' = up
  BY DEF Conclude, operator, TypeOK
<1>2. Cardinality(results') <= 1 /\ results' \subseteq SUBSET Ports
  BY <1>1, NoLines
<1>3. /\ DOMAIN active' \subseteq Accounts /\ active' \in [DOMAIN active' -> Lines]
      /\ Cardinality(DOMAIN active') <= granted' /\ sinceSchedule' \in 0..SchedulePeriod
      /\ granted' \in {Slots[s] : s \in DOMAIN Slots}
      /\ \A a \in DOMAIN active' :
            cooling[a] = 0 /\ a \in DOMAIN accounts /\ active'[a].port = accounts[a]
  <2>1. CASE ScheduleDue(force)
    <3>1. Schedule(lines, bad, cooling)
      BY <2>1 DEF Conclude
    <3>2. sinceSchedule' = 0 /\ granted' = Desired
      BY <3>1 DEF Schedule
    <3>3. Desired \in {Slots[s] : s \in DOMAIN Slots}
      BY DEF TypeOK, Desired
    <3>4. /\ DOMAIN active' \subseteq Accounts /\ active' \in [DOMAIN active' -> Lines]
          /\ Cardinality(DOMAIN active') <= Desired
          /\ \A a \in DOMAIN active' :
                cooling[a] = 0 /\ a \in DOMAIN accounts /\ active'[a].port = accounts[a]
      BY <3>1, ScheduleReady
    <3>5. sinceSchedule' \in 0..SchedulePeriod
      BY <3>2, FleetAssumption
    <3> QED
      BY <3>2, <3>3, <3>4, <3>5
  <2>2. CASE ~ScheduleDue(force)
    <3>1. active' = lines /\ sinceSchedule' = sinceSchedule /\ granted' = granted
      BY <2>2 DEF Conclude
    <3>2. Cardinality(DOMAIN lines) <= Cardinality(DOMAIN active)
      BY SubsetsOfAccounts DEF Ready, TypeOK
    <3>3. /\ Cardinality(DOMAIN lines) \in Nat /\ Cardinality(DOMAIN active) \in Nat
          /\ granted \in Nat
      BY SubsetsOfAccounts, FleetAssumption, Bounds DEF Ready, TypeOK
    <3> QED
      BY <3>1, <3>2, <3>3 DEF Ready, TypeOK, LinesAsScheduled
  <2> QED
    BY <2>1, <2>2
<1> QED
  BY <1>1, <1>2, <1>3 DEF TypeOK, OneResult, CooldownIsServed, LinesAsScheduled, Ready

\* What _poll_engines leaves: the lines that failed are gone, and only they start to cool.
LEMMA PolledIsReady ==
    ASSUME IInv, NEW moving \in SUBSET DOMAIN active, NEW failed
    PROVE  Ready(Without(Polled(moving), failed), Cooled(failed))
<1> DEFINE polled  == Polled(moving)
           cooling == Cooled(failed)
           lines   == Without(polled, failed)
<1> USE DEF Polled, Cooled
<1>1. lines = [a \in DOMAIN active \ failed |-> polled[a]]
  BY DEF Without
<1>2. ASSUME NEW a \in DOMAIN lines
      PROVE  /\ lines[a] \in Lines /\ lines[a].port = active[a].port
             /\ cooling[a] = 0 /\ a \in DOMAIN accounts /\ active[a].port = accounts[a]
  <2>1. a \in DOMAIN active /\ a \notin failed /\ a \in Accounts
    BY <1>1, <1>2 DEF IInv, TypeOK
  <2>2. active[a] \in Lines
    BY <2>1 DEF IInv, TypeOK
  <2>3. lines[a] = [active[a] EXCEPT !.idle = IF a \in moving THEN 0 ELSE @]
    BY <1>1, <2>1
  <2>4. lines[a] \in Lines /\ lines[a].port = active[a].port
    BY <2>2, <2>3, Bounds DEF Lines
  <2>5. cooling[a] = cooldown[a]
    BY <2>1
  <2> QED
    BY <2>1, <2>4, <2>5 DEF IInv, CooldownIsServed, LinesAsScheduled
<1>3. cooling \in [Accounts -> 0..Cooldown]
  BY FleetAssumption DEF IInv, TypeOK
<1> QED
  BY <1>1, <1>2, <1>3 DEF Ready

-----------------------------------------------------------------------------
(* The invariant.                                                          *)

LEMMA InitEstablishesIInv == Init => IInv
<1> SUFFICES ASSUME Init PROVE IInv
  OBVIOUS
<1>1. Desired \in {Slots[s] : s \in DOMAIN Slots} /\ Desired \in Nat
  BY FleetAssumption, Bounds DEF Init, Desired
<1>2. active \in [DOMAIN active -> Lines] /\ DOMAIN active \subseteq Accounts
  BY NoLines DEF Init
<1>3. results \subseteq SUBSET Ports /\ Cardinality(results) <= 1
  BY NoLines DEF Init
<1>4. cooldown \in [Accounts -> 0..Cooldown] /\ sinceSchedule \in 0..SchedulePeriod
  BY FleetAssumption DEF Init
<1>5. TypeOK
  BY <1>1, <1>2, <1>3, <1>4 DEF Init, TypeOK
<1> QED
  BY <1>1, <1>5, NoLines DEF Init, IInv, OneResult, CooldownIsServed, LinesAsScheduled

LEMMA TickOnlyKeepsIInv == ASSUME IInv, TickOnly PROVE IInv'
<1>1. PICK bad \in Consumed : Conclude(active, bad, cooldown, results # {})
  BY DEF TickOnly
<1>2. bad \in SUBSET Accounts
  BY <1>1, ConsumedType DEF IInv
<1> QED
  BY <1>1, <1>2, ActiveIsReady, ConcludeKeepsIInv

LEMMA TickPollingKeepsIInv == ASSUME IInv, TickPolling PROVE IInv'
<1>1. PICK bad \in Consumed, moving \in SUBSET DOMAIN active,
           slow \in SUBSET {a \in DOMAIN active : MaySlow(a)} :
         Conclude(Without(Polled(moving), Stalled(moving) \cup slow), bad,
                  Cooled(Stalled(moving) \cup slow), (Stalled(moving) \cup slow) # {})
  BY DEF TickPolling
<1>2. bad \in SUBSET Accounts
  BY <1>1, ConsumedType DEF IInv
<1> QED
  BY <1>1, <1>2, PolledIsReady, ConcludeKeepsIInv

LEMMA CollectKeepsIInv == ASSUME IInv, Collect PROVE IInv'
<1> USE DEF IInv, Collect, operator
<1>1. results' = {up}
  BY DEF OneResult
<1>2. Cardinality(results') <= 1 /\ results' \subseteq SUBSET Ports
  <2>1. Cardinality(results') = 1
    BY <1>1, FS_Singleton
  <2>2. up \subseteq Ports
    BY DEF TypeOK
  <2> QED
    BY <1>1, <2>1, <2>2
<1>3. UNCHANGED <<accounts, active, cooldown, granted>>
  OBVIOUS
<1> QED
  BY <1>2, <1>3 DEF TypeOK, OneResult, CooldownIsServed, LinesAsScheduled

\* Where all lines are stopped.
LEMMA StoppedIsSound ==
    ASSUME IInv, active' = NoAccounts, granted' = granted
    PROVE  /\ DOMAIN active' \subseteq Accounts /\ active' \in [DOMAIN active' -> Lines]
           /\ CooldownIsServed' /\ LinesAsScheduled'
<1>1. granted \in Nat
  BY FleetAssumption, Bounds DEF IInv, TypeOK
<1> QED
  BY <1>1, NoLines DEF CooldownIsServed, LinesAsScheduled

LEMMA SetManualEnabledKeepsIInv ==
    ASSUME IInv, NEW enabled \in BOOLEAN, SetManualEnabled(enabled)
    PROVE  IInv'
<1> USE DEF IInv, SetManualEnabled, snmp
<1>1. CASE active' = active
  BY <1>1 DEF TypeOK, OneResult, CooldownIsServed, LinesAsScheduled
<1>2. CASE active' = NoAccounts
  BY <1>2, StoppedIsSound DEF TypeOK, OneResult
<1> QED
  BY <1>1, <1>2

LEMMA ImportKeepsIInv ==
    ASSUME IInv, NEW inventory \in Inventories, Import(inventory)
    PROVE  IInv'
BY StoppedIsSound DEF IInv, Import, snmp, TypeOK, OneResult

LEMMA RestartKeepsIInv == ASSUME IInv, Restart PROVE IInv'
<1> USE DEF IInv, Restart
<1>1. cooldown' \in [Accounts -> 0..Cooldown]
  BY FleetAssumption
<1>2. results' \subseteq SUBSET Ports /\ Cardinality(results') <= 1
  BY NoLines
<1>3. sinceSchedule' \in 0..SchedulePeriod
  BY FleetAssumption
<1> QED
  BY <1>1, <1>2, <1>3, StoppedIsSound DEF TypeOK, OneResult

LEMMA ElapseKeepsIInv == ASSUME IInv, Elapse PROVE IInv'
<1> USE DEF IInv, Elapse, operator, snmp
<1>1. DOMAIN active' = DOMAIN active
  OBVIOUS
<1>2. ASSUME NEW a \in DOMAIN active
      PROVE  active'[a] \in Lines /\ active'[a].port = active[a].port
  <2>1. active[a] \in Lines
    BY <1>2 DEF TypeOK
  <2>2. active'[a] = [active[a] EXCEPT !.age = Capped(@, Oldest), !.idle = Capped(@, Stall)]
    BY <1>2
  <2>3. Capped(active[a].age, Oldest) \in 0..Oldest /\ Capped(active[a].idle, Stall) \in 0..Stall
    BY <2>1, Bounds, CappedInRange DEF Lines
  <2> QED
    BY <2>1, <2>2, <2>3 DEF Lines
<1>3. ASSUME NEW a \in Accounts
      PROVE  cooldown'[a] \in 0..Cooldown /\ (cooldown[a] = 0 => cooldown'[a] = 0)
  <2>1. cooldown[a] \in 0..Cooldown
    BY <1>3 DEF TypeOK
  <2>2. cooldown'[a] = Longest(0, cooldown[a] - 1)
    BY <1>3
  <2> QED
    BY <2>1, <2>2, CoolerInRange
<1>4. slot' \in DOMAIN Slots
  BY NextSlot DEF TypeOK
<1>5. sinceSchedule' \in 0..SchedulePeriod
  BY FleetAssumption, CappedInRange DEF TypeOK
<1>6. active' \in [DOMAIN active' -> Lines] /\ cooldown' \in [Accounts -> 0..Cooldown]
  BY <1>1, <1>2, <1>3
<1>7. CooldownIsServed' /\ LinesAsScheduled'
  BY <1>1, <1>2, <1>3 DEF CooldownIsServed, LinesAsScheduled, TypeOK
<1> QED
  BY <1>1, <1>4, <1>5, <1>6, <1>7 DEF TypeOK, OneResult

LEMMA FlapKeepsIInv == ASSUME IInv, NEW p \in Ports, Flap(p) PROVE IInv'
<1> USE DEF IInv, Flap, operator, snmp
<1>1. up' \subseteq Ports
  BY DEF TypeOK
<1> QED
  BY <1>1 DEF TypeOK, OneResult, CooldownIsServed, LinesAsScheduled

\* Every step keeps the invariant.
LEMMA StepKeepsIInv == ASSUME IInv, [Next]_vars PROVE IInv'
<1>1. CASE TickOnly
  BY <1>1, TickOnlyKeepsIInv
<1>2. CASE TickPolling
  BY <1>2, TickPollingKeepsIInv
<1>3. CASE Collect
  BY <1>3, CollectKeepsIInv
<1>4. ASSUME NEW enabled \in BOOLEAN, SetManualEnabled(enabled) PROVE IInv'
  BY <1>4, SetManualEnabledKeepsIInv
<1>5. ASSUME NEW inventory \in Inventories, Import(inventory) PROVE IInv'
  BY <1>5, ImportKeepsIInv
<1>6. CASE Restart
  BY <1>6, RestartKeepsIInv
<1>7. CASE Elapse
  BY <1>7, ElapseKeepsIInv
<1>8. ASSUME NEW p \in Ports, Flap(p) PROVE IInv'
  BY <1>8, FlapKeepsIInv
<1>9. CASE UNCHANGED vars
  BY <1>9 DEF vars, operator, snmp, IInv, TypeOK, OneResult, CooldownIsServed,
              LinesAsScheduled
<1> QED
  BY <1>1, <1>2, <1>3, <1>4, <1>5, <1>6, <1>7, <1>8, <1>9 DEF Next

LEMMA Invariance == Spec => []IInv
<1>1. Init => IInv
  BY InitEstablishesIInv
<1>2. IInv /\ [Next]_vars => IInv'
  BY StepKeepsIInv
<1> QED
  BY <1>1, <1>2, PTL DEF Spec

\* Every variable keeps its type (fleet.py, FleetController and FleetStore).
THEOREM TypeCorrect == Spec => []TypeOK
<1>1. IInv => TypeOK
  BY DEF IInv
<1> QED
  BY <1>1, Invariance, PTL

\* No line runs for an account that is cooling (fleet.py, _poll_engines and _schedule),
\* whatever is scheduled, imported or reported in between, and whatever engine restarts.
THEOREM CooldownServed == Spec => []CooldownIsServed
<1>1. IInv => CooldownIsServed
  BY DEF IInv
<1> QED
  BY <1>1, Invariance, PTL

\* The lines fit into the slot they were scheduled for and run for accounts of the
\* present list at their present ports (fleet.py, _schedule and import_accounts_csv).
THEOREM ScheduledLines == Spec => []LinesAsScheduled
<1>1. IInv => LinesAsScheduled
  BY DEF IInv
<1> QED
  BY <1>1, Invariance, PTL

-----------------------------------------------------------------------------
(* The minimum time of a line.                                             *)

Fewer(m, n) == IF m <= n THEN m ELSE n

\* _schedule keeps the young lines that it has room for.
LEMMA ScheduleKeepsYoung ==
    ASSUME TypeOK, manualEnabled, NEW lines, NEW bad \in SUBSET Accounts, NEW cooling,
           Ready(lines, cooling), Schedule(lines, bad, cooling)
    PROVE  LET young == YoungLines(lines, Eligible(bad, cooling))
           IN  Cardinality(young \cap DOMAIN active') >= Fewer(Cardinality(young), Desired)
<1> DEFINE eligible == Eligible(bad, cooling)
           young == YoungLines(lines, eligible)
<1>1. young \in SUBSET Accounts
  BY ListType DEF YoungLines, Eligible
<1>2. Cardinality(young) \in Nat /\ Desired \in Nat
  BY <1>1, SubsetsOfAccounts, DesiredIsNat
<1>3. CASE accounts = NoAccounts
  <2>1. DOMAIN lines = {}
    BY <1>3, NoLines DEF Ready
  <2>2. young = {} /\ young \cap DOMAIN active' = {}
    BY <2>1 DEF YoungLines
  <2> QED
    BY <1>2, <2>2, NoLines DEF Fewer
<1>4. CASE accounts # NoAccounts
  <2>1. PICK keep \in SUBSET Accounts, picked \in SUBSET Accounts :
           /\ Keep(lines, young, keep)
           /\ active' = [a \in keep \cup picked |->
                           IF a \in DOMAIN lines THEN lines[a] ELSE NewLine(a)]
    BY <1>4 DEF Schedule
  <2>2. keep \subseteq young /\ Cardinality(keep) = Fewer(Cardinality(young), Desired)
    BY <2>1 DEF Keep, Fewer
  <2>3. keep \subseteq young \cap DOMAIN active'
    BY <2>1, <2>2
  <2>4. /\ Cardinality(keep) <= Cardinality(young \cap DOMAIN active')
        /\ Cardinality(keep) \in Nat /\ Cardinality(young \cap DOMAIN active') \in Nat
    <3>1. young \cap DOMAIN active' \in SUBSET Accounts
      BY <1>1
    <3> QED
      BY <2>3, <3>1, SubsetsOfAccounts
  <2> HIDE DEF young
  <2>5. Cardinality(young \cap DOMAIN active') >= Fewer(Cardinality(young), Desired)
    BY <1>2, <2>2, <2>4 DEF Fewer
  <2> QED
    BY <2>5 DEF young
<1> QED
  BY <1>3, <1>4

\* So does a tick that ends on lines among which are all the unripe ones.
LEMMA ConcludeKeepsUnripe ==
    ASSUME IInv, manualEnabled, NEW lines, NEW bad \in SUBSET Accounts, NEW cooling,
           NEW force, Ready(lines, cooling), Conclude(lines, bad, cooling, force),
           Unripe = {a \in DOMAIN lines : /\ lines[a].age < Rotation
                                          /\ a \notin bad /\ cooling[a] = 0}
    PROVE  Cardinality(Unripe \cap DOMAIN active') >= Fewer(Cardinality(Unripe), Desired)
<1>1. CASE ScheduleDue(force)
  <2>1. Schedule(lines, bad, cooling)
    BY <1>1 DEF Conclude
  <2>2. Unripe = YoungLines(lines, Eligible(bad, cooling))
    BY DEF YoungLines, Eligible, Ready
  <2> QED
    BY <2>1, <2>2, ScheduleKeepsYoung DEF IInv
<1>2. CASE ~ScheduleDue(force)
  <2>1. active' = lines
    BY <1>2 DEF Conclude
  <2>2. Unripe \cap DOMAIN active' = Unripe
    BY <2>1
  <2>3. Unripe \in SUBSET Accounts
    BY DEF Unripe, IInv, TypeOK
  <2>4. Cardinality(Unripe) \in Nat /\ Desired \in Nat
    BY <2>3, SubsetsOfAccounts, DesiredIsNat DEF IInv
  <2> QED
    BY <2>2, <2>4 DEF Fewer
<1> QED
  BY <1>1, <1>2

LEMMA TickKeeps == ASSUME IInv PROVE TickKeepsUnripe
<1> SUFFICES ASSUME Tick, manualEnabled
             PROVE  Cardinality(Unripe \cap DOMAIN active')
                       >= Fewer(Cardinality(Unripe), Desired)
  BY DEF TickKeepsUnripe, Fewer
<1>1. CASE TickOnly
  <2>1. PICK bad \in Consumed : Conclude(active, bad, cooldown, results # {})
    BY <1>1 DEF TickOnly
  <2>2. bad \in SUBSET Accounts
    BY <2>1, ConsumedType DEF IInv
  <2>3. unusable' = bad /\ cooldown' = cooldown
    BY <2>1 DEF Conclude
  <2>4. Unripe = {a \in DOMAIN active : /\ active[a].age < Rotation
                                        /\ a \notin bad /\ cooldown[a] = 0}
    BY <2>3 DEF Unripe
  <2> QED
    BY <2>1, <2>2, <2>4, ActiveIsReady, ConcludeKeepsUnripe
<1>2. CASE TickPolling
  <2>1. PICK bad \in Consumed, moving \in SUBSET DOMAIN active,
             slow \in SUBSET {a \in DOMAIN active : MaySlow(a)} :
           Conclude(Without(Polled(moving), Stalled(moving) \cup slow), bad,
                    Cooled(Stalled(moving) \cup slow), (Stalled(moving) \cup slow) # {})
    BY <1>2 DEF TickPolling
  <2> DEFINE failed == Stalled(moving) \cup slow
             lines == Without(Polled(moving), failed)
  <2>2. bad \in SUBSET Accounts
    BY <2>1, ConsumedType DEF IInv
  <2>3. unusable' = bad /\ cooldown' = Cooled(failed)
    BY <2>1 DEF Conclude
  <2>4. ASSUME NEW a \in DOMAIN active
        PROVE  /\ Cooled(failed)[a] = 0 => a \notin failed
               /\ a \notin failed => lines[a].age = active[a].age
    <3>1. Cooled(failed)[a] = IF a \in failed THEN Cooldown ELSE cooldown[a]
      BY <2>4 DEF Cooled, IInv, TypeOK
    <3>2. Cooldown # 0
      BY FleetAssumption
    <3>3. active[a] \in Lines
      BY <2>4 DEF IInv, TypeOK
    <3>4. a \notin failed =>
            lines[a] = [active[a] EXCEPT !.idle = IF a \in moving THEN 0 ELSE @]
      BY <2>4 DEF Without, Polled
    <3> HIDE DEF failed, lines
    <3> QED
      BY <3>1, <3>2, <3>3, <3>4 DEF Lines
  <2>5. DOMAIN lines = DOMAIN active \ failed
    BY DEF Without, Polled
  <2>6. Ready(lines, Cooled(failed))
    BY PolledIsReady
  <2> HIDE DEF failed, lines
  <2>7. Unripe = {a \in DOMAIN lines : /\ lines[a].age < Rotation
                                       /\ a \notin bad /\ Cooled(failed)[a] = 0}
    BY <2>3, <2>4, <2>5 DEF Unripe
  <2> USE DEF failed, lines
  <2>8. Conclude(lines, bad, Cooled(failed), failed # {})
    BY <2>1
  <2> HIDE DEF failed, lines
  <2> QED
    BY <2>2, <2>6, <2>7, <2>8, ConcludeKeepsUnripe
<1> QED
  BY <1>1, <1>2 DEF Tick

\* A tick keeps of the healthy young lines all that the slot has room for (fleet.py,
\* _schedule), whatever the polls found before it scheduled.
THEOREM MinimumRunHolds == Spec => MinimumRun
<1>1. IInv => TickKeepsUnripe
  BY TickKeeps
<1>2. IInv /\ [Next]_vars => [TickKeepsUnripe]_vars
  BY <1>1
<1> QED
  BY <1>2, Invariance, PTL DEF Spec, MinimumRun

=============================================================================
