----------------------------- MODULE FleetStore -----------------------------
(***************************************************************************)
(* The accounting of one account: FleetStore.record_snmp and the tables    *)
(* cursors and traffic (steam_pumper/fleet.py), against the counters of a  *)
(* router whose interfaces reconnect, restart, vanish from an answer or    *)
(* appear twice, and with a clock that may be set back.                    *)
(*                                                                         *)
(* record_snmp treats every account by itself and every sample is one      *)
(* transaction, so one account is enough.  Both directions are accounted   *)
(* alike; one is modelled, without the business hours of the uploads.      *)
(* Times and durations are in units; a minute has MinuteLength of them.    *)
(***************************************************************************)
EXTENDS Integers, FiniteSets, Functions

CONSTANTS Interfaces,   \* indexes of the interfaces that carry the account's name
          MinuteLength, \* 60 seconds
          RateTime,     \* what _recent_measured_rate looks back over: 30 minutes
          EstimateTime, \* the longest gap that is estimated: 30 minutes
          KeptTime,     \* what _prune keeps: rolling_days and one day more
          Ceiling,      \* bytes in a unit that pass for true (download_ceiling_mbps)
          MaxOctets,    \* bound: the counters
          MaxTime,      \* bound: the clock
          MaxEvents     \* bound: events of the router, changes of list and clock

ASSUME FleetStoreAssumption ==
    /\ Interfaces \subseteq Nat \ {0} /\ Interfaces # {}
    /\ MinuteLength \in Nat \ {0} /\ RateTime \in Nat /\ EstimateTime \in Nat
    /\ KeptTime \in Nat /\ Ceiling \in Nat
    /\ MaxOctets \in Nat \ {0} /\ MaxTime \in Nat /\ MaxEvents \in Nat

VARIABLES
    now,        \* the clock of the host
    port,       \* per interface: ifOperStatus (or "absent"), counter, discontinuity mark
    booted,     \* when the router started: sysUpTime counts from here
    listed,     \* the account is in the table accounts
    cursor,     \* its row of cursors
    traffic,    \* its rows of traffic, by minute
    real,       \* history: the time that has passed
    carried,    \* history: bytes carried since the first baseline
    reading,    \* history: where, when and at what count the account's interface was last
                \* read, while it counts on by itself
    events      \* events so far

router  == <<port, booted>>
tables  == <<cursor, traffic>>
clocks  == <<now, real>>
history == <<carried, reading>>
vars    == <<clocks, router, listed, tables, history, events>>

None     == -1
Times    == 0..MaxTime
Minute(t) == t \div MinuteLength
Minutes  == 0..Minute(MaxTime)

EmptyRow == [measured |-> 0, estimated |-> 0, unknown |-> 0, sampled |-> 0]
Fields   == DOMAIN EmptyRow

\* No row at all, and a row without a counter, have index None.  missing_since and
\* oper_status are only shown.
NoCursor == [index |-> None, octets |-> None, discontinuity |-> None, uptime |-> None,
             sampledAt |-> None, baselineAt |-> None, valid |-> FALSE]

NoReading == [line |-> None, at |-> None, bytes |-> None]

TypeOK ==
    /\ now \in Times /\ real \in now..MaxTime
    /\ port \in [Interfaces -> [state : {"absent", "down", "up"}, octets : 0..MaxOctets,
                                discontinuity : 0..MaxEvents]]
    /\ booted \in Times /\ listed \in BOOLEAN
    /\ cursor \in [index : Interfaces \cup {None}, octets : 0..MaxOctets \cup {None},
                   discontinuity : 0..MaxEvents \cup {None}, uptime : Times \cup {None},
                   sampledAt : Times \cup {None}, baselineAt : Times \cup {None},
                   valid : BOOLEAN]
    /\ traffic \in [Minutes -> [Fields -> Nat]]
    /\ carried \in Nat \cup {None} /\ events \in 0..MaxEvents
    /\ reading \in [line : Interfaces, at : Times, bytes : Nat] \cup {NoReading}

Total(field) == SumFunctionOnSet([m \in Minutes |-> traffic[m][field]], Minutes)
TotalIn(field, span) == SumFunctionOnSet([m \in Minutes |-> traffic[m][field]], span \cap Minutes)
Least(a, b) == IF a <= b THEN a ELSE b
Most(a, b)  == IF a <= b THEN b ELSE a

-----------------------------------------------------------------------------
(* The rows of traffic.                                                    *)

\* The part of the interval from start to end that lies in minute m.
Segment(m, start, end) ==
    Least(end, (m + 1) * MinuteLength) - Most(start, m * MinuteLength)

\* What _add_interval_traffic gives to minute m: in proportion, rounded down; the last
\* minute has the rest.
Share(amount, m, start, end) ==
    LET floor(n) == (amount * Segment(n, start, end)) \div (end - start)
        last     == Minute(end - 1)
        earlier  == Minute(start)..(last - 1)
    IN  IF m = last
        THEN amount - SumFunctionOnSet([n \in earlier |-> floor(n)], earlier)
        ELSE floor(m)

\* rows with the amounts booked on the minutes from start to end; _add_traffic takes a
\* negative amount for none.
Booked(rows, start, end, amounts) ==
    [m \in Minutes |->
        IF start < end /\ m \in Minute(start)..Minute(end - 1)
        THEN [f \in Fields |-> rows[m][f] + Most(0, Share(amounts[f], m, start, end))]
        ELSE rows[m]]

\* Mutant: what was booked as unknown stays.
Uncleared(rows, start, end) == rows

\* _clear_pending_unknown: whole minutes, both ends included.
Cleared(rows, start, end) ==
    [m \in Minutes |-> IF m \in Minute(start)..Minute(end)
                       THEN [rows[m] EXCEPT !.unknown = 0]
                       ELSE rows[m]]

Pruned(rows) == [m \in Minutes |-> IF m < Minute(now - KeptTime) THEN EmptyRow ELSE rows[m]]

\* The rate of the samples before a gap, times its length; None without samples.
Estimate(start, end) ==
    LET span    == Minute(start - RateTime)..Minute(start)
        seconds == TotalIn("sampled", span)
    IN  IF seconds = 0
        THEN None
        ELSE (TotalIn("measured", span) * Least(end - start, EstimateTime)) \div seconds

-----------------------------------------------------------------------------
(* record_snmp.                                                            *)

\* The rows of an answer that count: an interface that is not up is as good as missing.
Live == {i \in Interfaces : port[i].state = "up"}

\* sysUpTime is taken to be in every answer; without it a reset is one that the router
\* does not tell of (Restart).
Uptime == real - booted

\* _save_cursor with valid.
CursorAt(i) ==
    [index |-> i, octets |-> port[i].octets, discontinuity |-> port[i].discontinuity,
     uptime |-> Uptime, sampledAt |-> now, baselineAt |-> now, valid |-> TRUE]

\* _save_missing_cursor: the baseline and its counter stay.
MissingCursor == [cursor EXCEPT !.sampledAt = now, !.valid = FALSE]

\* Where the unaccounted time begins.
Baseline == IF cursor.baselineAt = None THEN cursor.sampledAt ELSE cursor.baselineAt

\* Mutant: interfaces are taken for one and the same.
CounterResetByValue(i) ==
    \/ cursor.index = None
    \/ port[i].octets < cursor.octets

\* Mutant: after a gap the difference is not trusted.
CounterResetAfterGap(i) ==
    \/ cursor.index # i
    \/ ~cursor.valid
    \/ port[i].octets < cursor.octets
    \/ port[i].discontinuity # cursor.discontinuity

CounterReset(i) ==
    \/ cursor.index # i
    \/ port[i].octets < cursor.octets
    \/ port[i].discontinuity # cursor.discontinuity

DeviceReset == cursor.uptime # None /\ Uptime < cursor.uptime

FirstSample(live) ==
    /\ cursor = NoCursor
    /\ cursor' = IF Cardinality(live) = 1
                 THEN CursorAt(CHOOSE i \in live : TRUE)
                 ELSE MissingCursor
    /\ traffic' = Pruned(traffic)

\* Mutant: only the first missing sample counts.
GapTimeOnce == IF cursor.valid THEN now - cursor.sampledAt ELSE 0

GapTime == now - cursor.sampledAt

\* The interface is missing, down, or there are several.
MissingSample(live) ==
    /\ cursor # NoCursor
    /\ Cardinality(live) # 1
    /\ traffic' = Pruned(Booked(traffic, cursor.sampledAt, now,
                                [EmptyRow EXCEPT !.unknown = GapTime]))
    /\ cursor' = MissingCursor

\* The part of a gap that is not estimated.
BeyondEstimate(elapsed) == Most(0, elapsed - EstimateTime)

\* _record_estimated_gap.
GapAmounts(elapsed) ==
    LET estimate == Estimate(Baseline, now)
    IN  [measured  |-> 0,
         estimated |-> Most(0, estimate),
         unknown   |-> IF estimate = None THEN elapsed ELSE BeyondEstimate(elapsed),
         sampled   |-> Least(elapsed, EstimateTime)]

ResetSample(i) ==
    /\ cursor # NoCursor
    /\ DeviceReset \/ CounterReset(i)
    /\ traffic' = Pruned(Booked(Cleared(traffic, Baseline, now), Baseline, now,
                                GapAmounts(now - Baseline)))
    /\ cursor' = CursorAt(i)

\* An implausible amount is replaced by an estimate, or its time is unknown.
MeasuredAmounts(amount, elapsed) ==
    LET plausible == amount <= Ceiling * elapsed
        estimate  == IF plausible THEN 0 ELSE Estimate(Baseline, now)
    IN  [measured  |-> IF plausible THEN amount ELSE 0,
         estimated |-> Most(0, estimate),
         unknown   |-> IF estimate = None THEN elapsed ELSE 0,
         sampled   |-> elapsed]

MeasuredSample(i) ==
    /\ cursor # NoCursor
    /\ ~(DeviceReset \/ CounterReset(i))
    /\ traffic' = Pruned(Booked(Cleared(traffic, Baseline, now), Baseline, now,
                                MeasuredAmounts(port[i].octets - cursor.octets, now - Baseline)))
    /\ cursor' = CursorAt(i)

\* History: what an answer with these rows says of the line, whatever record_snmp makes of
\* it.  The first one begins the count; more bytes than pass for true, or another
\* interface alone, end what has to be complete.
ReadingAt(i, bytes) == [line |-> i, at |-> now, bytes |-> bytes]

Believable == carried - reading.bytes <= Ceiling * Most(0, now - reading.at)

Heard(live) ==
    \/ Cardinality(live) # 1 /\ UNCHANGED history
    \/ \E i \in live :
          /\ live = {i}
          /\ \/ carried = None /\ carried' = 0 /\ reading' = ReadingAt(i, 0)
             \/ /\ carried # None /\ carried' = carried
                /\ reading' = IF reading.line = i /\ Believable
                              THEN ReadingAt(i, carried)
                              ELSE NoReading

\* A poll that succeeded.  Polls are apart; an answer may lack rows.  The clock may be
\* behind that of the last one.
Sample ==
    /\ listed
    /\ cursor.sampledAt # now
    /\ \E live \in SUBSET Live :
          /\ \/ FirstSample(live)
             \/ MissingSample(live)
             \/ /\ Cardinality(live) = 1
                /\ \E i \in live : ResetSample(i) \/ MeasuredSample(i)
          /\ Heard(live)
    /\ UNCHANGED <<clocks, router, listed, events>>

\* A poll while the account is not in the list: old rows are dropped all the same.
SampleOthers ==
    /\ ~listed
    /\ traffic' = Pruned(traffic)
    /\ UNCHANGED <<clocks, router, listed, cursor, history, events>>

\* import_accounts with or without the account: its cursor and its traffic stay.
ImportAccounts ==
    /\ events < MaxEvents
    /\ events' = events + 1
    /\ listed' = ~listed
    /\ UNCHANGED <<clocks, router, tables, history>>

-----------------------------------------------------------------------------
(* The router.                                                             *)

Carry(i) ==
    /\ port[i].state = "up"
    /\ port[i].octets < MaxOctets
    /\ port' = [port EXCEPT ![i].octets = @ + 1]
    /\ carried' = IF carried = None THEN None ELSE carried + 1
    /\ reading' = IF reading.line = i THEN reading ELSE NoReading
    /\ UNCHANGED <<clocks, booted, listed, tables, events>>

\* The line reconnects on another interface, a new one or one left over from before that
\* counts on; the old one goes down or away at once, or stays up for a while.
Reconnect(i, j) ==
    /\ port[i].state = "up" /\ port[j].state # "up"
    /\ \E left \in {"absent", "down", "up"} :
          port' = [port EXCEPT ![i].state = left,
                               ![j].state = "up",
                               ![j].octets = IF port[j].state = "absent" THEN 0 ELSE @]
    /\ UNCHANGED booted

\* An interface goes up or down and keeps its counter.
Flap(i) ==
    /\ port[i].state # "absent"
    /\ port' = [port EXCEPT ![i].state = IF @ = "up" THEN "down" ELSE "up"]
    /\ UNCHANGED booted

\* A counter restarts, which the router may or may not tell.
Restart(i) ==
    /\ port[i].state # "absent"
    /\ \E told \in BOOLEAN :
          port' = [port EXCEPT ![i].octets = 0, ![i].discontinuity = IF told THEN @ + 1 ELSE @]
    /\ UNCHANGED booted

Reboot ==
    /\ port' = [i \in Interfaces |-> [port[i] EXCEPT !.octets = 0]]
    /\ booted' = real

\* History: the interface of the last reading was not restarted by this event.
CountsOn ==
    /\ reading # NoReading
    /\ port'[reading.line].octets >= port[reading.line].octets
    /\ port'[reading.line].discontinuity = port[reading.line].discontinuity
    /\ booted' = booted

RouterEvent ==
    /\ events < MaxEvents
    /\ events' = events + 1
    /\ \/ \E i, j \in Interfaces : Reconnect(i, j)
       \/ \E i \in Interfaces : Flap(i)
       \/ \E i \in Interfaces : Restart(i)
       \/ Reboot
    /\ reading' = IF CountsOn THEN reading ELSE NoReading
    /\ UNCHANGED <<clocks, listed, tables, carried>>

Tick ==
    /\ real < MaxTime
    /\ now' = now + 1 /\ real' = real + 1
    /\ UNCHANGED <<router, listed, tables, history, events>>

\* The clock of the host is set back (bound: once), to before the last sample: a smaller
\* step does no more than make the interval shorter.
SetBack ==
    /\ now = real
    /\ events < MaxEvents
    /\ events' = events + 1
    /\ now' \in 0..(cursor.sampledAt - 1)
    /\ UNCHANGED <<real, router, listed, tables, history>>

\* The end of the model's clock.
Rest ==
    /\ real = MaxTime
    /\ UNCHANGED vars

-----------------------------------------------------------------------------

\* One interface is up; others are left from before, or are not there yet.
Init ==
    /\ now = 0 /\ real = 0 /\ booted = 0 /\ listed = TRUE
    /\ port \in [Interfaces -> [state : {"absent", "down", "up"}, octets : {0, 1},
                                discontinuity : {0}]]
    /\ \E i \in Interfaces : \A j \in Interfaces : (port[j].state = "up") = (i = j)
    /\ \A i \in Interfaces : (port[i].state = "down") = (port[i].octets = 1)
    /\ cursor = NoCursor
    /\ traffic = [m \in Minutes |-> EmptyRow]
    /\ carried = None /\ reading = NoReading /\ events = 0

Next ==
    \/ Sample
    \/ SampleOthers
    \/ ImportAccounts
    \/ \E i \in Interfaces : Carry(i)
    \/ RouterEvent
    \/ Tick
    \/ SetBack
    \/ Rest

Spec == Init /\ [][Next]_vars

-----------------------------------------------------------------------------
(* Properties.                                                             *)

\* The rows from time t on have not been old enough to be pruned, whatever the clock
\* has shown.
Kept(t) == Minute(real - KeptTime) <= Minute(t)

\* However interfaces change, vanish and come back, no byte is measured twice and none
\* that the account did not carry: what record_snmp takes from the counters never
\* exceeds what went over the line since the first baseline.
MeasuredOnce == Total("measured") <= Most(0, carried)

\* As long as the router counts the account's bytes on one interface that does not restart
\* and no more of them than the line can carry (by the clock of the host), nothing is
\* lost: samples that lack the interface, or see it down or twice, are made up for by the
\* next one, and all that the line had carried when it was last read is measured (while
\* no row is old enough to be pruned).
ContinuousIsComplete == reading # NoReading /\ Kept(0) => Total("measured") = reading.bytes

\* While the interface cannot be sampled, the time since its last sample is reported as
\* unknown in full (while it is not so old that its rows are pruned).
GapIsUnknown ==
    cursor.baselineAt # None /\ ~cursor.valid /\ Kept(cursor.baselineAt)
        => TotalIn("unknown", Minute(cursor.baselineAt)..Minute(MaxTime))
               >= cursor.sampledAt - cursor.baselineAt

\* No second is accounted twice, neither as sampled nor as unknown, whatever resets and
\* gaps follow one another, not even the seconds that the clock shows once more.
AccountedOnce == Total("sampled") <= real /\ Total("unknown") <= real

=============================================================================
